----------------------------- MODULE MvccProofs -----------------------------
(* Proofs about Mvcc, for any number of readers, writers, keys and pages.     *)
EXTENDS Mvcc, OrderLemmas, FiniteSetTheorems, TLAPS

\* The transaction is being built: until mdb_txn_commit writes its pages.
BodyPcs == {"body", "alloc", "scan", "error"}
CommitPcs == {"flushed", "synced", "written"}

\* The types of the records.
Roots == [Keys -> Nat \cup {NoPage}]
FreeRecords == SUBSET (Nat \X Nat)
Meta == [txnid : Nat, root : Roots, last_pg : Nat, freedb : FreeRecords]
OpenTxn == [pc : BodyPcs \cup CommitPcs \cup {"done"}, id : Nat, root : Roots, next : Nat \ {0},
            freedb : FreeRecords, free : SUBSET Nat, head : SUBSET Nat, pglast : Nat,
            dirty : SUBSET Keys, want : Keys \cup {NoKey}, found_old : BOOLEAN,
            scan : SUBSET Readers, oldest : Nat, mode : {"sync", "nometasync", "nosync"}]
ReaderRecord == [pc : {"idle", "loaded", "published", "checked", "active", "dead"},
                 id : Nat, root : Roots]

\* Types of the variables that the proofs look at.
TypeInv ==
    /\ mti_txnid \in Nat
    /\ mr_txnid \in [Readers -> Nat]
    /\ rd \in [Readers -> ReaderRecord]
    /\ wmutex \in Writers \cup {NoWriter} /\ owner_dead \in BOOLEAN
    /\ me_pgoldest \in [Writers -> Nat]
    /\ metas \in [0..1 -> Meta]
    /\ metaDisk \in [0..1 -> SUBSET Meta]
    /\ txn = Idle \/ txn \in OpenTxn

\* The writer mutex and the transaction go together, and the id of the
\* transaction is the next one until it is published.
TxnInv ==
    /\ txn.pc = "none" <=> wmutex = NoWriter
    /\ owner_dead => wmutex = NoWriter
    /\ txn.pc \in BodyPcs \cup CommitPcs => txn.id = mti_txnid + 1
    /\ txn.pc = "done" => txn.id = mti_txnid
    /\ txn.pc = "written" => metas[Toggle(txn.id)].txnid = txn.id
    /\ txn.pc \in {"alloc", "scan"} => txn.want \in Keys

\* The id in the lock file is not ahead of the meta pages.
NotAhead == \E i \in 0..1 : mti_txnid <= metas[i].txnid

\* A reader whose slot was compared with the id in the lock file.
Settled(r) == rd[r].pc \in {"checked", "active"}

\* Neither a kept idea of the oldest reader nor the one a scan is forming is
\* ahead of the id in the lock file, and the scan is not ahead of a reader that
\* it has passed, or that has settled since.
ScanInv ==
    /\ \A w \in Writers : me_pgoldest[w] <= mti_txnid
    /\ \A r \in Readers : Settled(r) => mr_txnid[r] <= mti_txnid
    /\ txn.pc = "scan" =>
           /\ txn.oldest <= mti_txnid
           /\ \A r \in Readers \ txn.scan : Settled(r) => txn.oldest <= mr_txnid[r]

\* The inductive invariant for the oldest reader.
OInv == TypeInv /\ TxnInv /\ NotAhead /\ ScanInv /\ OldestIsOld

-----------------------------------------------------------------------------
(* A writer never takes a reader to be younger than it is. *)

\* The newer of the two meta pages.
LEMMA NewestIsOne ==
    ASSUME metas \in [0..1 -> Meta]
    PROVE  /\ Newest \in Meta /\ (Newest = metas[0] \/ Newest = metas[1])
           /\ \A i \in 0..1 : metas[i].txnid <= Newest.txnid
<1>1. metas[0] \in Meta /\ metas[1] \in Meta
  OBVIOUS
<1>2. metas[0].txnid \in Nat /\ metas[1].txnid \in Nat
  BY <1>1 DEF Meta
<1>3. Newest = IF metas[0].txnid < metas[1].txnid THEN metas[1] ELSE metas[0]
  BY DEF Newest, Newer
<1> QED BY <1>1, <1>2, <1>3

\* What the steps of a reader have in common: the others, the file and the
\* writer are left alone, and a slot is settled only with the current id.
LEMMA ReaderEffect ==
    ASSUME OInv, NEW r \in Readers, ReaderNext(r)
    PROVE  /\ UNCHANGED <<file, wmutex, owner_dead, mti_txnid, txn, me_pgoldest, fatal,
                          unsynced, history>>
           /\ rd' \in [Readers -> ReaderRecord] /\ mr_txnid' \in [Readers -> Nat]
           /\ \A q \in Readers : q # r => rd'[q] = rd[q] /\ mr_txnid'[q] = mr_txnid[q]
           /\ rd'[r].pc \in {"checked", "active"} =>
                  \/ rd[r].pc \in {"checked", "active"} /\ mr_txnid'[r] = mr_txnid[r]
                  \/ mr_txnid'[r] = mti_txnid
           /\ rd'[r].pc = "active" =>
                  /\ rd[r].pc = "checked" /\ mr_txnid'[r] = mr_txnid[r]
                  /\ rd'[r].root = metas[mr_txnid[r] % 2].root
           /\ rd'[r].pc \in {"published", "checked", "active"} =>
                  \/ rd'[r].id = mr_txnid'[r]
                  \/ rd[r].pc \in {"published", "checked"} /\ rd'[r].id = rd[r].id /\ mr_txnid'[r] = mr_txnid[r]
           /\ rd'[r].pc = "checked" => mr_txnid'[r] = mti_txnid
           /\ rd'[r].pc = "dead" => rd'[r].id = 0
           /\ faults' = faults \/ faults' = faults + 1
<1> USE ConstantsAssumption
<1>1. /\ rd \in [Readers -> ReaderRecord] /\ mr_txnid \in [Readers -> Nat] /\ mti_txnid \in Nat
      /\ metas \in [0..1 -> Meta]
  BY DEF OInv, TypeInv
<1>2. rd[r] \in ReaderRecord /\ mr_txnid[r] \in Nat /\ NoTxn \in Nat
  BY <1>1 DEF NoTxn
<1>3. IdleReader \in ReaderRecord /\ [IdleReader EXCEPT !.pc = "dead"] \in ReaderRecord
  BY DEF IdleReader, FirstMeta, ReaderRecord, Roots
<1>4. ASSUME NEW from, NEW to \in {"published", "checked", "idle"}, ReaderStep(r, from, to)
      PROVE  /\ UNCHANGED <<file, wmutex, owner_dead, mti_txnid, txn, me_pgoldest, fatal,
                            unsynced, faults, history>>
             /\ rd[r].pc = from /\ rd' = [rd EXCEPT ![r] = [rd[r] EXCEPT !.pc = to]]
             /\ [rd[r] EXCEPT !.pc = to] \in ReaderRecord
  <2>1. [rd[r] EXCEPT !.pc = to] \in ReaderRecord
    BY <1>2 DEF ReaderRecord
  <2> QED BY <2>1, <1>1, <1>4 DEF ReaderStep
<1>5. ASSUME ClearSlot(r)
      PROVE  /\ UNCHANGED <<file, wmutex, owner_dead, mti_txnid, txn, me_pgoldest, fatal,
                            unsynced, faults, history>>
             /\ mr_txnid' = [mr_txnid EXCEPT ![r] = NoTxn] /\ rd' = [rd EXCEPT ![r] = IdleReader]
  BY <1>5 DEF ClearSlot
<1>6. /\ IdleReader.pc = "idle" /\ [IdleReader EXCEPT !.pc = "dead"].pc = "dead"
      /\ [IdleReader EXCEPT !.pc = "dead"].id = 0
  BY DEF IdleReader
<1>7. CASE ReaderLoad(r)
  <2>1. [rd[r] EXCEPT !.pc = "loaded", !.id = mti_txnid] \in ReaderRecord
    BY <1>1, <1>2 DEF ReaderRecord
  <2>2. /\ rd' = [rd EXCEPT ![r] = [rd[r] EXCEPT !.pc = "loaded", !.id = mti_txnid]]
        /\ UNCHANGED <<file, lockfile, txn, me_pgoldest, fatal, unsynced, faults, history>>
    BY <1>1, <1>7 DEF ReaderLoad
  <2>3. rd'[r].pc = "loaded"
    BY <1>1, <1>2, <2>2 DEF ReaderRecord
  <2> QED BY <1>1, <2>1, <2>2, <2>3 DEF lockfile
<1>8. CASE ReaderPublish(r)
  <2>1. /\ ReaderStep(r, "loaded", "published") /\ mr_txnid' = [mr_txnid EXCEPT ![r] = rd[r].id]
    BY <1>8 DEF ReaderPublish
  <2>2. rd'[r].pc = "published" /\ rd'[r].id = rd[r].id /\ rd[r].id \in Nat
    BY <1>1, <1>2, <1>4, <2>1 DEF ReaderRecord
  <2> QED BY <1>1, <1>4, <2>1, <2>2
<1>9. CASE ReaderRecheck(r)
  <2>1. ReaderStep(r, "published", "checked") /\ mr_txnid' = mr_txnid /\ mr_txnid[r] = mti_txnid
    BY <1>9 DEF ReaderRecheck, SlotCurrent
  <2>2. rd'[r].pc = "checked" /\ rd'[r].id = rd[r].id /\ rd[r].pc = "published"
    BY <1>1, <1>2, <1>4, <2>1 DEF ReaderRecord
  <2> QED BY <1>1, <1>4, <2>1, <2>2
<1>10. CASE ReaderRetry(r)
  <2>1. ReaderStep(r, "published", "idle") /\ mr_txnid' = mr_txnid
    BY <1>10 DEF ReaderRetry
  <2>2. rd'[r].pc = "idle"
    BY <1>1, <1>2, <1>4, <2>1 DEF ReaderRecord
  <2> QED BY <1>1, <1>4, <2>1, <2>2
<1>11. CASE ReaderCopyMeta(r)
  <2> DEFINE root == metas[mr_txnid[r] % 2].root
  <2>1. root \in Roots
    BY <1>1, <1>2, Parity DEF Meta
  <2> HIDE DEF root
  <2>2. [rd[r] EXCEPT !.pc = "active", !.root = root] \in ReaderRecord
    BY <1>2, <2>1 DEF ReaderRecord
  <2>3. /\ rd[r].pc = "checked" /\ rd' = [rd EXCEPT ![r] = [rd[r] EXCEPT !.pc = "active", !.root = root]]
        /\ UNCHANGED <<file, lockfile, txn, me_pgoldest, fatal, unsynced, faults, history>>
    BY <1>1, <1>11 DEF ReaderCopyMeta, root
  <2>4. rd'[r].pc = "active" /\ rd'[r].root = root /\ rd'[r].id = rd[r].id
    BY <1>1, <1>2, <2>3 DEF ReaderRecord
  <2> QED BY <1>1, <2>2, <2>3, <2>4 DEF lockfile, root
<1>12. CASE ReaderEnd(r) \/ ReaderCheck(r)
  <2>1. ClearSlot(r)
    BY <1>12 DEF ReaderEnd, ReaderCheck
  <2> QED BY <1>1, <1>2, <1>3, <1>5, <1>6, <2>1
<1>13. CASE ReaderDies(r)
  <2>1. /\ rd' = [rd EXCEPT ![r] = [IdleReader EXCEPT !.pc = "dead"]]
        /\ UNCHANGED <<file, lockfile, txn, me_pgoldest, fatal, unsynced, history>>
        /\ faults' = faults + 1
    BY <1>13 DEF ReaderDies, Fault
  <2> QED BY <1>1, <1>3, <1>6, <2>1 DEF lockfile
<1> QED BY <1>7, <1>8, <1>9, <1>10, <1>11, <1>12, <1>13 DEF ReaderNext

\* A step of a reader preserves the invariant.
LEMMA ReaderOInv ==
    ASSUME OInv, NEW r \in Readers, ReaderNext(r)
    PROVE  OInv'
<1>1. /\ UNCHANGED <<metas, metaDisk, wmutex, owner_dead, mti_txnid, txn, me_pgoldest>>
      /\ rd' \in [Readers -> ReaderRecord] /\ mr_txnid' \in [Readers -> Nat]
      /\ \A q \in Readers : q # r => rd'[q] = rd[q] /\ mr_txnid'[q] = mr_txnid[q]
      /\ rd'[r].pc \in {"checked", "active"} =>
             \/ rd[r].pc \in {"checked", "active"} /\ mr_txnid'[r] = mr_txnid[r]
             \/ mr_txnid'[r] = mti_txnid
  BY ReaderEffect DEF file
<1>2. TypeInv'
  BY <1>1 DEF OInv, TypeInv
<1>3. TxnInv' /\ NotAhead'
  BY <1>1 DEF OInv, TxnInv, NotAhead
<1>4. \A q \in Readers : Settled(q)' =>
          \/ Settled(q) /\ mr_txnid'[q] = mr_txnid[q]
          \/ mr_txnid'[q] = mti_txnid
  BY <1>1 DEF Settled
<1>5. mti_txnid \in Nat
  BY DEF OInv, TypeInv
<1>6. ScanInv'
  BY <1>1, <1>4, <1>5 DEF OInv, ScanInv
<1>7. OldestIsOld'
  <2> SUFFICES ASSUME NEW q \in Readers, Settled(q)', NEW w \in Writers
               PROVE  me_pgoldest[w] <= mr_txnid'[q]
    BY <1>1 DEF OldestIsOld, Settled
  <2>1. CASE Settled(q) /\ mr_txnid'[q] = mr_txnid[q]
    BY <2>1 DEF OInv, OldestIsOld, Settled
  <2>2. CASE mr_txnid'[q] = mti_txnid
    BY <2>2 DEF OInv, ScanInv
  <2> QED BY <1>4, <2>1, <2>2
<1> QED BY <1>2, <1>3, <1>6, <1>7 DEF OInv

\* A step inside a write transaction preserves the invariant when what it makes
\* of the oldest reader is not ahead of a reader.
LEMMA PrivateOInv ==
    ASSUME OInv, UNCHANGED <<file, lockfile, rd>>, txn.pc \in BodyPcs,
           txn' \in OpenTxn, txn'.pc \in BodyPcs, txn'.id = txn.id,
           txn'.pc \in {"alloc", "scan"} => txn'.want \in Keys,
           me_pgoldest' \in [Writers -> Nat],
           \A w \in Writers : \/ me_pgoldest'[w] = me_pgoldest[w]
                              \/ /\ me_pgoldest'[w] <= mti_txnid
                                 /\ \A r \in Readers : Settled(r) => me_pgoldest'[w] <= mr_txnid[r],
           txn'.pc = "scan" => /\ txn'.oldest <= mti_txnid
                               /\ \A r \in Readers \ txn'.scan : Settled(r) => txn'.oldest <= mr_txnid[r]
    PROVE  OInv'
<1>1. UNCHANGED <<metas, metaDisk, wmutex, owner_dead, mti_txnid, mr_txnid, rd>>
  BY DEF file, lockfile
<1>2. TypeInv'
  BY <1>1 DEF OInv, TypeInv
<1>3. TxnInv'
  <2>1. txn.pc # "none" /\ txn'.pc # "none" /\ txn'.pc # "done" /\ txn'.pc # "written" /\ txn.pc # "done"
    BY DEF BodyPcs
  <2> QED BY <1>1, <2>1 DEF OInv, TxnInv
<1>4. NotAhead'
  BY <1>1 DEF OInv, NotAhead
<1>5. \A r \in Readers : Settled(r)' <=> Settled(r)
  BY <1>1 DEF Settled
<1>6. ScanInv'
  BY <1>1, <1>5 DEF OInv, ScanInv
<1>7. OldestIsOld'
  BY <1>1, <1>5 DEF OInv, OldestIsOld, Settled
<1> QED BY <1>2, <1>3, <1>4, <1>6, <1>7 DEF OInv

\* The page that is placed makes a transaction record.
LEMMA PlaceType ==
    ASSUME OInv, txn \in OpenTxn, txn.pc = "alloc", NEW p \in Nat, NEW t \in OpenTxn
    PROVE  /\ PlacePage(p, t) \in OpenTxn
           /\ PlacePage(p, t).pc = "body" /\ PlacePage(p, t).id = t.id
           /\ PlacePage(p, t).root = [t.root EXCEPT ![txn.want] = p]
           /\ PlacePage(p, t).next = t.next /\ PlacePage(p, t).freedb = t.freedb
           /\ PlacePage(p, t).free = t.free \cup ({txn.root[txn.want]} \ {NoPage})
           /\ PlacePage(p, t).head = t.head /\ PlacePage(p, t).pglast = t.pglast
           /\ PlacePage(p, t).dirty = t.dirty \cup {txn.want}
<1>1. txn.want \in Keys
  BY DEF OInv, TxnInv
<1>2. /\ [t.root EXCEPT ![txn.want] = p] \in Roots
      /\ t.free \cup ({txn.root[txn.want]} \ {NoPage}) \in SUBSET Nat
      /\ t.dirty \cup {txn.want} \in SUBSET Keys
  <2>1. t.root \in Roots /\ txn.root \in Roots /\ t.free \in SUBSET Nat /\ t.dirty \in SUBSET Keys
    BY DEF OpenTxn
  <2> QED BY <1>1, <2>1 DEF Roots
<1>3. PlacePage(p, t) = [t EXCEPT !.pc = "body", !.want = NoKey, !.root = [t.root EXCEPT ![txn.want] = p],
                                  !.dirty = t.dirty \cup {txn.want},
                                  !.free = t.free \cup ({txn.root[txn.want]} \ {NoPage})]
  BY DEF PlacePage, OpenTxn
<1> DEFINE a == [t.root EXCEPT ![txn.want] = p]
           b == t.dirty \cup {txn.want}
           c == t.free \cup ({txn.root[txn.want]} \ {NoPage})
<1> HIDE DEF a, b, c
<1>4. PlacePage(p, t) = [t EXCEPT !.pc = "body", !.want = NoKey, !.root = a, !.dirty = b, !.free = c]
  BY <1>3 DEF a, b, c
<1>5. a \in Roots /\ b \in SUBSET Keys /\ c \in SUBSET Nat
  BY <1>2 DEF a, b, c
<1>6. PlacePage(p, t) \in OpenTxn
  <2>1. "body" \in BodyPcs \cup CommitPcs \cup {"done"} /\ NoKey \in Keys \cup {NoKey}
    BY DEF BodyPcs
  <2>2. PICK x : x = [t EXCEPT !.pc = "body", !.want = NoKey, !.root = a, !.dirty = b, !.free = c]
    OBVIOUS
  <2>3. x \in OpenTxn
    BY <1>5, <2>1, <2>2 DEF OpenTxn
  <2> QED BY <1>4, <2>2, <2>3
<1>7. /\ PlacePage(p, t).pc = "body" /\ PlacePage(p, t).id = t.id /\ PlacePage(p, t).root = a
      /\ PlacePage(p, t).next = t.next /\ PlacePage(p, t).freedb = t.freedb /\ PlacePage(p, t).free = c
      /\ PlacePage(p, t).head = t.head /\ PlacePage(p, t).pglast = t.pglast
      /\ PlacePage(p, t).dirty = b
  BY <1>4 DEF OpenTxn
<1> QED BY <1>6, <1>7 DEF a, b, c

\* Only the owner of the mutex has a transaction.
LEMMA OwnerHasTxn ==
    ASSUME OInv, NEW w \in Writers, wmutex = w
    PROVE  txn \in OpenTxn /\ txn.pc # "none"
BY ConstantsAssumption DEF OInv, TypeInv, TxnInv, Idle

\* Every step of an allocation keeps the rest of the state and the id.
LEMMA TouchEffect ==
    ASSUME OInv, NEW w \in Writers, NEW k \in Keys, Touch(w, k)
    PROVE  /\ txn \in OpenTxn /\ txn' \in OpenTxn /\ UNCHANGED <<file, lockfile, rd, me_pgoldest, history>>
           /\ txn.pc = "body" /\ k \notin txn.dirty /\ txn'.pc = "alloc" /\ txn'.want = k
           /\ txn'.id = txn.id /\ txn'.root = txn.root /\ txn'.next = txn.next
           /\ txn'.freedb = txn.freedb /\ txn'.free = txn.free /\ txn'.head = txn.head
           /\ txn'.pglast = txn.pglast /\ txn'.dirty = txn.dirty
<1>1. txn \in OpenTxn
  BY OwnerHasTxn DEF Touch, Private
<1>2. /\ txn' = [txn EXCEPT !.pc = "alloc", !.want = k, !.found_old = FALSE]
      /\ txn.pc = "body" /\ k \notin txn.dirty /\ UNCHANGED <<file, lockfile, rd, me_pgoldest, history>>
  BY DEF Touch, Private
<1> QED BY <1>1, <1>2 DEF OpenTxn, BodyPcs

\* mdb_page_alloc reads the next record of the freeDB.
LEMMA FetchEffect ==
    ASSUME OInv, NEW w \in Writers, AllocFetch(w)
    PROVE  /\ txn \in OpenTxn /\ txn' \in OpenTxn /\ UNCHANGED <<file, lockfile, rd, me_pgoldest, history>>
           /\ txn.pc = "alloc" /\ txn.head = {} /\ txn'.pc = "alloc" /\ txn'.want = txn.want
           /\ txn'.id = txn.id /\ txn'.root = txn.root /\ txn'.next = txn.next
           /\ txn'.freedb = txn.freedb /\ txn'.free = txn.free /\ txn'.dirty = txn.dirty
           /\ txn'.head = {e[2] : e \in {e \in txn.freedb : e[1] = txn'.pglast}}
           /\ txn'.pglast > txn.pglast /\ txn'.pglast < me_pgoldest[w]
           /\ \A e \in txn.freedb : e[1] > txn.pglast => e[1] >= txn'.pglast
<1>1. txn \in OpenTxn
  BY OwnerHasTxn DEF AllocFetch, Private
<1>2. Records \subseteq Nat /\ \A n \in Records : n > txn.pglast
  BY <1>1 DEF Records, OpenTxn, FreeRecords
<1>3. PICK last : last = Min(Records)
  OBVIOUS
<1>4. PICK pages : pages = {e[2] : e \in {e \in txn.freedb : e[1] = last}}
  OBVIOUS
<1>5. last \in Records /\ \A n \in Records : last <= n
  BY <1>2, <1>3, MinIsLeast DEF AllocFetch
<1>6. /\ txn' = [txn EXCEPT !.pglast = last, !.head = pages]
      /\ txn.pc = "alloc" /\ txn.head = {} /\ UNCHANGED <<file, lockfile, rd, me_pgoldest, history>>
      /\ last < me_pgoldest[w]
  BY <1>3, <1>4 DEF AllocFetch, Private, CanFetch, Reclaimable
<1>7. last \in Nat /\ pages \in SUBSET Nat
  <2>1. txn.freedb \in SUBSET (Nat \X Nat)
    BY <1>1 DEF OpenTxn, FreeRecords
  <2> QED BY <2>1, <1>2, <1>4, <1>5
<1>8. \A e \in txn.freedb : e[1] > txn.pglast => e[1] \in Records
  BY DEF Records
<1>9. /\ txn' \in OpenTxn /\ txn'.pc = "alloc" /\ txn'.want = txn.want
      /\ txn'.id = txn.id /\ txn'.root = txn.root /\ txn'.next = txn.next
      /\ txn'.freedb = txn.freedb /\ txn'.free = txn.free /\ txn'.dirty = txn.dirty
      /\ txn'.head = pages /\ txn'.pglast = last
  BY <1>1, <1>6, <1>7 DEF OpenTxn
<1>10. last > txn.pglast
  BY <1>2, <1>5
<1>11. \A e \in txn.freedb : e[1] > txn.pglast => e[1] >= last
  <2> SUFFICES ASSUME NEW e \in txn.freedb, e[1] > txn.pglast PROVE e[1] >= last
    OBVIOUS
  <2>1. e[1] \in Records
    BY <1>8
  <2>2. last <= e[1] /\ last \in Nat /\ e[1] \in Nat
    BY <2>1, <1>5, <1>2, <1>7
  <2> QED BY <2>2
<1> QED BY <1>1, <1>4, <1>6, <1>9, <1>10, <1>11

\* A reclaimed page is placed.
LEMMA ReuseEffect ==
    ASSUME OInv, NEW w \in Writers, AllocReuse(w)
    PROVE  /\ txn \in OpenTxn /\ txn' \in OpenTxn /\ UNCHANGED <<file, lockfile, rd, me_pgoldest, history>>
           /\ txn.pc = "alloc" /\ txn'.pc = "body" /\ txn'.id = txn.id
           /\ txn.want \in Keys /\ txn'.next = txn.next /\ txn'.freedb = txn.freedb
           /\ txn'.pglast = txn.pglast /\ txn'.dirty = txn.dirty \cup {txn.want}
           /\ txn'.free = txn.free \cup ({txn.root[txn.want]} \ {NoPage})
           /\ \E p \in txn.head : /\ txn'.root = [txn.root EXCEPT ![txn.want] = p]
                                  /\ txn'.head = txn.head \ {p}
<1>1. txn \in OpenTxn /\ txn.pc = "alloc" /\ txn.head # {}
  BY OwnerHasTxn DEF AllocReuse, Private
<1>2. PICK p : p = Min(txn.head)
  OBVIOUS
<1>3. p \in txn.head /\ p \in Nat
  BY <1>1, <1>2, MinIsLeast DEF OpenTxn
<1>4. PICK t : t = [txn EXCEPT !.head = txn.head \ {p}]
  OBVIOUS
<1>5. /\ t \in OpenTxn /\ t.id = txn.id /\ t.root = txn.root /\ t.next = txn.next /\ t.freedb = txn.freedb
      /\ t.free = txn.free /\ t.head = txn.head \ {p} /\ t.pglast = txn.pglast /\ t.dirty = txn.dirty
  BY <1>1, <1>4 DEF OpenTxn
<1>6. /\ txn' = PlacePage(p, t) /\ UNCHANGED <<file, lockfile, rd, me_pgoldest, history>>
  BY <1>2, <1>4 DEF AllocReuse, Private
<1>7. txn.want \in Keys
  BY <1>1 DEF OInv, TxnInv
<1>8. /\ txn' \in OpenTxn /\ txn'.pc = "body" /\ txn'.id = t.id
      /\ txn'.root = [t.root EXCEPT ![txn.want] = p]
      /\ txn'.next = t.next /\ txn'.freedb = t.freedb
      /\ txn'.free = t.free \cup ({txn.root[txn.want]} \ {NoPage})
      /\ txn'.head = t.head /\ txn'.pglast = t.pglast
      /\ txn'.dirty = t.dirty \cup {txn.want}
  BY <1>1, <1>3, <1>5, <1>6, PlaceType
<1>9. txn'.root = [txn.root EXCEPT ![txn.want] = p] /\ txn'.head = txn.head \ {p}
  BY <1>5, <1>8
<1> QED BY <1>1, <1>3, <1>5, <1>6, <1>7, <1>8, <1>9

\* A page is added at the end of the file, or MDB_MAP_FULL is returned.
LEMMA NewPageEffect ==
    ASSUME OInv, NEW w \in Writers, AllocNew(w)
    PROVE  /\ txn \in OpenTxn /\ txn' \in OpenTxn /\ UNCHANGED <<file, lockfile, rd, me_pgoldest, history>>
           /\ txn.pc = "alloc" /\ txn'.id = txn.id /\ txn.head = {} /\ txn.want \in Keys
           /\ txn'.freedb = txn.freedb /\ txn'.head = txn.head /\ txn'.pglast = txn.pglast
           /\ \/ /\ txn'.pc = "error" /\ txn'.root = txn.root /\ txn'.next = txn.next
                 /\ txn'.free = txn.free /\ txn'.dirty = txn.dirty
              \/ /\ txn'.pc = "body" /\ txn.next + 1 < MaxPg /\ txn'.next = txn.next + 1
                 /\ txn'.root = [txn.root EXCEPT ![txn.want] = txn.next]
                 /\ txn'.free = txn.free \cup ({txn.root[txn.want]} \ {NoPage})
                 /\ txn'.dirty = txn.dirty \cup {txn.want}
<1> USE ConstantsAssumption
<1>1. txn \in OpenTxn /\ txn.pc = "alloc" /\ txn.head = {} /\ txn.next \in Nat
  BY OwnerHasTxn DEF AllocNew, Private, OpenTxn
<1>2. txn.want \in Keys /\ UNCHANGED <<file, lockfile, rd, me_pgoldest, history>>
  BY <1>1 DEF OInv, TxnInv, AllocNew, Private
<1>3. CASE txn.next + 1 >= MaxPg
  <2>1. txn' = [txn EXCEPT !.pc = "error"]
    BY <1>3 DEF AllocNew
  <2> QED BY <1>1, <1>2, <2>1 DEF OpenTxn, BodyPcs
<1>4. CASE ~(txn.next + 1 >= MaxPg)
  <2>1. PICK t : t = [txn EXCEPT !.next = txn.next + 1]
    OBVIOUS
  <2>2. /\ t \in OpenTxn /\ t.id = txn.id /\ t.root = txn.root /\ t.next = txn.next + 1
        /\ t.freedb = txn.freedb /\ t.free = txn.free /\ t.head = txn.head
        /\ t.pglast = txn.pglast /\ t.dirty = txn.dirty
    BY <1>1, <2>1 DEF OpenTxn
  <2>3. txn' = PlacePage(txn.next, t)
    BY <1>4, <2>1 DEF AllocNew
  <2>4. /\ txn' \in OpenTxn /\ txn'.pc = "body" /\ txn'.id = t.id
        /\ txn'.root = [t.root EXCEPT ![txn.want] = txn.next]
        /\ txn'.next = t.next /\ txn'.freedb = t.freedb
        /\ txn'.free = t.free \cup ({txn.root[txn.want]} \ {NoPage})
        /\ txn'.head = t.head /\ txn'.pglast = t.pglast
        /\ txn'.dirty = t.dirty \cup {txn.want}
    BY <1>1, <2>2, <2>3, PlaceType
  <2>5. txn'.root = [txn.root EXCEPT ![txn.want] = txn.next] /\ txn.next + 1 < MaxPg
    BY <1>1, <1>4, <2>2, <2>4
  <2> QED BY <1>1, <1>2, <2>2, <2>4, <2>5
<1> QED BY <1>3, <1>4

\* mdb_find_oldest starts with the id before the transaction, looks at the slots
\* one by one, and keeps the result for the process.
LEMMA OldestEffect ==
    ASSUME OInv, NEW w \in Writers,
           FindOldest(w) \/ OldestFound(w) \/ \E r \in Readers : ScanReader(w, r)
    PROVE  /\ txn \in OpenTxn /\ txn' \in OpenTxn /\ UNCHANGED <<file, lockfile, rd, history>>
           /\ txn.pc \in {"alloc", "scan"} /\ txn'.pc \in {"alloc", "scan"}
           /\ txn'.id = txn.id /\ txn'.root = txn.root /\ txn'.next = txn.next
           /\ txn'.freedb = txn.freedb /\ txn'.free = txn.free /\ txn'.head = txn.head
           /\ txn'.pglast = txn.pglast /\ txn'.dirty = txn.dirty /\ txn'.want = txn.want
           /\ me_pgoldest' \in [Writers -> Nat]
           /\ \A v \in Writers : \/ me_pgoldest'[v] = me_pgoldest[v]
                                 \/ /\ me_pgoldest'[v] <= mti_txnid
                                    /\ \A r \in Readers : Settled(r) => me_pgoldest'[v] <= mr_txnid[r]
           /\ txn'.pc = "scan" =>
                  /\ txn'.oldest <= mti_txnid
                  /\ \A r \in Readers \ txn'.scan : Settled(r) => txn'.oldest <= mr_txnid[r]
<1>1. txn \in OpenTxn /\ mti_txnid \in Nat /\ mr_txnid \in [Readers -> Nat] /\ me_pgoldest \in [Writers -> Nat]
  BY OwnerHasTxn DEF FindOldest, OldestFound, ScanReader, Private, OInv, TypeInv
<1>2. CASE FindOldest(w)
  <2>1. /\ txn' = [txn EXCEPT !.pc = "scan", !.scan = Readers, !.oldest = txn.id - 1]
        /\ txn.pc = "alloc" /\ UNCHANGED <<file, lockfile, rd, me_pgoldest, history>>
    BY <1>2 DEF FindOldest, Private
  <2>2. txn.id - 1 = mti_txnid
    BY <1>1, <2>1 DEF OInv, TxnInv, BodyPcs
  <2>3. /\ txn' \in OpenTxn /\ txn'.pc = "scan" /\ txn'.scan = Readers /\ txn'.oldest = mti_txnid
        /\ txn'.id = txn.id /\ txn'.root = txn.root /\ txn'.next = txn.next
        /\ txn'.freedb = txn.freedb /\ txn'.free = txn.free /\ txn'.head = txn.head
        /\ txn'.pglast = txn.pglast /\ txn'.dirty = txn.dirty /\ txn'.want = txn.want
    BY <1>1, <2>1, <2>2 DEF OpenTxn, BodyPcs
  <2> QED BY <1>1, <2>1, <2>3
<1>3. CASE OldestFound(w)
  <2>1. /\ txn' = [txn EXCEPT !.pc = "alloc", !.found_old = TRUE]
        /\ me_pgoldest' = [me_pgoldest EXCEPT ![w] = txn.oldest]
        /\ txn.pc = "scan" /\ txn.scan = {} /\ UNCHANGED <<file, lockfile, rd, history>>
    BY <1>3 DEF OldestFound, Private
  <2>2. txn.oldest <= mti_txnid /\ \A r \in Readers : Settled(r) => txn.oldest <= mr_txnid[r]
    BY <2>1 DEF OInv, ScanInv
  <2>3. /\ txn' \in OpenTxn /\ txn'.pc = "alloc"
        /\ txn'.id = txn.id /\ txn'.root = txn.root /\ txn'.next = txn.next
        /\ txn'.freedb = txn.freedb /\ txn'.free = txn.free /\ txn'.head = txn.head
        /\ txn'.pglast = txn.pglast /\ txn'.dirty = txn.dirty /\ txn'.want = txn.want
        /\ txn.oldest \in Nat
    BY <1>1, <2>1 DEF OpenTxn, BodyPcs
  <2>4. /\ me_pgoldest' \in [Writers -> Nat] /\ me_pgoldest'[w] = txn.oldest
        /\ \A v \in Writers : v # w => me_pgoldest'[v] = me_pgoldest[v]
    BY <1>1, <2>1, <2>3
  <2>5. \A v \in Writers : \/ me_pgoldest'[v] = me_pgoldest[v]
                            \/ /\ me_pgoldest'[v] <= mti_txnid
                               /\ \A r \in Readers : Settled(r) => me_pgoldest'[v] <= mr_txnid[r]
    BY <2>2, <2>4
  <2> QED BY <1>1, <2>1, <2>3, <2>4, <2>5
<1>4. ASSUME NEW r \in Readers, ScanReader(w, r)
      PROVE  /\ txn' \in OpenTxn /\ txn.pc = "scan" /\ txn'.pc = "scan"
             /\ UNCHANGED <<file, lockfile, rd, me_pgoldest, history>>
             /\ txn'.id = txn.id /\ txn'.root = txn.root /\ txn'.next = txn.next
             /\ txn'.freedb = txn.freedb /\ txn'.free = txn.free /\ txn'.head = txn.head
             /\ txn'.pglast = txn.pglast /\ txn'.dirty = txn.dirty /\ txn'.want = txn.want
             /\ txn'.oldest <= mti_txnid
             /\ \A q \in Readers \ txn'.scan : Settled(q) => txn'.oldest <= mr_txnid[q]
  <2>1. PICK o : o = OlderOf(r)
    OBVIOUS
  <2>2. /\ txn' = [txn EXCEPT !.scan = txn.scan \ {r}, !.oldest = o]
        /\ txn.pc = "scan" /\ UNCHANGED <<file, lockfile, rd, me_pgoldest, history>>
    BY <1>4, <2>1 DEF ScanReader, Private
  <2>3. o \in Nat /\ o <= txn.oldest /\ o <= mr_txnid[r] /\ txn.oldest \in Nat
    BY <1>1, <2>1 DEF OlderOf, OpenTxn
  <2>4. /\ txn' \in OpenTxn /\ txn'.pc = "scan" /\ txn'.scan = txn.scan \ {r} /\ txn'.oldest = o
        /\ txn'.id = txn.id /\ txn'.root = txn.root /\ txn'.next = txn.next
        /\ txn'.freedb = txn.freedb /\ txn'.free = txn.free /\ txn'.head = txn.head
        /\ txn'.pglast = txn.pglast /\ txn'.dirty = txn.dirty /\ txn'.want = txn.want
    BY <1>1, <2>2, <2>3 DEF OpenTxn
  <2>5. txn.oldest <= mti_txnid /\ \A q \in Readers \ txn.scan : Settled(q) => txn.oldest <= mr_txnid[q]
    BY <2>2 DEF OInv, ScanInv
  <2>6. o <= mti_txnid
    BY <1>1, <2>3, <2>5
  <2>7. ASSUME NEW q \in Readers \ txn'.scan, Settled(q) PROVE o <= mr_txnid[q]
    <3>1. CASE q = r
      BY <3>1, <2>3
    <3>2. CASE q # r
      <4>1. txn.oldest <= mr_txnid[q] /\ mr_txnid[q] \in Nat
        BY <3>2, <2>4, <2>5, <2>7, <1>1
      <4> QED BY <4>1, <2>3
    <3> QED BY <3>1, <3>2
  <2> QED BY <2>2, <2>4, <2>6, <2>7
<1> QED BY <1>1, <1>2, <1>3, <1>4

\* The steps of an allocation preserve the invariant.
LEMMA AllocOInv ==
    ASSUME OInv, NEW w \in Writers,
           \/ AllocReuse(w) \/ AllocFetch(w) \/ FindOldest(w) \/ OldestFound(w) \/ AllocNew(w)
           \/ \E k \in Keys : Touch(w, k)
           \/ \E r \in Readers : ScanReader(w, r)
    PROVE  OInv'
<1>1. me_pgoldest \in [Writers -> Nat]
  BY DEF OInv, TypeInv
<1>2. CASE AllocReuse(w)
  BY <1>1, <1>2, ReuseEffect, PrivateOInv DEF BodyPcs
<1>3. CASE AllocFetch(w)
  <2>1. txn.want \in Keys
    BY <1>3, FetchEffect DEF OInv, TxnInv
  <2> QED BY <1>1, <1>3, <2>1, FetchEffect, PrivateOInv DEF BodyPcs
<1>4. CASE AllocNew(w)
  BY <1>1, <1>4, NewPageEffect, PrivateOInv DEF BodyPcs
<1>5. CASE \E k \in Keys : Touch(w, k)
  BY <1>1, <1>5, TouchEffect, PrivateOInv DEF BodyPcs
<1>6. CASE FindOldest(w) \/ OldestFound(w) \/ \E r \in Readers : ScanReader(w, r)
  <2>1. txn.want \in Keys
    BY <1>6, OldestEffect DEF OInv, TxnInv
  <2> QED BY <1>6, <2>1, OldestEffect, PrivateOInv DEF BodyPcs
<1> QED BY <1>2, <1>3, <1>4, <1>5, <1>6


\* The steps that end a write transaction without moving the id in the lock
\* file preserve the invariant.
LEMMA ReleaseOInv ==
    ASSUME OInv, txn' = Idle, wmutex' = NoWriter, owner_dead' \in BOOLEAN,
           UNCHANGED <<mti_txnid, mr_txnid, rd>>,
           metas' \in [0..1 -> Meta], metaDisk' \in [0..1 -> SUBSET Meta],
           \A i \in 0..1 : metas'[i].txnid = metas[i].txnid \/ metas'[i].txnid = mti_txnid + 1,
           me_pgoldest' \in [Writers -> Nat],
           \A w \in Writers : me_pgoldest'[w] <= me_pgoldest[w]
    PROVE  OInv'
<1>1. Idle.pc = "none"
  BY DEF Idle
<1>2. TypeInv'
  BY DEF OInv, TypeInv
<1>3. TxnInv'
  BY <1>1 DEF TxnInv, BodyPcs, CommitPcs
<1>4. NotAhead'
  <2>1. mti_txnid \in Nat
    BY DEF OInv, TypeInv
  <2> QED BY <2>1 DEF OInv, NotAhead
<1>5. \A r \in Readers : Settled(r)' <=> Settled(r)
  BY DEF Settled
<1>6. /\ mti_txnid \in Nat /\ me_pgoldest \in [Writers -> Nat] /\ mr_txnid \in [Readers -> Nat]
  BY DEF OInv, TypeInv
<1>7. ScanInv'
  <2>1. ASSUME NEW w \in Writers PROVE me_pgoldest'[w] <= mti_txnid
    <3>1. me_pgoldest[w] <= mti_txnid /\ me_pgoldest'[w] <= me_pgoldest[w]
      BY DEF OInv, ScanInv
    <3> QED BY <1>6, <3>1
  <2>2. \A r \in Readers : Settled(r) => mr_txnid[r] <= mti_txnid
    BY DEF OInv, ScanInv
  <2> QED BY <1>1, <1>5, <2>1, <2>2 DEF ScanInv
<1>8. OldestIsOld'
  <2> SUFFICES ASSUME NEW q \in Readers, Settled(q), NEW w \in Writers
               PROVE  me_pgoldest'[w] <= mr_txnid[q]
    BY <1>5 DEF OldestIsOld, Settled
  <2>1. me_pgoldest[w] <= mr_txnid[q] /\ me_pgoldest'[w] <= me_pgoldest[w]
    BY DEF OInv, OldestIsOld, Settled
  <2> QED BY <1>6, <2>1
<1> QED BY <1>2, <1>3, <1>4, <1>7, <1>8 DEF OInv

\* So do the steps of a commit, up to the id in the lock file.
LEMMA CommitOInv ==
    ASSUME OInv, txn \in OpenTxn, txn' \in OpenTxn, txn'.id = txn.id,
           UNCHANGED <<wmutex, owner_dead, mr_txnid, rd, me_pgoldest>>,
           metas' \in [0..1 -> Meta], metaDisk' \in [0..1 -> SUBSET Meta],
           \/ /\ txn.pc \in BodyPcs \cup CommitPcs /\ txn'.pc \in CommitPcs /\ UNCHANGED mti_txnid
              /\ txn'.pc = "written" => metas'[Toggle(txn.id)].txnid = txn.id
              /\ \A i \in 0..1 : metas'[i].txnid = metas[i].txnid \/ metas'[i].txnid = mti_txnid + 1
           \/ /\ txn.pc = "written" /\ txn'.pc = "done" /\ mti_txnid' = txn.id /\ UNCHANGED metas
    PROVE  OInv'
<1>1. /\ mti_txnid \in Nat /\ me_pgoldest \in [Writers -> Nat] /\ mr_txnid \in [Readers -> Nat]
      /\ txn.id \in Nat /\ metas \in [0..1 -> Meta]
  BY DEF OInv, TypeInv, OpenTxn
<1>2. mti_txnid' \in {mti_txnid, mti_txnid + 1}
  BY DEF OInv, TxnInv, BodyPcs, CommitPcs
<1>3. TypeInv'
  BY <1>1, <1>2 DEF OInv, TypeInv
<1>4. TxnInv'
  <2>1. txn.pc # "none" /\ txn'.pc # "none" /\ txn'.pc \notin BodyPcs
    BY DEF BodyPcs, CommitPcs
  <2>2. txn'.pc \notin {"alloc", "scan"}
    BY DEF CommitPcs
  <2>3. txn'.pc \in CommitPcs => txn'.id = mti_txnid' + 1
    BY DEF OInv, TxnInv, CommitPcs
  <2>4. txn'.pc = "done" => txn'.id = mti_txnid'
    BY DEF CommitPcs
  <2>5. txn'.pc = "written" => metas'[Toggle(txn'.id)].txnid = txn'.id
    BY DEF CommitPcs
  <2> QED BY <2>1, <2>2, <2>3, <2>4, <2>5 DEF OInv, TxnInv
<1>5. NotAhead'
  <2>1. CASE UNCHANGED mti_txnid
    <3>1. PICK i \in 0..1 : mti_txnid <= metas[i].txnid
      BY DEF OInv, NotAhead
    <3>2. metas'[i].txnid = metas[i].txnid \/ metas'[i].txnid = mti_txnid + 1
      <4>1. CASE UNCHANGED metas
        BY <4>1
      <4> QED BY <4>1
    <3>3. mti_txnid <= metas'[i].txnid
      BY <1>1, <3>1, <3>2
    <3> QED BY <2>1, <3>3 DEF NotAhead
  <2>2. CASE txn.pc = "written" /\ mti_txnid' = txn.id /\ UNCHANGED metas
    <3>1. metas[Toggle(txn.id)].txnid = txn.id
      BY <2>2 DEF OInv, TxnInv
    <3>2. Toggle(txn.id) \in 0..1
      BY <1>1, Parity DEF Toggle
    <3> QED BY <1>1, <2>2, <3>1, <3>2 DEF NotAhead
  <2> QED BY <2>1, <2>2
<1>6. \A r \in Readers : Settled(r)' <=> Settled(r)
  BY DEF Settled
<1>7. txn'.pc # "scan"
  BY DEF CommitPcs
<1>8. ScanInv'
  <2>1. ASSUME NEW w \in Writers PROVE me_pgoldest[w] <= mti_txnid'
    <3>1. me_pgoldest[w] <= mti_txnid
      BY DEF OInv, ScanInv
    <3> QED BY <1>1, <1>2, <3>1
  <2>2. ASSUME NEW r \in Readers, Settled(r) PROVE mr_txnid[r] <= mti_txnid'
    <3>1. mr_txnid[r] <= mti_txnid
      BY <2>2 DEF OInv, ScanInv
    <3> QED BY <1>1, <1>2, <3>1
  <2> QED BY <1>6, <1>7, <2>1, <2>2 DEF ScanInv
<1>9. OldestIsOld'
  BY DEF OInv, OldestIsOld
<1> QED BY <1>3, <1>4, <1>5, <1>8, <1>9 DEF OInv

\* The pages and the freeDB are written.
LEMMA FlushEffect ==
    ASSUME OInv, NEW w \in Writers, NEW m \in Modes, Flush(w, m)
    PROVE  /\ txn \in OpenTxn /\ txn' \in OpenTxn /\ txn.pc = "body" /\ txn'.pc = "flushed"
           /\ txn'.id = txn.id /\ txn'.root = txn.root /\ txn'.next = txn.next
           /\ txn'.freedb = SavedFreelist /\ txn.dirty # {}
           /\ UNCHANGED <<metas, metaDisk, lockfile, rd, me_pgoldest, fatal, unsynced, faults, history>>
<1>1. txn \in OpenTxn
  BY OwnerHasTxn DEF Flush
<1>2. PICK s : s = SavedFreelist
  OBVIOUS
<1>3. s \in FreeRecords
  <2>1. /\ txn.freedb \in SUBSET (Nat \X Nat) /\ txn.head \in SUBSET Nat /\ txn.free \in SUBSET Nat
        /\ txn.pglast \in Nat /\ txn.id \in Nat
    BY <1>1 DEF OpenTxn, FreeRecords
  <2> QED BY <2>1, <1>2 DEF SavedFreelist, FreeRecords
<1>4. m \in {"sync", "nometasync", "nosync"}
  BY ConstantsAssumption
<1>5. /\ txn' = [txn EXCEPT !.pc = "flushed", !.freedb = s, !.mode = m]
      /\ txn.pc = "body" /\ txn.dirty # {}
      /\ UNCHANGED <<metas, metaDisk, lockfile, rd, me_pgoldest, fatal, unsynced, faults, history>>
  BY <1>2 DEF Flush
<1>6. /\ txn' \in OpenTxn /\ txn'.pc = "flushed" /\ txn'.id = txn.id /\ txn'.root = txn.root
      /\ txn'.next = txn.next /\ txn'.freedb = s
  BY <1>1, <1>3, <1>4, <1>5 DEF OpenTxn, CommitPcs
<1> QED BY <1>1, <1>2, <1>5, <1>6

\* A later step of a commit moves the program counter of the transaction only.
LEMMA PcEffect ==
    ASSUME OInv, NEW w \in Writers, wmutex = w, NEW to \in CommitPcs \cup {"done"},
           txn' = [txn EXCEPT !.pc = to]
    PROVE  /\ txn \in OpenTxn /\ txn' \in OpenTxn /\ txn'.pc = to
           /\ txn'.id = txn.id /\ txn'.root = txn.root /\ txn'.next = txn.next
           /\ txn'.freedb = txn.freedb
<1>1. txn \in OpenTxn
  BY OwnerHasTxn
<1> QED BY <1>1 DEF OpenTxn

\* The meta page that a commit writes.
LEMMA NewMetaType ==
    ASSUME txn \in OpenTxn
    PROVE  /\ NewMeta \in Meta /\ NewMeta.txnid = txn.id /\ NewMeta.root = txn.root
           /\ NewMeta.last_pg = txn.next - 1 /\ NewMeta.freedb = txn.freedb
BY DEF NewMeta, Meta, OpenTxn

\* BeginWrite: the transaction starts from the meta page of the id in the lock file.
LEMMA BeginEffect ==
    ASSUME OInv, NEW w \in Writers, BeginWrite(w)
    PROVE  /\ txn = Idle /\ ~owner_dead /\ wmutex' = w /\ txn' \in OpenTxn /\ txn'.pc = "body"
           /\ txn'.id = mti_txnid + 1 /\ txn'.root = metas[mti_txnid % 2].root
           /\ txn'.next = metas[mti_txnid % 2].last_pg + 1
           /\ txn'.freedb = metas[mti_txnid % 2].freedb /\ txn'.free = {} /\ txn'.head = {}
           /\ txn'.pglast = 0 /\ txn'.dirty = {}
           /\ UNCHANGED <<file, mti_txnid, mr_txnid, owner_dead, rd, me_pgoldest, fatal,
                          unsynced, faults, history>>
<1>1. mti_txnid \in Nat /\ metas \in [0..1 -> Meta]
  BY DEF OInv, TypeInv
<1>2. PICK m : m = metas[mti_txnid % 2]
  OBVIOUS
<1>3. m \in Meta
  BY <1>1, <1>2, Parity
<1>4. m.root \in Roots /\ m.last_pg \in Nat /\ m.freedb \in FreeRecords
  BY <1>3 DEF Meta
<1>5. txn' = [pc |-> "body", id |-> mti_txnid + 1, root |-> m.root,
              next |-> m.last_pg + 1, freedb |-> m.freedb,
              free |-> {}, head |-> {}, pglast |-> 0, dirty |-> {},
              want |-> NoKey, found_old |-> FALSE, scan |-> {}, oldest |-> 0,
              mode |-> "sync"]
  BY <1>2 DEF BeginWrite
<1>6. /\ txn' \in OpenTxn /\ txn'.pc = "body"
      /\ txn'.id = mti_txnid + 1 /\ txn'.root = m.root
      /\ txn'.next = m.last_pg + 1 /\ txn'.freedb = m.freedb /\ txn'.free = {} /\ txn'.head = {}
      /\ txn'.pglast = 0 /\ txn'.dirty = {}
  BY <1>1, <1>4, <1>5 DEF OpenTxn, BodyPcs
<1>7. wmutex = NoWriter /\ txn.pc = "none"
  BY DEF BeginWrite, OInv, TxnInv
<1>8. txn = Idle
  BY <1>7 DEF OInv, TypeInv, OpenTxn, BodyPcs, CommitPcs
<1> QED BY <1>2, <1>6, <1>8 DEF BeginWrite

\* The beginning of a write transaction preserves the invariant.
LEMMA BeginOInv ==
    ASSUME OInv, NEW w \in Writers, BeginWrite(w)
    PROVE  OInv'
<1> USE ConstantsAssumption
<1>1. /\ ~owner_dead /\ wmutex' = w /\ txn' \in OpenTxn /\ txn'.pc = "body" /\ txn'.id = mti_txnid + 1
      /\ UNCHANGED <<metas, metaDisk, mti_txnid, mr_txnid, owner_dead, rd, me_pgoldest>>
  BY BeginEffect DEF file
<1>2. TypeInv'
  BY <1>1 DEF OInv, TypeInv
<1>3. TxnInv'
  BY <1>1 DEF TxnInv, BodyPcs
<1>4. NotAhead' /\ OldestIsOld'
  BY <1>1 DEF OInv, NotAhead, OldestIsOld
<1>5. ScanInv'
  BY <1>1 DEF OInv, ScanInv, Settled
<1> QED BY <1>2, <1>3, <1>4, <1>5 DEF OInv

\* fdatasync leaves what the processes see.
LEMMA SyncFileType ==
    ASSUME metas \in [0..1 -> Meta], SyncFile
    PROVE  metaDisk' \in [0..1 -> SUBSET Meta]
BY DEF SyncFile

\* The steps of a commit preserve the invariant.
LEMMA CommitStepOInv ==
    ASSUME OInv, NEW w \in Writers,
           \/ SyncData(w) \/ WriteMeta(w) \/ PublishTxn(w) \/ \E m \in Modes : Flush(w, m)
    PROVE  OInv'
<1>1. /\ metas \in [0..1 -> Meta] /\ metaDisk \in [0..1 -> SUBSET Meta]
  BY DEF OInv, TypeInv
<1>2. CASE \E m \in Modes : Flush(w, m)
  <2>1. PICK m \in Modes : Flush(w, m)
    BY <1>2
  <2>2. /\ txn \in OpenTxn /\ txn' \in OpenTxn /\ txn.pc = "body" /\ txn'.pc = "flushed"
        /\ txn'.id = txn.id
        /\ UNCHANGED <<metas, metaDisk, wmutex, owner_dead, mr_txnid, rd, me_pgoldest, mti_txnid>>
    BY <2>1, FlushEffect DEF lockfile
  <2> QED BY <1>1, <2>2, CommitOInv DEF BodyPcs, CommitPcs
<1>3. CASE SyncData(w)
  <2>1. /\ txn' = [txn EXCEPT !.pc = "synced"] /\ wmutex = w /\ txn.pc = "flushed"
        /\ UNCHANGED <<metas, wmutex, owner_dead, mr_txnid, mti_txnid, rd, me_pgoldest>>
    BY <1>3 DEF SyncData, SyncFile, lockfile, file
  <2>2. metaDisk' \in [0..1 -> SUBSET Meta]
    BY <1>1, <1>3, SyncFileType DEF SyncData, file
  <2>3. txn \in OpenTxn /\ txn' \in OpenTxn /\ txn'.pc = "synced" /\ txn'.id = txn.id
    BY <2>1, PcEffect DEF CommitPcs
  <2> QED BY <1>1, <2>1, <2>2, <2>3, CommitOInv DEF CommitPcs
<1>4. CASE WriteMeta(w)
  <2>1. /\ txn' = [txn EXCEPT !.pc = "written"] /\ wmutex = w /\ txn.pc = "synced"
        /\ metas' = [metas EXCEPT ![Toggle(txn.id)] = NewMeta]
        /\ metaDisk' = [metaDisk EXCEPT ![Toggle(txn.id)] = metaDisk[Toggle(txn.id)] \cup {NewMeta}]
        /\ UNCHANGED <<wmutex, owner_dead, mr_txnid, mti_txnid, rd, me_pgoldest>>
    BY <1>4 DEF WriteMeta, lockfile
  <2>2. txn \in OpenTxn /\ txn' \in OpenTxn /\ txn'.pc = "written" /\ txn'.id = txn.id
    BY <2>1, PcEffect DEF CommitPcs
  <2>3. NewMeta \in Meta /\ NewMeta.txnid = txn.id
    BY <2>2, NewMetaType
  <2>4. Toggle(txn.id) \in 0..1 /\ txn.id = mti_txnid + 1
    BY <2>1, <2>2, Parity DEF Toggle, OpenTxn, OInv, TxnInv, CommitPcs
  <2>5. PICK nm : nm = NewMeta
    OBVIOUS
  <2>6. PICK i : i = Toggle(txn.id)
    OBVIOUS
  <2>7. /\ metas' \in [0..1 -> Meta] /\ metaDisk' \in [0..1 -> SUBSET Meta]
        /\ metas'[Toggle(txn.id)].txnid = txn.id
        /\ \A j \in 0..1 : metas'[j].txnid = metas[j].txnid \/ metas'[j].txnid = mti_txnid + 1
    BY <1>1, <2>1, <2>3, <2>4, <2>5, <2>6
  <2> QED BY <1>1, <2>1, <2>2, <2>7, CommitOInv DEF CommitPcs
<1>5. CASE PublishTxn(w)
  <2>1. /\ txn' = [txn EXCEPT !.pc = "done"] /\ wmutex = w /\ txn.pc = "written"
        /\ mti_txnid' = txn.id
        /\ UNCHANGED <<metas, wmutex, owner_dead, mr_txnid, rd, me_pgoldest>>
    BY <1>5 DEF PublishTxn
  <2>2. txn \in OpenTxn /\ txn' \in OpenTxn /\ txn'.pc = "done" /\ txn'.id = txn.id
    BY <2>1, PcEffect DEF CommitPcs
  <2>3. Toggle(txn.id) \in 0..1
    BY <2>2, Parity DEF Toggle, OpenTxn
  <2>4. metaDisk' \in [0..1 -> SUBSET Meta]
    BY <1>1, <1>5, <2>3 DEF PublishTxn
  <2> QED BY <1>1, <2>1, <2>2, <2>4, CommitOInv DEF CommitPcs
<1> QED BY <1>2, <1>3, <1>4, <1>5

\* The steps that end a transaction preserve the invariant.
LEMMA EndStepOInv ==
    ASSUME OInv, NEW w \in Writers,
           AbortWrite(w) \/ CommitFails(w) \/ WriteMetaFails(w) \/ CommitReturns(w) \/ WriterDies(w)
    PROVE  OInv'
<1>1. /\ metas \in [0..1 -> Meta] /\ metaDisk \in [0..1 -> SUBSET Meta] /\ owner_dead \in BOOLEAN
      /\ me_pgoldest \in [Writers -> Nat]
  BY DEF OInv, TypeInv
<1>2. CASE AbortWrite(w) \/ CommitFails(w) \/ CommitReturns(w)
  <2>1. /\ txn' = Idle /\ wmutex' = NoWriter
        /\ UNCHANGED <<metas, metaDisk, mti_txnid, mr_txnid, owner_dead, rd, me_pgoldest>>
    BY <1>2 DEF AbortWrite, CommitFails, CommitReturns, Release, file
  <2> QED BY <1>1, <2>1, ReleaseOInv
<1>3. CASE WriterDies(w)
  <2>1. /\ txn' = Idle /\ wmutex' = NoWriter /\ owner_dead' = TRUE
        /\ me_pgoldest' = [me_pgoldest EXCEPT ![w] = 0]
        /\ UNCHANGED <<metas, metaDisk, mti_txnid, mr_txnid, rd>>
    BY <1>3 DEF WriterDies, Release, file
  <2>2. me_pgoldest' \in [Writers -> Nat] /\ \A v \in Writers : me_pgoldest'[v] <= me_pgoldest[v]
    BY <1>1, <2>1
  <2> QED BY <1>1, <2>1, <2>2, ReleaseOInv
<1>4. CASE WriteMetaFails(w)
  <2>1. PICK i, nm : i = Toggle(txn.id) /\ nm = NewMeta
    OBVIOUS
  <2>2. PICK rm : rm = [nm EXCEPT !.txnid = metas[i].txnid, !.last_pg = metas[i].last_pg]
    OBVIOUS
  <2>3. /\ txn' = Idle /\ wmutex' = NoWriter
        /\ \E m \in {rm, metas[i], nm} : metas' = [metas EXCEPT ![i] = m]
        /\ metaDisk' = [metaDisk EXCEPT ![i] = metaDisk[i] \cup {nm, rm}]
        /\ UNCHANGED <<mti_txnid, mr_txnid, owner_dead, rd, me_pgoldest>>
    BY <1>4, <2>1, <2>2 DEF WriteMetaFails, Release
  <2>4. txn \in OpenTxn /\ txn.id = mti_txnid + 1
    BY <1>4, OwnerHasTxn DEF WriteMetaFails, OInv, TxnInv, CommitPcs
  <2>5. i \in 0..1 /\ nm \in Meta /\ nm.txnid = mti_txnid + 1
    BY <2>1, <2>4, NewMetaType, Parity DEF Toggle, OpenTxn
  <2>6. metas[i] \in Meta /\ metas[i].txnid \in Nat /\ metas[i].last_pg \in Nat
    BY <1>1, <2>5 DEF Meta
  <2>7. rm \in Meta /\ rm.txnid = metas[i].txnid
    BY <2>2, <2>5, <2>6 DEF Meta
  <2>8. /\ metas' \in [0..1 -> Meta] /\ metaDisk' \in [0..1 -> SUBSET Meta]
        /\ \A j \in 0..1 : metas'[j].txnid = metas[j].txnid \/ metas'[j].txnid = mti_txnid + 1
    BY <1>1, <2>3, <2>5, <2>6, <2>7
  <2> QED BY <1>1, <2>3, <2>8, ReleaseOInv
<1> QED BY <1>2, <1>3, <1>4

\* So do mdb_env_sync, the repair of the mutex and a crash of the machine.
LEMMA EnvStepOInv ==
    ASSUME OInv, EnvSync \/ MutexFailed \/ Crash
    PROVE  OInv'
<1> USE ConstantsAssumption
<1>1. /\ metas \in [0..1 -> Meta] /\ metaDisk \in [0..1 -> SUBSET Meta] /\ mti_txnid \in Nat
      /\ rd \in [Readers -> ReaderRecord] /\ mr_txnid \in [Readers -> Nat]
      /\ me_pgoldest \in [Writers -> Nat]
  BY DEF OInv, TypeInv
<1>2. IdleReader \in ReaderRecord /\ IdleReader.pc = "idle" /\ NoTxn \in Nat
  BY DEF IdleReader, FirstMeta, ReaderRecord, Roots, NoTxn
<1>3. CASE EnvSync
  <2>1. /\ UNCHANGED <<metas, wmutex, owner_dead, mti_txnid, mr_txnid, rd, txn, me_pgoldest>>
        /\ metaDisk' \in [0..1 -> SUBSET Meta]
    BY <1>1, <1>3, SyncFileType DEF EnvSync, SyncFile, lockfile
  <2>2. TypeInv'
    BY <2>1 DEF OInv, TypeInv
  <2>3. TxnInv' /\ NotAhead' /\ OldestIsOld'
    BY <2>1 DEF OInv, TxnInv, NotAhead, OldestIsOld
  <2>4. ScanInv'
    BY <2>1 DEF OInv, ScanInv, Settled
  <2> QED BY <2>2, <2>3, <2>4 DEF OInv
<1>4. CASE MutexFailed
  <2>1. /\ owner_dead /\ owner_dead' = FALSE /\ mti_txnid' = Newest.txnid
        /\ mr_txnid' = [r \in Readers |-> IF rd[r].pc = "dead" THEN NoTxn ELSE mr_txnid[r]]
        /\ rd' = [r \in Readers |-> IF rd[r].pc = "dead" THEN IdleReader ELSE rd[r]]
        /\ UNCHANGED <<metas, metaDisk, wmutex, txn, me_pgoldest>>
    BY <1>4 DEF MutexFailed, RecoveredId, file
  <2>2. wmutex = NoWriter /\ txn.pc = "none"
    BY <2>1 DEF OInv, TxnInv
  <2>3. PICK n : n = Newest.txnid
    OBVIOUS
  <2>4. n \in Nat /\ mti_txnid <= n /\ \E i \in 0..1 : n = metas[i].txnid
    <3>1. PICK i \in 0..1 : mti_txnid <= metas[i].txnid
      BY DEF OInv, NotAhead
    <3>2. Newest \in Meta /\ (Newest = metas[0] \/ Newest = metas[1]) /\ metas[i].txnid <= Newest.txnid
      BY <1>1, <3>1, NewestIsOne
    <3>3. Newest.txnid \in Nat /\ metas[i].txnid \in Nat
      BY <1>1, <3>2 DEF Meta
    <3> QED BY <1>1, <2>3, <3>1, <3>2, <3>3
  <2>5. rd' \in [Readers -> ReaderRecord] /\ mr_txnid' \in [Readers -> Nat]
    BY <1>1, <1>2, <2>1
  <2>6. \A r \in Readers : Settled(r)' => Settled(r) /\ mr_txnid'[r] = mr_txnid[r]
    BY <1>2, <2>1 DEF Settled
  <2>7. TypeInv'
    BY <2>1, <2>3, <2>4, <2>5 DEF OInv, TypeInv
  <2>8. TxnInv'
    BY <2>1, <2>2 DEF TxnInv, BodyPcs, CommitPcs
  <2>9. NotAhead'
    BY <1>1, <2>1, <2>3, <2>4 DEF NotAhead
  <2>10. ScanInv'
    <3>1. ASSUME NEW w \in Writers PROVE me_pgoldest[w] <= n
      <4>1. me_pgoldest[w] <= mti_txnid
        BY DEF OInv, ScanInv
      <4> QED BY <1>1, <2>4, <4>1
    <3>2. ASSUME NEW r \in Readers, Settled(r)' PROVE mr_txnid'[r] <= n
      <4>1. mr_txnid'[r] <= mti_txnid /\ mr_txnid'[r] \in Nat
        BY <1>1, <2>6, <3>2 DEF OInv, ScanInv
      <4> QED BY <1>1, <2>4, <4>1
    <3> QED BY <2>1, <2>2, <2>3, <3>1, <3>2 DEF ScanInv
  <2>11. OldestIsOld'
    BY <2>1, <2>6 DEF OInv, OldestIsOld, Settled
  <2> QED BY <2>7, <2>8, <2>9, <2>10, <2>11 DEF OInv
<1>5. CASE Crash
  <2>1. PICK m0 \in metaDisk[0], m1 \in metaDisk[1] :
            /\ metas' = [i \in 0..1 |-> IF i = 0 THEN m0 ELSE m1]
            /\ metaDisk' = [i \in 0..1 |-> IF i = 0 THEN {m0} ELSE {m1}]
            /\ mti_txnid' = Newer(m0, m1).txnid
    BY <1>5 DEF Crash
  <2>2. /\ mr_txnid' = [r \in Readers |-> NoTxn] /\ rd' = [r \in Readers |-> IdleReader]
        /\ txn' = Idle /\ wmutex' = NoWriter /\ owner_dead' = FALSE
        /\ me_pgoldest' = [w \in Writers |-> 0]
    BY <1>5 DEF Crash, Release
  <2>3. m0 \in Meta /\ m1 \in Meta
    BY <1>1
  <2>4. m0.txnid \in Nat /\ m1.txnid \in Nat
    BY <2>3 DEF Meta
  <2>5. metas'[0] = m0 /\ metas'[1] = m1 /\ mti_txnid' \in {m0.txnid, m1.txnid}
    BY <2>1 DEF Newer
  <2>6. mti_txnid' \in Nat
    BY <2>4, <2>5
  <2>7. TypeInv'
    BY <1>2, <2>1, <2>2, <2>3, <2>6 DEF TypeInv
  <2>8. Idle.pc = "none"
    BY DEF Idle
  <2>9. TxnInv'
    BY <2>2, <2>8 DEF TxnInv, BodyPcs, CommitPcs
  <2>10. NotAhead'
    BY <2>4, <2>5 DEF NotAhead
  <2>11. \A r \in Readers : rd'[r].pc = "idle"
    BY <1>2, <2>2
  <2>12. ScanInv'
    BY <2>2, <2>6, <2>8, <2>11 DEF ScanInv, Settled
  <2>13. OldestIsOld'
    BY <2>11 DEF OldestIsOld
  <2> QED BY <2>7, <2>9, <2>10, <2>12, <2>13 DEF OInv
<1> QED BY <1>3, <1>4, <1>5

\* The invariant holds at first.
LEMMA InitOInv ==
    ASSUME Init
    PROVE  OInv
<1> USE ConstantsAssumption
<1>1. FirstMeta \in Meta /\ FirstMeta.txnid = 0
  BY DEF FirstMeta, Meta, Roots, FreeRecords
<1>2. IdleReader \in ReaderRecord /\ IdleReader.pc = "idle" /\ NoTxn \in Nat /\ Idle.pc = "none"
  BY DEF IdleReader, FirstMeta, ReaderRecord, Roots, NoTxn, Idle
<1>3. TypeInv
  BY <1>1, <1>2 DEF Init, TypeInv
<1>4. TxnInv
  BY <1>2 DEF Init, TxnInv, BodyPcs, CommitPcs
<1>5. NotAhead
  BY <1>1 DEF Init, NotAhead
<1>6. \A r \in Readers : rd[r].pc = "idle"
  BY <1>2 DEF Init
<1>7. ScanInv
  BY <1>2, <1>6 DEF Init, ScanInv, Settled
<1>8. OldestIsOld
  BY <1>6 DEF OldestIsOld
<1> QED BY <1>3, <1>4, <1>5, <1>7, <1>8 DEF OInv

\* The invariant, for readers and writers that die, failed commits and crashes
\* of the machine.
THEOREM OldestInvariance == Spec => []OInv
<1>1. Init => OInv
  BY InitOInv
<1>2. OInv /\ [Next]_vars => OInv'
  <2> SUFFICES ASSUME OInv, [Next]_vars PROVE OInv'
    OBVIOUS
  <2>1. CASE UNCHANGED vars
    <3>1. UNCHANGED <<metas, metaDisk, wmutex, owner_dead, mti_txnid, mr_txnid, rd, txn, me_pgoldest>>
      BY <2>1 DEF vars, file, lockfile
    <3> QED BY <3>1 DEF OInv, TypeInv, TxnInv, NotAhead, ScanInv, Settled, OldestIsOld
  <2>2. CASE \E r \in Readers : ReaderNext(r)
    BY <2>2, ReaderOInv
  <2>3. CASE \E w \in Writers : WriterNext(w)
    BY <2>3, AllocOInv, BeginOInv, CommitStepOInv, EndStepOInv DEF WriterNext
  <2>4. CASE EnvSync \/ MutexFailed \/ Crash
    BY <2>4, EnvStepOInv
  <2> QED BY <2>1, <2>2, <2>3, <2>4 DEF Next
<1> QED BY <1>1, <1>2, PTL DEF Spec

\* No process's idea of the oldest reader (me_pgoldest, which decides what
\* mdb_page_alloc may take from the freeDB) is ahead of a reader whose slot
\* was settled, whoever dies and wherever the machine stops.
THEOREM OldestNeverAhead == Spec => []OldestIsOld
<1>1. OInv => OldestIsOld
  BY DEF OInv
<1> QED BY <1>1, OldestInvariance, PTL

-----------------------------------------------------------------------------
(* The states that the meta pages and the readers see are whole, as long as   *)
(* no write of a meta page fails.                                             *)

\* The contents of a page, and the states of the database.
Contents == {Blank} \cup (Keys \X Nat \X Nat)
Views == [Keys -> Contents]

\* The freeDB that the transaction will leave.
Saved == IF txn.pc \in BodyPcs THEN SavedFreelist ELSE txn.freedb

\* The pages of the tree and those in the freeDB are all the pages up to the
\* last one, each in one place, and no record is newer than the transaction.
Accounted(root, freedb, last, id) ==
    /\ last >= 1 /\ (last >= 2 => last < MaxPg)
    /\ \A k \in Keys : root[k] # NoPage => root[k] \in 2..last
    /\ \A j, k \in Keys : root[j] # NoPage /\ root[j] = root[k] => j = k
    /\ \A e \in freedb : e[1] \in 1..id /\ e[2] \in 2..last
    /\ \A e, f \in freedb : e[2] = f[2] => e = f
    /\ \A e \in freedb : \A k \in Keys : root[k] # e[2]
    /\ \A p \in 2..last : (\E k \in Keys : root[k] = p) \/ (\E e \in freedb : e[2] = p)

\* So it is for the newest meta page, and for what an open transaction will
\* leave at every step of it.
AccountInv ==
    /\ Accounted(Newest.root, Newest.freedb, Newest.last_pg, Newest.txnid)
    /\ txn.pc # "none" => Accounted(txn.root, Saved, txn.next - 1, txn.id)

\* The pages of a state with id b that are free were freed by a later
\* transaction: what makes it safe to reuse the pages freed by older ones.
Guarded(root, b, freedb, last) ==
    \A k \in Keys : root[k] # NoPage =>
        /\ root[k] \in 2..last
        /\ \A e \in freedb : e[2] = root[k] => e[1] > b

\* The states of both meta pages and of the active readers, against what is
\* committed and against what the open transaction will leave.
GuardInv ==
    /\ \A i \in 0..1 : Guarded(metas[i].root, metas[i].txnid, Newest.freedb, Newest.last_pg)
    /\ \A r \in Readers : rd[r].pc = "active" =>
           Guarded(rd[r].root, mr_txnid[r], Newest.freedb, Newest.last_pg)
    /\ txn.pc # "none" =>
       /\ \A i \in 0..1 : Guarded(metas[i].root, metas[i].txnid, Saved, txn.next - 1)
       /\ \A r \in Readers : rd[r].pc = "active" =>
              Guarded(rd[r].root, mr_txnid[r], Saved, txn.next - 1)

\* No page of one state is a page that was placed in the other for these keys.
Disjoint(root, other, keys) == \A j \in Keys : \A k \in keys : other[k] # NoPage /\ root[j] # other[k]

\* The pages that the transaction is going to write belong to it alone.
FreshInv == txn.pc \in BodyPcs =>
    /\ \A k \in txn.dirty : txn.root[k] # NoPage
    /\ \A i \in 0..1 : Disjoint(metas[i].root, txn.root, txn.dirty)
    /\ \A r \in Readers : rd[r].pc = "active" => Disjoint(rd[r].root, txn.root, txn.dirty)

\* The pages the transaction holds for reuse were freed before the older of the
\* meta pages, and before the snapshot of every reader that is settled.
HeadInv == txn.pc \in BodyPcs =>
    /\ txn.pc \in {"alloc", "scan"} => txn.want \notin txn.dirty
    /\ txn.pglast <= mti_txnid
    /\ txn.head # {} => /\ txn.pglast \in 1..(mti_txnid - 1)
                        /\ \A r \in Readers : Settled(r) => txn.pglast < mr_txnid[r]

\* The meta page of the id in the lock file, and the other one: of the id
\* before, or of the next one when its writer has not published it or has died.
MetaInv ==
    LET o == metas[(mti_txnid + 1) % 2].txnid
    IN  /\ metas[mti_txnid % 2].txnid = mti_txnid
        /\ \/ o = mti_txnid + 1 /\ (txn.pc = "written" \/ owner_dead)
           \/ o + 1 = mti_txnid
           \/ o = 0 /\ mti_txnid = 0

\* The ids of the readers, and the meta page one is about to copy, which may
\* have been overwritten since by a newer one.
ReaderInv == \A r \in Readers :
    /\ rd[r].pc \in {"published", "checked", "active"} => rd[r].id = mr_txnid[r]
    /\ rd[r].pc = "checked" => mr_txnid[r] <= metas[mr_txnid[r] % 2].txnid
    /\ rd[r].pc = "dead" => rd[r].id = 0

\* The meta pages whose state is whole: the newest one, that of the id in the
\* lock file and those that readers are about to copy.  The other one is too,
\* unless the machine stopped while its successor was not known to be on disk.
Needed(i) == \/ ~MachineCanCrash \/ metas[i] = Newest \/ i = mti_txnid % 2
             \/ \E r \in Readers : rd[r].pc = "checked" /\ i = mr_txnid[r] % 2

\* They show the state of the log that has their id.
LogInv ==
    /\ page \in [Pages -> Contents] /\ log \in Seq(Views) /\ faults \in Nat
    /\ Len(log) = Newest.txnid + 1
    /\ \A i \in 0..1 : Needed(i) => View(metas[i].root) = log[metas[i].txnid + 1]
    /\ returned \in Nat /\ returned <= mti_txnid + 1
    /\ durable \in Nat /\ durable <= Len(log)

\* The inductive invariant.
SInv == OInv /\ AccountInv /\ GuardInv /\ FreshInv /\ HeadInv /\ MetaInv /\ ReaderInv /\ LogInv

\* The newest meta page is that of the id in the lock file, or the next one
\* when a commit has written it and not published it.
LEMMA NewestIs ==
    ASSUME OInv, MetaInv
    PROVE  /\ mti_txnid % 2 \in 0..1 /\ (mti_txnid + 1) % 2 \in 0..1
           /\ \A i \in 0..1 : i = mti_txnid % 2 \/ i = (mti_txnid + 1) % 2
           /\ \A i \in 0..1 : metas[i].txnid \in Nat
           /\ Newest \in Meta /\ Newest.txnid \in Nat
           /\ metas[(mti_txnid + 1) % 2].txnid # mti_txnid + 1 =>
                  /\ Newest = metas[mti_txnid % 2] /\ Newest.txnid = mti_txnid
                  /\ \A i \in 0..1 : mti_txnid <= metas[i].txnid + 1 /\ metas[i].txnid <= mti_txnid
           /\ metas[(mti_txnid + 1) % 2].txnid = mti_txnid + 1 =>
                  /\ Newest = metas[(mti_txnid + 1) % 2] /\ Newest.txnid = mti_txnid + 1
                  /\ txn.pc = "written" \/ owner_dead
<1>1. mti_txnid \in Nat /\ metas \in [0..1 -> Meta]
  BY DEF OInv, TypeInv
<1>2. PICK a, b : a = mti_txnid % 2 /\ b = (mti_txnid + 1) % 2
  OBVIOUS
<1>3. a \in 0..1 /\ b = 1 - a /\ a \in {0, 1} /\ b \in {0, 1} /\ a # b
  BY <1>1, <1>2, Parity
<1>4. metas[0] \in Meta /\ metas[1] \in Meta
  BY <1>1
<1>5. metas[0].txnid \in Nat /\ metas[1].txnid \in Nat
  BY <1>4 DEF Meta
<1>6. Newest = IF metas[0].txnid < metas[1].txnid THEN metas[1] ELSE metas[0]
  BY DEF Newest, Newer
<1>7. /\ metas[a].txnid = mti_txnid
      /\ \/ metas[b].txnid = mti_txnid + 1 /\ (txn.pc = "written" \/ owner_dead)
         \/ metas[b].txnid + 1 = mti_txnid
         \/ metas[b].txnid = 0 /\ mti_txnid = 0
  BY <1>2 DEF MetaInv
<1>8. mti_txnid = 0 => a = 0
  BY <1>2
<1>9. Newest \in Meta /\ Newest.txnid \in Nat
  BY <1>4, <1>5, <1>6
<1>10. /\ metas[b].txnid # mti_txnid + 1 =>
              /\ Newest = metas[a] /\ Newest.txnid = mti_txnid
              /\ \A i \in 0..1 : mti_txnid <= metas[i].txnid + 1 /\ metas[i].txnid <= mti_txnid
       /\ metas[b].txnid = mti_txnid + 1 =>
              /\ Newest = metas[b] /\ Newest.txnid = mti_txnid + 1
              /\ txn.pc = "written" \/ owner_dead
  <2>1. CASE a = 0
    <3>1. b = 1
      BY <2>1, <1>3
    <3> QED BY <1>1, <1>5, <1>6, <1>7, <2>1, <3>1
  <2>2. CASE a = 1
    <3>1. b = 0 /\ mti_txnid # 0
      BY <2>2, <1>3, <1>8
    <3> QED BY <1>1, <1>5, <1>6, <1>7, <2>2, <3>1
  <2> QED BY <2>1, <2>2, <1>3
<1> QED BY <1>2, <1>3, <1>5, <1>9, <1>10

\* While a transaction is being built, flushed or synced, both meta pages are
\* older than it and at most one transaction apart.
LEMMA NewestWhileOpen ==
    ASSUME OInv, MetaInv, txn.pc # "written", ~owner_dead
    PROVE  /\ Newest = metas[mti_txnid % 2] /\ Newest.txnid = mti_txnid
           /\ \A i \in 0..1 : /\ metas[i].txnid \in Nat
                              /\ mti_txnid <= metas[i].txnid + 1 /\ metas[i].txnid <= mti_txnid
<1>1. metas[(mti_txnid + 1) % 2].txnid # mti_txnid + 1
  BY NewestIs
<1> QED BY <1>1, NewestIs

\* An owner of the mutex is alive.
LEMMA OwnerAlive ==
    ASSUME OInv, txn.pc # "none"
    PROVE  ~owner_dead /\ txn \in OpenTxn
BY DEF OInv, TxnInv, TypeInv, Idle

\* Page p is placed for key k: what was at k goes to the freeDB, and p leaves it.
Placed(root, freedb, id, k, p, freedb2) ==
    \A e : e \in freedb2 <=> \/ e \in freedb /\ e[2] # p
                             \/ root[k] # NoPage /\ e = <<id, root[k]>>

\* Placing a page that was free, or the next one of the file, keeps the account.
LEMMA AccountPlace ==
    ASSUME NEW root \in Roots, NEW fdb \in FreeRecords, NEW fdb2 \in FreeRecords, NEW last \in Nat,
           NEW id \in Nat, id >= 1, NEW k \in Keys, NEW p \in Nat, NEW last2 \in Nat,
           Accounted(root, fdb, last, id), Placed(root, fdb, id, k, p, fdb2),
           \/ last2 = last /\ \E e \in fdb : e[2] = p
           \/ last2 = last + 1 /\ p = last2 /\ last2 < MaxPg
    PROVE  Accounted([root EXCEPT ![k] = p], fdb2, last2, id)
<1> USE ConstantsAssumption
<1> DEFINE new == [root EXCEPT ![k] = p]
<1>1. new[k] = p /\ (\A j \in Keys : j # k => new[j] = root[j]) /\ p # NoPage
  BY DEF Roots
<1> HIDE DEF new
<1>2. /\ last >= 1 /\ (last >= 2 => last < MaxPg)
      /\ \A j \in Keys : root[j] # NoPage => root[j] \in 2..last
      /\ \A i, j \in Keys : root[i] # NoPage /\ root[i] = root[j] => i = j
      /\ \A e \in fdb : e[1] \in 1..id /\ e[2] \in 2..last
      /\ \A e, f \in fdb : e[2] = f[2] => e = f
      /\ \A e \in fdb : \A j \in Keys : root[j] # e[2]
      /\ \A q \in 2..last : (\E j \in Keys : root[j] = q) \/ (\E e \in fdb : e[2] = q)
  BY DEF Accounted
<1>3. \A e : e \in fdb2 <=> \/ e \in fdb /\ e[2] # p
                            \/ root[k] # NoPage /\ e = <<id, root[k]>>
  BY DEF Placed
<1>4. p \in 2..last2 /\ (\A j \in Keys : root[j] # p) /\ last <= last2
  BY <1>2 DEF Roots
<1>5. last2 >= 1 /\ (last2 >= 2 => last2 < MaxPg)
  BY <1>2
<1>6. \A q \in 2..last : q \in 2..last2
  BY <1>4
<1>7. \A j \in Keys : new[j] # NoPage => new[j] \in 2..last2
  BY <1>1, <1>2, <1>4, <1>6
<1>8. \A i, j \in Keys : new[i] # NoPage /\ new[i] = new[j] => i = j
  BY <1>1, <1>2, <1>4
<1>9. \A e \in fdb2 : e[1] \in 1..id /\ e[2] \in 2..last2
  <2> SUFFICES ASSUME NEW e \in fdb2 PROVE e[1] \in 1..id /\ e[2] \in 2..last2
    OBVIOUS
  <2>1. CASE e \in fdb
    BY <2>1, <1>2, <1>6
  <2>2. CASE root[k] # NoPage /\ e = <<id, root[k]>>
    <3>1. e[1] = id /\ e[2] = root[k]
      BY <2>2
    <3> QED BY <3>1, <2>2, <1>2, <1>6
  <2> QED BY <2>1, <2>2, <1>3
<1>10. \A e, f \in fdb2 : e[2] = f[2] => e = f
  <2> SUFFICES ASSUME NEW e \in fdb2, NEW f \in fdb2, e[2] = f[2] PROVE e = f
    OBVIOUS
  <2>1. \A g : g = <<id, root[k]>> => g[2] = root[k]
    OBVIOUS
  <2>2. CASE e \in fdb /\ f \in fdb
    BY <2>2, <1>2
  <2>3. CASE e \in fdb /\ f = <<id, root[k]>>
    BY <2>1, <2>3, <1>2
  <2>4. CASE f \in fdb /\ e = <<id, root[k]>>
    BY <2>1, <2>4, <1>2
  <2> QED BY <2>2, <2>3, <2>4, <1>3
<1>11. \A e \in fdb2 : \A j \in Keys : new[j] # e[2]
  <2> SUFFICES ASSUME NEW e \in fdb2, NEW j \in Keys PROVE new[j] # e[2]
    OBVIOUS
  <2>1. CASE e \in fdb /\ e[2] # p
    BY <2>1, <1>1, <1>2
  <2>2. CASE root[k] # NoPage /\ e = <<id, root[k]>>
    <3>1. e[2] = root[k]
      BY <2>2
    <3> QED BY <3>1, <2>2, <1>1, <1>2, <1>4
  <2> QED BY <2>1, <2>2, <1>3
<1>12. \A q \in 2..last2 : (\E j \in Keys : new[j] = q) \/ (\E e \in fdb2 : e[2] = q)
  <2> SUFFICES ASSUME NEW q \in 2..last2 PROVE (\E j \in Keys : new[j] = q) \/ (\E e \in fdb2 : e[2] = q)
    OBVIOUS
  <2>1. CASE q = p
    BY <2>1, <1>1
  <2>2. CASE q # p
    <3>1. q \in 2..last
      BY <2>2
    <3>2. CASE \E j \in Keys : root[j] = q
      <4>1. PICK j \in Keys : root[j] = q
        BY <3>2
      <4>2. CASE j = k
        <5>1. <<id, q>> \in fdb2
          BY <1>3, <4>1, <4>2
        <5> QED BY <5>1
      <4> QED BY <4>1, <4>2, <1>1
    <3>3. CASE \E e \in fdb : e[2] = q
      BY <3>3, <2>2, <1>3
    <3> QED BY <3>1, <3>2, <3>3, <1>2
  <2> QED BY <2>1, <2>2
<1> QED BY <1>5, <1>7, <1>8, <1>9, <1>10, <1>11, <1>12 DEF Accounted, new

\* Placing a page leaves the pages of an older state protected.
LEMMA GuardPlace ==
    ASSUME NEW root \in Roots, NEW fdb, NEW fdb2, NEW last \in Nat,
           NEW id \in Nat, NEW k \in Keys, NEW p \in Nat, NEW last2 \in Nat, last <= last2,
           Placed(root, fdb, id, k, p, fdb2),
           NEW other, NEW b \in Nat, b < id, Guarded(other, b, fdb, last)
    PROVE  Guarded(other, b, fdb2, last2)
<1> SUFFICES ASSUME NEW j \in Keys, other[j] # NoPage
             PROVE  /\ other[j] \in 2..last2
                    /\ \A e \in fdb2 : e[2] = other[j] => e[1] > b
  BY DEF Guarded
<1>1. other[j] \in 2..last /\ \A e \in fdb : e[2] = other[j] => e[1] > b
  BY DEF Guarded
<1>2. ASSUME NEW e \in fdb2, e[2] = other[j] PROVE e[1] > b
  <2>1. CASE e \in fdb
    BY <1>1, <1>2, <2>1
  <2>2. CASE e = <<id, root[k]>>
    BY <2>2
  <2> QED BY <2>1, <2>2 DEF Placed
<1> QED BY <1>1, <1>2

\* A smaller bound asks less.
LEMMA GuardWeaken ==
    ASSUME NEW root, NEW b \in Nat, NEW c \in Nat, c <= b, NEW fdb \in FreeRecords, NEW last,
           Guarded(root, b, fdb, last)
    PROVE  Guarded(root, c, fdb, last)
<1>1. \A e \in fdb : e[1] \in Nat
  BY DEF FreeRecords
<1> QED BY <1>1 DEF Guarded

\* What is saved is a set of records.
LEMMA SavedType ==
    ASSUME txn \in OpenTxn
    PROVE  Saved \in FreeRecords
<1>1. /\ txn.freedb \in SUBSET (Nat \X Nat) /\ txn.head \in SUBSET Nat /\ txn.free \in SUBSET Nat
      /\ txn.pglast \in Nat /\ txn.id \in Nat
  BY DEF OpenTxn, FreeRecords
<1> QED BY <1>1 DEF Saved, SavedFreelist, FreeRecords

\* What the transaction will leave does not depend on how much of the freeDB it
\* has read so far.
LEMMA SavedFetch ==
    ASSUME OInv, NEW w \in Writers, AllocFetch(w)
    PROVE  Saved' = Saved
<1>1. /\ txn \in OpenTxn /\ txn' \in OpenTxn /\ txn.pc = "alloc" /\ txn'.pc = "alloc"
      /\ txn.head = {} /\ txn'.id = txn.id /\ txn'.free = txn.free /\ txn'.freedb = txn.freedb
      /\ txn'.head = {e[2] : e \in {e \in txn.freedb : e[1] = txn'.pglast}}
      /\ txn'.pglast > txn.pglast
      /\ \A e \in txn.freedb : e[1] > txn.pglast => e[1] >= txn'.pglast
  BY FetchEffect
<1>2. /\ Saved = {e \in txn.freedb : e[1] > txn.pglast} \cup {<<txn.pglast, p>> : p \in txn.head}
                 \cup {<<txn.id, p>> : p \in txn.free}
      /\ Saved' = {e \in txn'.freedb : e[1] > txn'.pglast} \cup {<<txn'.pglast, p>> : p \in txn'.head}
                  \cup {<<txn'.id, p>> : p \in txn'.free}
  BY <1>1 DEF Saved, SavedFreelist, BodyPcs
<1>3. PICK F, a, b : F = txn.freedb /\ a = txn.pglast /\ b = txn'.pglast
  OBVIOUS
<1>4. F \in SUBSET (Nat \X Nat) /\ a \in Nat /\ b \in Nat /\ a < b
  BY <1>1, <1>3 DEF OpenTxn, FreeRecords
<1>5. {e \in F : e[1] > a} = {e \in F : e[1] > b} \cup {<<b, p>> : p \in {e[2] : e \in {e \in F : e[1] = b}}}
  <2>1. ASSUME NEW e \in F, e[1] > a
        PROVE  e[1] > b \/ e \in {<<b, p>> : p \in {f[2] : f \in {f \in F : f[1] = b}}}
    <3>1. e[1] \in Nat /\ e = <<e[1], e[2]>> /\ e[1] >= b
      BY <1>1, <1>3, <1>4, <2>1
    <3>2. CASE e[1] = b
      <4>1. e[2] \in {f[2] : f \in {f \in F : f[1] = b}}
        BY <3>2
      <4> QED BY <3>1, <3>2, <4>1
    <3> QED BY <1>4, <3>1, <3>2
  <2>2. ASSUME NEW e \in F, e[1] > b PROVE e[1] > a
    BY <1>4, <2>2
  <2>3. ASSUME NEW x \in {<<b, p>> : p \in {e[2] : e \in {e \in F : e[1] = b}}}
        PROVE  x \in F /\ x[1] > a
    <3>1. PICK e \in F : e[1] = b /\ x = <<b, e[2]>>
      BY <2>3
    <3>2. x = e
      BY <1>4, <3>1
    <3> QED BY <1>4, <3>1, <3>2
  <2> QED BY <2>1, <2>2, <2>3
<1> QED BY <1>1, <1>2, <1>3, <1>5

\* A transaction that changes none of its lists saves the same.
LEMMA SavedSame ==
    ASSUME txn.pc \in BodyPcs <=> txn'.pc \in BodyPcs, txn'.freedb = txn.freedb,
           txn.pc \in BodyPcs => /\ txn'.head = txn.head /\ txn'.free = txn.free
                                 /\ txn'.pglast = txn.pglast /\ txn'.id = txn.id
    PROVE  Saved' = Saved
BY DEF Saved, SavedFreelist

\* mdb_freelist_save writes what the transaction was to leave.
LEMMA SavedFlush ==
    ASSUME txn.pc \in BodyPcs, txn'.pc = "flushed", txn'.freedb = SavedFreelist
    PROVE  Saved' = Saved
BY DEF Saved, BodyPcs

\* A new transaction saves what it found, as no record has the id 0.
LEMMA SavedBegin ==
    ASSUME txn' \in OpenTxn, txn'.pc = "body", txn'.free = {}, txn'.head = {}, txn'.pglast = 0,
           \A e \in txn'.freedb : e[1] \in Nat /\ e[1] >= 1
    PROVE  Saved' = txn'.freedb
BY DEF Saved, SavedFreelist, BodyPcs

\* A page taken from the list leaves what is to be saved.
LEMMA SavedReuse ==
    ASSUME txn \in OpenTxn, txn' \in OpenTxn, txn.pc \in BodyPcs, txn'.pc \in BodyPcs,
           NEW k \in Keys, NEW p \in txn.head, txn'.freedb = txn.freedb,
           txn'.head = txn.head \ {p}, txn'.pglast = txn.pglast, txn'.id = txn.id,
           txn'.free = txn.free \cup ({txn.root[k]} \ {NoPage}),
           \A e, f \in Saved : e[2] = f[2] => e = f, txn.pglast # txn.id,
           p # txn.root[k]
    PROVE  Placed(txn.root, Saved, txn.id, k, p, Saved') /\ <<txn.pglast, p>> \in Saved
<1>1. PICK F, H, G, a, i, q : /\ F = txn.freedb /\ H = txn.head /\ G = txn.free /\ a = txn.pglast /\ i = txn.id
                              /\ q = txn.root[k]
  OBVIOUS
<1>2. /\ F \in SUBSET (Nat \X Nat) /\ H \in SUBSET Nat /\ G \in SUBSET Nat /\ a \in Nat /\ i \in Nat
      /\ p \in H /\ p # q /\ a # i
  BY <1>1 DEF OpenTxn, FreeRecords
<1>3. /\ Saved = {e \in F : e[1] > a} \cup {<<a, x>> : x \in H} \cup {<<i, x>> : x \in G}
      /\ Saved' = {e \in F : e[1] > a} \cup {<<a, x>> : x \in H \ {p}} \cup {<<i, x>> : x \in G \cup ({q} \ {NoPage})}
  BY <1>1 DEF Saved, SavedFreelist
<1>4. <<a, p>> \in Saved /\ \A e \in Saved : e[2] = p => e = <<a, p>>
  <2>1. <<a, p>> \in Saved
    BY <1>2, <1>3
  <2> QED BY <2>1
<1>5. ASSUME NEW e, e \in Saved' PROVE (e \in Saved /\ e[2] # p) \/ (q # NoPage /\ e = <<i, q>>)
  <2>1. CASE e \in F /\ e[1] > a
    <3>1. e # <<a, p>>
      BY <1>2, <2>1
    <3> QED BY <1>3, <1>4, <2>1, <3>1
  <2>2. CASE e \in {<<a, x>> : x \in H \ {p}}
    BY <1>3, <2>2
  <2>3. CASE e \in {<<i, x>> : x \in G}
    <3>1. e \in Saved /\ e # <<a, p>>
      BY <1>2, <1>3, <2>3
    <3> QED BY <1>4, <3>1
  <2>4. CASE q # NoPage /\ e = <<i, q>>
    BY <2>4
  <2> QED BY <1>3, <1>5, <2>1, <2>2, <2>3, <2>4
<1>6. ASSUME NEW e, (e \in Saved /\ e[2] # p) \/ (q # NoPage /\ e = <<i, q>>) PROVE e \in Saved'
  <2>1. CASE e \in Saved /\ e[2] # p
    <3>1. CASE e \in {<<a, x>> : x \in H}
      <4>1. PICK x \in H : e = <<a, x>>
        BY <3>1
      <4>2. x # p
        BY <2>1, <4>1
      <4> QED BY <1>3, <4>1, <4>2
    <3> QED BY <1>3, <2>1, <3>1
  <2>2. CASE q # NoPage /\ e = <<i, q>>
    BY <1>3, <2>2
  <2> QED BY <1>6, <2>1, <2>2
<1> QED BY <1>1, <1>4, <1>5, <1>6 DEF Placed

\* A page past the end of the file was not in it.
LEMMA SavedNew ==
    ASSUME txn \in OpenTxn, txn.pc \in BodyPcs, txn'.pc \in BodyPcs,
           NEW k \in Keys, NEW p, txn'.freedb = txn.freedb,
           txn'.head = txn.head, txn'.pglast = txn.pglast, txn'.id = txn.id,
           txn'.free = txn.free \cup ({txn.root[k]} \ {NoPage}),
           \A e \in Saved : e[2] # p
    PROVE  Placed(txn.root, Saved, txn.id, k, p, Saved')
<1>1. PICK F, H, G, a, i, q : /\ F = txn.freedb /\ H = txn.head /\ G = txn.free /\ a = txn.pglast /\ i = txn.id
                              /\ q = txn.root[k]
  OBVIOUS
<1>2. /\ Saved = {e \in F : e[1] > a} \cup {<<a, x>> : x \in H} \cup {<<i, x>> : x \in G}
      /\ Saved' = {e \in F : e[1] > a} \cup {<<a, x>> : x \in H} \cup {<<i, x>> : x \in G \cup ({q} \ {NoPage})}
  BY <1>1 DEF Saved, SavedFreelist
<1>3. \A e : e \in Saved' <=> e \in Saved \/ (q # NoPage /\ e = <<i, q>>)
  BY <1>2
<1> QED BY <1>1, <1>3 DEF Placed

\* The account and the protection of pages stand as long as the meta pages do,
\* and the transaction, if it is open, would leave the same.
LEMMA KeepAccounts ==
    ASSUME AccountInv, GuardInv, metas' = metas,
           \A r \in Readers : rd'[r].pc = "active" =>
               /\ rd[r].pc = "active" /\ rd'[r].root = rd[r].root /\ mr_txnid'[r] = mr_txnid[r],
           txn'.pc # "none" => /\ txn.pc # "none" /\ txn'.root = txn.root /\ txn'.next = txn.next
                               /\ txn'.id = txn.id /\ Saved' = Saved
    PROVE  AccountInv' /\ GuardInv'
<1>1. Newest' = Newest
  BY DEF Newest
<1>2. AccountInv'
  BY <1>1 DEF AccountInv
<1>3. GuardInv'
  BY <1>1 DEF GuardInv
<1> QED BY <1>2, <1>3

\* A step of a reader preserves the invariant: the snapshot it takes is that of
\* a meta page at least as new as its id, so what protects the meta page
\* protects the reader.
LEMMA ReaderSInv ==
    ASSUME SInv, NEW r \in Readers, ReaderNext(r)
    PROVE  SInv'
<1>1. /\ OInv /\ AccountInv /\ GuardInv /\ FreshInv /\ HeadInv /\ MetaInv /\ ReaderInv /\ LogInv
  BY DEF SInv
<1>2. OInv'
  BY <1>1, ReaderOInv
<1>3. /\ UNCHANGED <<page, metas, mti_txnid, txn, owner_dead, log, returned, durable>>
      /\ \A q \in Readers : q # r => rd'[q] = rd[q] /\ mr_txnid'[q] = mr_txnid[q]
  BY <1>1, ReaderEffect DEF file, history
<1>4. /\ rd'[r].pc \in {"checked", "active"} =>
             \/ rd[r].pc \in {"checked", "active"} /\ mr_txnid'[r] = mr_txnid[r]
             \/ mr_txnid'[r] = mti_txnid
      /\ rd'[r].pc = "active" =>
             /\ rd[r].pc = "checked" /\ mr_txnid'[r] = mr_txnid[r]
             /\ rd'[r].root = metas[mr_txnid[r] % 2].root
      /\ rd'[r].pc \in {"published", "checked", "active"} =>
             \/ rd'[r].id = mr_txnid'[r]
             \/ rd[r].pc \in {"published", "checked"} /\ rd'[r].id = rd[r].id /\ mr_txnid'[r] = mr_txnid[r]
      /\ rd'[r].pc = "checked" => mr_txnid'[r] = mti_txnid
      /\ rd'[r].pc = "dead" => rd'[r].id = 0
      /\ faults' = faults \/ faults' = faults + 1
  BY <1>1, ReaderEffect
<1>5. Newest' = Newest /\ Saved' = Saved
  BY <1>3 DEF Newest, Saved, SavedFreelist
<1>6. mti_txnid \in Nat /\ mr_txnid \in [Readers -> Nat] /\ metas \in [0..1 -> Meta]
  BY <1>1 DEF OInv, TypeInv
<1>7. AccountInv'
  BY <1>1, <1>3, <1>5 DEF AccountInv
<1>8. ASSUME rd'[r].pc = "active"
      PROVE  \E i \in 0..1 : /\ rd'[r].root = metas[i].root /\ mr_txnid'[r] = mr_txnid[r]
                             /\ mr_txnid[r] \in Nat /\ metas[i].txnid \in Nat /\ mr_txnid[r] <= metas[i].txnid
  <2>1. rd[r].pc = "checked" /\ mr_txnid'[r] = mr_txnid[r] /\ rd'[r].root = metas[mr_txnid[r] % 2].root
    BY <1>4, <1>8
  <2>2. mr_txnid[r] \in Nat /\ mr_txnid[r] % 2 \in 0..1
    BY <1>6, Parity
  <2>3. mr_txnid[r] <= metas[mr_txnid[r] % 2].txnid
    BY <1>1, <2>1 DEF ReaderInv
  <2>4. metas[mr_txnid[r] % 2].txnid \in Nat
    BY <1>6, <2>2 DEF Meta
  <2> QED BY <2>1, <2>2, <2>3, <2>4
<1>9. GuardInv'
  <2>1. Newest.freedb \in FreeRecords
    BY <1>6, NewestIsOne DEF Meta
  <2>2. ASSUME NEW q \in Readers, rd'[q].pc = "active"
        PROVE  Guarded(rd'[q].root, mr_txnid'[q], Newest.freedb, Newest.last_pg)
    <3>1. CASE q # r
      BY <1>1, <1>3, <2>2, <3>1 DEF GuardInv
    <3>2. CASE q = r
      <4>1. PICK i \in 0..1 : /\ rd'[q].root = metas[i].root /\ mr_txnid'[q] = mr_txnid[q]
                              /\ mr_txnid[q] \in Nat /\ metas[i].txnid \in Nat /\ mr_txnid[q] <= metas[i].txnid
        BY <1>8, <2>2, <3>2
      <4>2. Guarded(metas[i].root, metas[i].txnid, Newest.freedb, Newest.last_pg)
        BY <1>1 DEF GuardInv
      <4>3. Guarded(metas[i].root, mr_txnid[q], Newest.freedb, Newest.last_pg)
        BY <2>1, <4>1, <4>2, GuardWeaken
      <4> QED BY <4>1, <4>3
    <3> QED BY <3>1, <3>2
  <2>3. ASSUME NEW q \in Readers, rd'[q].pc = "active", txn.pc # "none"
        PROVE  Guarded(rd'[q].root, mr_txnid'[q], Saved, txn.next - 1)
    <3>1. CASE q # r
      BY <1>1, <1>3, <2>3, <3>1 DEF GuardInv
    <3>2. CASE q = r
      <4>1. PICK i \in 0..1 : /\ rd'[q].root = metas[i].root /\ mr_txnid'[q] = mr_txnid[q]
                              /\ mr_txnid[q] \in Nat /\ metas[i].txnid \in Nat /\ mr_txnid[q] <= metas[i].txnid
        BY <1>8, <2>3, <3>2
      <4>2. Guarded(metas[i].root, metas[i].txnid, Saved, txn.next - 1)
        BY <1>1, <2>3 DEF GuardInv
      <4>3. Saved \in FreeRecords
        BY <1>1, <2>3, OwnerAlive, SavedType
      <4>4. Guarded(metas[i].root, mr_txnid[q], Saved, txn.next - 1)
        BY <4>1, <4>2, <4>3, GuardWeaken
      <4> QED BY <4>1, <4>4
    <3> QED BY <3>1, <3>2
  <2> QED BY <1>1, <1>3, <1>5, <2>2, <2>3 DEF GuardInv
<1>10. FreshInv'
  <2> SUFFICES ASSUME txn.pc \in BodyPcs, NEW q \in Readers, rd'[q].pc = "active"
               PROVE  Disjoint(rd'[q].root, txn.root, txn.dirty)
    BY <1>1, <1>3 DEF FreshInv
  <2>1. CASE q # r
    BY <1>1, <1>3, <2>1 DEF FreshInv
  <2>2. CASE q = r
    BY <1>1, <1>8, <2>2 DEF FreshInv
  <2> QED BY <2>1, <2>2
<1>11. HeadInv'
  <2> SUFFICES ASSUME txn.pc \in BodyPcs, txn.head # {}, NEW q \in Readers, Settled(q)'
               PROVE  txn.pglast < mr_txnid'[q]
    BY <1>1, <1>3 DEF HeadInv
  <2>1. CASE q # r
    BY <1>1, <1>3, <2>1 DEF HeadInv, Settled
  <2>2. CASE q = r
    <3>1. CASE Settled(r) /\ mr_txnid'[r] = mr_txnid[r]
      BY <1>1, <2>2, <3>1 DEF HeadInv
    <3>2. CASE mr_txnid'[r] = mti_txnid
      BY <1>1, <1>6, <2>2, <3>2 DEF HeadInv
    <3> QED BY <1>4, <2>2, <3>1, <3>2 DEF Settled
  <2> QED BY <2>1, <2>2
<1>12. MetaInv'
  BY <1>1, <1>3 DEF MetaInv
<1>13. ReaderInv'
  <2> SUFFICES ASSUME NEW q \in Readers
               PROVE  /\ rd'[q].pc \in {"published", "checked", "active"} => rd'[q].id = mr_txnid'[q]
                      /\ rd'[q].pc = "checked" => mr_txnid'[q] <= metas[mr_txnid'[q] % 2].txnid
                      /\ rd'[q].pc = "dead" => rd'[q].id = 0
    BY <1>3 DEF ReaderInv
  <2>1. CASE q # r
    BY <1>1, <1>3, <2>1 DEF ReaderInv
  <2>2. CASE q = r
    <3>1. rd'[r].pc \in {"published", "checked", "active"} => rd'[r].id = mr_txnid'[r]
      BY <1>1, <1>4 DEF ReaderInv
    <3>2. mti_txnid <= metas[mti_txnid % 2].txnid
      BY <1>1, <1>6 DEF MetaInv
    <3>3. rd'[r].pc = "checked" => mr_txnid'[r] <= metas[mr_txnid'[r] % 2].txnid
      BY <1>4, <3>2
    <3> QED BY <1>4, <2>2, <3>1, <3>3
  <2> QED BY <2>1, <2>2
<1>14. LogInv'
  <2>1. faults' \in Nat
    BY <1>1, <1>4 DEF LogInv
  <2>2. \A i \in 0..1 : View(metas[i].root)' = View(metas[i].root)
    BY <1>3 DEF View
  <2>3. \A i \in 0..1 : Needed(i)' => Needed(i)
    BY <1>3, <1>4, <1>5 DEF Needed
  <2> QED BY <1>1, <1>3, <1>5, <2>1, <2>2, <2>3 DEF LogInv
<1> QED BY <1>2, <1>7, <1>9, <1>10, <1>11, <1>12, <1>13, <1>14 DEF SInv

\* The meta pages, the readers and the log, when a step leaves them alone.
LEMMA KeepRest ==
    ASSUME SInv, UNCHANGED <<page, metas, rd, mr_txnid, mti_txnid, log>>,
           txn.pc = "written" => txn'.pc = "written" \/ owner_dead',
           owner_dead => owner_dead',
           faults' \in Nat, returned' \in Nat, returned' <= mti_txnid + 1,
           durable' \in Nat, durable' <= Len(log)
    PROVE  MetaInv' /\ ReaderInv' /\ LogInv'
<1>1. MetaInv /\ ReaderInv /\ LogInv
  BY DEF SInv
<1>2. MetaInv'
  BY <1>1 DEF MetaInv
<1>3. ReaderInv'
  BY <1>1 DEF ReaderInv
<1>4. Newest' = Newest
  BY DEF Newest
<1>5. \A i \in 0..1 : View(metas[i].root)' = View(metas[i].root)
  BY DEF View
<1>6. LogInv'
  <2>1. \A i \in 0..1 : Needed(i)' => Needed(i)
    BY <1>4 DEF Needed
  <2> QED BY <1>1, <1>4, <1>5, <2>1 DEF LogInv
<1> QED BY <1>2, <1>3, <1>6

\* The steps of an allocation that place no page preserve the invariant.  A page
\* is read from the freeDB only when its record is older than every reader.
LEMMA SearchSInv ==
    ASSUME SInv, NEW w \in Writers,
           \/ AllocFetch(w) \/ FindOldest(w) \/ OldestFound(w)
           \/ AllocNew(w) /\ txn'.pc = "error"
           \/ \E k \in Keys : Touch(w, k)
           \/ \E r \in Readers : ScanReader(w, r)
    PROVE  SInv'
<1>1. /\ OInv /\ AccountInv /\ GuardInv /\ FreshInv /\ HeadInv /\ MetaInv /\ ReaderInv /\ LogInv
  BY DEF SInv
<1>2. OInv'
  BY <1>1, AllocOInv
<1>3. /\ txn \in OpenTxn /\ txn' \in OpenTxn
      /\ UNCHANGED <<page, metas, rd, mr_txnid, mti_txnid, owner_dead, log, returned, durable, faults>>
      /\ txn.pc \in BodyPcs /\ txn'.pc \in BodyPcs
      /\ txn'.id = txn.id /\ txn'.root = txn.root /\ txn'.next = txn.next /\ txn'.dirty = txn.dirty
  <2>1. UNCHANGED faults
    BY DEF AllocFetch, FindOldest, OldestFound, AllocNew, Touch, ScanReader, Private
  <2>2. CASE AllocFetch(w)
    BY <1>1, <2>1, <2>2, FetchEffect DEF BodyPcs, file, lockfile, history
  <2>3. CASE FindOldest(w) \/ OldestFound(w) \/ \E r \in Readers : ScanReader(w, r)
    <3>1. /\ txn.pc \in BodyPcs /\ txn'.pc \in BodyPcs
      BY <1>1, <2>3, OldestEffect DEF BodyPcs
    <3> QED BY <1>1, <2>1, <2>3, <3>1, OldestEffect DEF file, lockfile, history
  <2>4. CASE AllocNew(w) /\ txn'.pc = "error"
    BY <1>1, <2>1, <2>4, NewPageEffect DEF BodyPcs, file, lockfile, history
  <2>5. CASE \E k \in Keys : Touch(w, k)
    BY <1>1, <2>1, <2>5, TouchEffect DEF BodyPcs, file, lockfile, history
  <2> QED BY <2>2, <2>3, <2>4, <2>5
<1>4. Saved' = Saved
  <2>1. CASE AllocFetch(w)
    BY <1>1, <2>1, SavedFetch
  <2>2. CASE ~AllocFetch(w)
    <3>1. /\ txn'.freedb = txn.freedb /\ txn'.head = txn.head /\ txn'.free = txn.free
          /\ txn'.pglast = txn.pglast /\ txn'.id = txn.id
      <4>1. CASE AllocNew(w) /\ txn'.pc = "error"
        BY <1>1, <4>1, NewPageEffect
      <4>2. CASE \E k \in Keys : Touch(w, k)
        BY <1>1, <4>2, TouchEffect
      <4> QED BY <1>1, <2>2, <4>1, <4>2, OldestEffect
    <3> QED BY <1>3, <3>1, SavedSame
  <2> QED BY <2>1, <2>2
<1>5. txn.pc # "none" /\ txn'.pc # "none" /\ txn.pc # "written"
  BY <1>3 DEF BodyPcs
<1>6. AccountInv' /\ GuardInv'
  BY <1>1, <1>3, <1>4, <1>5, KeepAccounts
<1>7. FreshInv'
  BY <1>1, <1>3 DEF FreshInv
<1>8. HeadInv'
  <2>1. CASE AllocFetch(w)
    <3>1. /\ txn.pc = "alloc" /\ txn'.pc = "alloc" /\ txn'.want = txn.want /\ txn'.dirty = txn.dirty
          /\ txn'.pglast > txn.pglast /\ txn'.pglast < me_pgoldest[w]
      BY <1>1, <2>1, FetchEffect
    <3>2. txn.pglast \in Nat /\ txn'.pglast \in Nat /\ mti_txnid \in Nat /\ me_pgoldest[w] \in Nat
      BY <1>1, <1>3 DEF OpenTxn, OInv, TypeInv
    <3>3. me_pgoldest[w] <= mti_txnid
      BY <1>1 DEF OInv, ScanInv
    <3>4. txn'.pglast \in 1..(mti_txnid - 1) /\ txn'.pglast <= mti_txnid
      BY <3>1, <3>2, <3>3
    <3>5. ASSUME NEW r \in Readers, Settled(r) PROVE txn'.pglast < mr_txnid[r]
      <4>1. me_pgoldest[w] <= mr_txnid[r] /\ mr_txnid[r] \in Nat
        BY <1>1, <3>5 DEF OInv, OldestIsOld, Settled, TypeInv
      <4> QED BY <3>1, <3>2, <4>1
    <3>6. \A r \in Readers : Settled(r)' <=> Settled(r)
      BY <1>3 DEF Settled
    <3>7. txn.want \notin txn.dirty
      BY <1>1, <1>3, <3>1 DEF HeadInv
    <3> QED BY <1>3, <3>1, <3>4, <3>5, <3>6, <3>7 DEF HeadInv
  <2>2. CASE ~AllocFetch(w)
    <3>1. /\ txn'.head = txn.head /\ txn'.pglast = txn.pglast
          /\ txn'.pc \in {"alloc", "scan"} => \/ txn'.want \notin txn.dirty
                                              \/ txn.pc \in {"alloc", "scan"} /\ txn'.want = txn.want
      <4>1. CASE AllocNew(w) /\ txn'.pc = "error"
        BY <1>1, <4>1, NewPageEffect
      <4>2. CASE \E k \in Keys : Touch(w, k)
        BY <1>1, <4>2, TouchEffect
      <4> QED BY <1>1, <2>2, <4>1, <4>2, OldestEffect
    <3>2. \A r \in Readers : Settled(r)' <=> Settled(r)
      BY <1>3 DEF Settled
    <3> QED BY <1>1, <1>3, <3>1, <3>2 DEF HeadInv
  <2> QED BY <2>1, <2>2
<1>9. MetaInv' /\ ReaderInv' /\ LogInv'
  <2>1. returned \in Nat /\ returned <= mti_txnid + 1 /\ durable \in Nat /\ durable <= Len(log) /\ faults \in Nat
    BY <1>1 DEF LogInv
  <2> QED BY <1>3, <1>5, <2>1, KeepRest
<1> QED BY <1>2, <1>6, <1>7, <1>8, <1>9 DEF SInv

\* A page is placed: none of the meta pages and of the active readers has it.
LEMMA PlaceSInv ==
    ASSUME SInv, NEW w \in Writers, AllocReuse(w) \/ (AllocNew(w) /\ txn'.pc # "error")
    PROVE  SInv'
<1> USE ConstantsAssumption
<1>1. /\ OInv /\ AccountInv /\ GuardInv /\ FreshInv /\ HeadInv /\ MetaInv /\ ReaderInv /\ LogInv
  BY DEF SInv
<1>2. OInv'
  BY <1>1, AllocOInv
<1>3. /\ txn \in OpenTxn /\ txn' \in OpenTxn
      /\ UNCHANGED <<page, metas, rd, mr_txnid, mti_txnid, owner_dead, log, returned, durable, faults>>
      /\ txn.pc = "alloc" /\ txn'.pc = "body" /\ txn'.id = txn.id
      /\ txn.want \in Keys /\ txn'.freedb = txn.freedb
      /\ txn'.pglast = txn.pglast /\ txn'.dirty = txn.dirty \cup {txn.want}
      /\ txn'.free = txn.free \cup ({txn.root[txn.want]} \ {NoPage})
  <2>1. UNCHANGED faults
    BY DEF AllocReuse, AllocNew, Private
  <2>2. CASE AllocReuse(w)
    BY <1>1, <2>1, <2>2, ReuseEffect DEF file, lockfile, history
  <2>3. CASE AllocNew(w) /\ txn'.pc # "error"
    BY <1>1, <2>1, <2>3, NewPageEffect DEF file, lockfile, history
  <2> QED BY <2>2, <2>3
<1>4. txn.pc \in BodyPcs /\ txn'.pc \in BodyPcs /\ txn.pc # "none" /\ txn.pc # "written"
  BY <1>3 DEF BodyPcs
<1>5. ~owner_dead
  BY <1>1, <1>4, OwnerAlive
<1>6. /\ mti_txnid \in Nat /\ txn.id = mti_txnid + 1 /\ txn.root \in Roots /\ txn.next \in Nat \ {0}
      /\ txn.pglast \in Nat /\ txn.head \in SUBSET Nat /\ txn'.next \in Nat \ {0}
      /\ mr_txnid \in [Readers -> Nat]
  BY <1>1, <1>3, <1>4 DEF OInv, TxnInv, TypeInv, OpenTxn
<1>7. PICK S, S2 : S = Saved /\ S2 = Saved'
  OBVIOUS
<1>8. S \in FreeRecords /\ S2 \in FreeRecords
  <2>1. Saved \in FreeRecords
    BY <1>3, SavedType
  <2>2. Saved' \in FreeRecords
    <3>1. /\ txn'.freedb \in SUBSET (Nat \X Nat) /\ txn'.head \in SUBSET Nat /\ txn'.free \in SUBSET Nat
          /\ txn'.pglast \in Nat /\ txn'.id \in Nat
      BY <1>3 DEF OpenTxn, FreeRecords
    <3> QED BY <3>1 DEF Saved, SavedFreelist, FreeRecords
  <2> QED BY <1>7, <2>1, <2>2
<1>9. Accounted(txn.root, S, txn.next - 1, txn.id)
  BY <1>1, <1>4, <1>7 DEF AccountInv
<1>10. /\ \A e \in S : e[2] \in 2..(txn.next - 1)
       /\ \A e, f \in S : e[2] = f[2] => e = f
       /\ \A e \in S : \A k \in Keys : txn.root[k] # e[2]
  BY <1>9 DEF Accounted
<1>11. /\ \A i \in 0..1 : Guarded(metas[i].root, metas[i].txnid, S, txn.next - 1)
       /\ \A r \in Readers : rd[r].pc = "active" => Guarded(rd[r].root, mr_txnid[r], S, txn.next - 1)
  BY <1>1, <1>4, <1>7 DEF GuardInv
<1>12. \A i \in 0..1 : metas[i].txnid \in Nat /\ mti_txnid <= metas[i].txnid + 1 /\ metas[i].txnid <= mti_txnid
  BY <1>1, <1>4, <1>5, NewestWhileOpen
<1>13. \A r \in Readers : rd[r].pc = "active" => Settled(r) /\ mr_txnid[r] \in Nat /\ mr_txnid[r] <= mti_txnid
  BY <1>1, <1>6 DEF OInv, ScanInv, Settled
<1>14. \E p \in Nat :
          /\ txn'.root = [txn.root EXCEPT ![txn.want] = p]
          /\ Placed(txn.root, S, txn.id, txn.want, p, S2)
          /\ \/ txn'.next = txn.next /\ \E e \in S : e[2] = p
             \/ txn'.next = txn.next + 1 /\ p = txn.next /\ txn.next < MaxPg
          /\ \A i \in 0..1 : \A j \in Keys : metas[i].root[j] # p
          /\ \A r \in Readers : rd[r].pc = "active" => \A j \in Keys : rd[r].root[j] # p
          /\ txn'.head \subseteq txn.head
  <2>1. CASE AllocReuse(w)
    <3>1. PICK p \in txn.head : /\ txn'.root = [txn.root EXCEPT ![txn.want] = p]
                                /\ txn'.head = txn.head \ {p}
      BY <1>1, <2>1, ReuseEffect
    <3>2. txn'.next = txn.next
      BY <1>1, <2>1, ReuseEffect
    <3>3. /\ txn.pglast \in 1..(mti_txnid - 1)
          /\ \A r \in Readers : Settled(r) => txn.pglast < mr_txnid[r]
      BY <1>1, <1>4, <3>1 DEF HeadInv
    <3>4. <<txn.pglast, p>> \in Saved
      BY <1>4, <3>1 DEF Saved, SavedFreelist
    <3>5. p # txn.root[txn.want] /\ txn.pglast # txn.id /\ p \in Nat
      BY <1>3, <1>6, <1>7, <1>10, <3>1, <3>3, <3>4
    <3>6. Placed(txn.root, S, txn.id, txn.want, p, S2)
      BY <1>3, <1>4, <1>7, <1>10, <3>1, <3>5, SavedReuse
    <3>7. ASSUME NEW i \in 0..1, NEW j \in Keys, metas[i].root[j] = p PROVE FALSE
      <4>1. metas[i].root[j] # NoPage
        BY <3>5, <3>7
      <4>2. txn.pglast > metas[i].txnid
        BY <1>7, <1>11, <3>4, <3>7, <4>1 DEF Guarded
      <4> QED BY <1>6, <1>12, <3>3, <4>2
    <3>8. ASSUME NEW r \in Readers, rd[r].pc = "active", NEW j \in Keys, rd[r].root[j] = p PROVE FALSE
      <4>1. rd[r].root[j] # NoPage
        BY <3>5, <3>8
      <4>2. txn.pglast > mr_txnid[r]
        BY <1>7, <1>11, <3>4, <3>8, <4>1 DEF Guarded
      <4> QED BY <1>6, <1>13, <3>3, <3>8, <4>2
    <3>9. \E e \in S : e[2] = p
      BY <1>7, <3>4
    <3> QED BY <3>1, <3>2, <3>5, <3>6, <3>7, <3>8, <3>9
  <2>2. CASE AllocNew(w) /\ txn'.pc # "error"
    <3>1. /\ txn.next + 1 < MaxPg /\ txn'.next = txn.next + 1
          /\ txn'.root = [txn.root EXCEPT ![txn.want] = txn.next]
          /\ txn'.head = txn.head
      BY <1>1, <2>2, NewPageEffect
    <3>2. \A e \in S : e[2] # txn.next
      BY <1>6, <1>10
    <3>3. Placed(txn.root, S, txn.id, txn.want, txn.next, S2)
      BY <1>3, <1>4, <1>7, <3>1, <3>2, SavedNew
    <3>4. ASSUME NEW other, NEW b, Guarded(other, b, S, txn.next - 1), NEW j \in Keys
          PROVE  other[j] # txn.next
      BY <1>6, <3>4 DEF Guarded
    <3>5. txn.next < MaxPg
      BY <1>6, <3>1
    <3> QED BY <1>6, <1>11, <3>1, <3>3, <3>4, <3>5
  <2> QED BY <2>1, <2>2
<1>15. PICK p \in Nat :
          /\ txn'.root = [txn.root EXCEPT ![txn.want] = p]
          /\ Placed(txn.root, S, txn.id, txn.want, p, S2)
          /\ \/ txn'.next = txn.next /\ \E e \in S : e[2] = p
             \/ txn'.next = txn.next + 1 /\ p = txn.next /\ txn.next < MaxPg
          /\ \A i \in 0..1 : \A j \in Keys : metas[i].root[j] # p
          /\ \A r \in Readers : rd[r].pc = "active" => \A j \in Keys : rd[r].root[j] # p
          /\ txn'.head \subseteq txn.head
  BY <1>14
<1>16. Newest' = Newest
  BY <1>3 DEF Newest
<1>17. PICK l, l2, id : l = txn.next - 1 /\ l2 = txn'.next - 1 /\ id = txn.id
  OBVIOUS
<1>18. /\ l \in Nat /\ l2 \in Nat /\ id \in Nat /\ id >= 1 /\ l <= l2 /\ id = mti_txnid + 1
       /\ \/ l2 = l /\ \E e \in S : e[2] = p
          \/ l2 = l + 1 /\ p = l2 /\ l2 < MaxPg
  BY <1>6, <1>15, <1>17
<1>19. AccountInv'
  <2>1. Accounted([txn.root EXCEPT ![txn.want] = p], S2, l2, id)
    <3>1. PICK root, k : root = txn.root /\ k = txn.want
      OBVIOUS
    <3>2. root \in Roots /\ k \in Keys /\ Accounted(root, S, l, id) /\ Placed(root, S, id, k, p, S2)
      BY <1>3, <1>6, <1>9, <1>15, <1>17, <3>1
    <3>3. Accounted([root EXCEPT ![k] = p], S2, l2, id)
      BY <1>8, <1>15, <1>18, <3>2, AccountPlace
    <3> QED BY <3>1, <3>3
  <2>2. Accounted(txn'.root, Saved', txn'.next - 1, txn'.id)
    BY <1>3, <1>7, <1>15, <1>17, <2>1
  <2> QED BY <1>1, <1>16, <2>2 DEF AccountInv
<1>20. GuardInv'
  <2>1. ASSUME NEW other, NEW b \in Nat, b <= mti_txnid, Guarded(other, b, S, txn.next - 1)
        PROVE  Guarded(other, b, S2, txn'.next - 1)
    <3>1. b < id
      BY <1>6, <1>18, <2>1
    <3> QED BY <1>3, <1>6, <1>15, <1>17, <1>18, <2>1, <3>1, GuardPlace
  <2>2. \A i \in 0..1 : Guarded(metas[i].root, metas[i].txnid, S2, txn'.next - 1)
    BY <1>11, <1>12, <2>1
  <2>3. \A r \in Readers : rd[r].pc = "active" => Guarded(rd[r].root, mr_txnid[r], S2, txn'.next - 1)
    BY <1>11, <1>13, <2>1
  <2> QED BY <1>1, <1>3, <1>7, <1>16, <2>2, <2>3 DEF GuardInv
<1>21. FreshInv'
  <2>1. /\ txn'.root[txn.want] = p /\ p # NoPage
        /\ \A j \in Keys : j # txn.want => txn'.root[j] = txn.root[j]
    BY <1>3, <1>6, <1>15 DEF Roots
  <2>2. txn.dirty \subseteq Keys
    BY <1>3 DEF OpenTxn
  <2>3. \A k \in txn'.dirty : txn'.root[k] # NoPage
    BY <1>1, <1>3, <1>4, <2>1, <2>2 DEF FreshInv
  <2>4. ASSUME NEW other, Disjoint(other, txn.root, txn.dirty), \A j \in Keys : other[j] # p
        PROVE  Disjoint(other, txn'.root, txn'.dirty)
    BY <1>3, <2>1, <2>2, <2>4 DEF Disjoint
  <2>5. \A i \in 0..1 : Disjoint(metas[i].root, txn'.root, txn'.dirty)
    BY <1>1, <1>4, <1>15, <2>4 DEF FreshInv
  <2>6. \A r \in Readers : rd[r].pc = "active" => Disjoint(rd[r].root, txn'.root, txn'.dirty)
    BY <1>1, <1>4, <1>15, <2>4 DEF FreshInv
  <2> QED BY <1>3, <2>3, <2>5, <2>6 DEF FreshInv
<1>22. HeadInv'
  <2>1. \A r \in Readers : Settled(r)' <=> Settled(r)
    BY <1>3 DEF Settled
  <2> QED BY <1>1, <1>3, <1>4, <1>15, <2>1 DEF HeadInv
<1>23. MetaInv' /\ ReaderInv' /\ LogInv'
  <2>1. returned \in Nat /\ returned <= mti_txnid + 1 /\ durable \in Nat /\ durable <= Len(log) /\ faults \in Nat
    BY <1>1 DEF LogInv
  <2> QED BY <1>3, <1>4, <2>1, KeepRest
<1> QED BY <1>2, <1>19, <1>20, <1>21, <1>22, <1>23 DEF SInv

\* BeginWrite starts from the newest state, as no commit is half done.
LEMMA BeginSInv ==
    ASSUME SInv, NEW w \in Writers, BeginWrite(w)
    PROVE  SInv'
<1>1. /\ OInv /\ AccountInv /\ GuardInv /\ FreshInv /\ HeadInv /\ MetaInv /\ ReaderInv /\ LogInv
  BY DEF SInv
<1>2. OInv'
  BY <1>1, BeginOInv
<1>3. /\ txn = Idle /\ ~owner_dead /\ txn' \in OpenTxn /\ txn'.pc = "body"
      /\ txn'.id = mti_txnid + 1 /\ txn'.root = metas[mti_txnid % 2].root
      /\ txn'.next = metas[mti_txnid % 2].last_pg + 1
      /\ txn'.freedb = metas[mti_txnid % 2].freedb /\ txn'.free = {} /\ txn'.head = {}
      /\ txn'.pglast = 0 /\ txn'.dirty = {}
      /\ UNCHANGED <<page, metas, rd, mr_txnid, mti_txnid, owner_dead, log, returned, durable, faults>>
  BY <1>1, BeginEffect DEF file, history
<1>4. txn.pc = "none"
  BY <1>3 DEF Idle
<1>5. Newest = metas[mti_txnid % 2] /\ Newest.txnid = mti_txnid /\ Newest \in Meta
  BY <1>1, <1>3, <1>4, NewestWhileOpen, NewestIs
<1>6. PICK n : n = Newest
  OBVIOUS
<1>7. n \in Meta /\ n.last_pg \in Nat /\ n.txnid = mti_txnid /\ mti_txnid \in Nat /\ n.freedb \in FreeRecords
  BY <1>1, <1>5, <1>6 DEF Meta, OInv, TypeInv
<1>8. txn'.root = n.root /\ txn'.next - 1 = n.last_pg /\ txn'.freedb = n.freedb /\ Newest' = n
  BY <1>3, <1>5, <1>6, <1>7 DEF Newest
<1>9. Accounted(n.root, n.freedb, n.last_pg, n.txnid)
  BY <1>1, <1>6 DEF AccountInv
<1>10. Accounted(n.root, n.freedb, n.last_pg, mti_txnid + 1)
  <2>1. \A e \in n.freedb : e[1] \in 1..(mti_txnid + 1)
    BY <1>7, <1>9 DEF Accounted
  <2> QED BY <1>9, <2>1 DEF Accounted
<1>11. Saved' = n.freedb
  <2>1. \A e \in n.freedb : e[1] \in Nat /\ e[1] >= 1
    BY <1>7, <1>9 DEF Accounted
  <2> QED BY <1>3, <1>8, <2>1, SavedBegin
<1>12. AccountInv'
  <2>1. Accounted(txn'.root, Saved', txn'.next - 1, txn'.id)
    BY <1>3, <1>8, <1>10, <1>11
  <2>2. Accounted(Newest'.root, Newest'.freedb, Newest'.last_pg, Newest'.txnid)
    BY <1>8, <1>9
  <2> QED BY <2>1, <2>2 DEF AccountInv
<1>13. GuardInv'
  <2>1. /\ \A i \in 0..1 : Guarded(metas[i].root, metas[i].txnid, n.freedb, n.last_pg)
        /\ \A r \in Readers : rd[r].pc = "active" => Guarded(rd[r].root, mr_txnid[r], n.freedb, n.last_pg)
    BY <1>1, <1>6 DEF GuardInv
  <2> QED BY <1>3, <1>8, <1>11, <2>1 DEF GuardInv
<1>14. FreshInv'
  BY <1>3 DEF FreshInv, Disjoint
<1>15. HeadInv'
  BY <1>3, <1>7 DEF HeadInv
<1>16. MetaInv' /\ ReaderInv' /\ LogInv'
  <2>1. returned \in Nat /\ returned <= mti_txnid + 1 /\ durable \in Nat /\ durable <= Len(log) /\ faults \in Nat
    BY <1>1 DEF LogInv
  <2> QED BY <1>3, <1>4, <2>1, KeepRest
<1> QED BY <1>2, <1>12, <1>13, <1>14, <1>15, <1>16 DEF SInv

\* A view does not change when none of its pages does.
LEMMA ViewSame ==
    ASSUME NEW root, \A k \in Keys : root[k] # NoPage => page'[root[k]] = page[root[k]]
    PROVE  [k \in Keys |-> IF root[k] = NoPage THEN Blank ELSE page'[root[k]]] = View(root)
BY DEF View

\* The pages that are flushed.
LEMMA FlushPages ==
    ASSUME SInv, NEW w \in Writers, NEW m \in Modes, Flush(w, m)
    PROVE  /\ page' \in [Pages -> Contents]
           /\ \A p \in Pages : (\A k \in txn.dirty : txn.root[k] # p) => page'[p] = page[p]
<1>1. txn \in OpenTxn
  BY FlushEffect DEF SInv
<1>2. txn.dirty \subseteq Keys /\ txn.id \in Nat /\ faults \in Nat /\ page \in [Pages -> Contents]
  BY <1>1 DEF OpenTxn, SInv, LogInv
<1> DEFINE D == {txn.root[k] : k \in txn.dirty}
           c(p) == <<CHOOSE k \in txn.dirty : txn.root[k] = p, faults, txn.id>>
           written == [p \in D |-> c(p)]
<1>3. page' = [p \in Pages |-> IF p \in DOMAIN written THEN written[p] ELSE page[p]]
  BY DEF Flush
<1>4. ASSUME NEW p \in D PROVE c(p) \in Contents
  <2>1. \E k \in txn.dirty : txn.root[k] = p
    OBVIOUS
  <2>2. (CHOOSE k \in txn.dirty : txn.root[k] = p) \in Keys
    BY <1>2, <2>1
  <2> QED BY <1>2, <2>2 DEF Contents
<1>5. DOMAIN written = D /\ \A p \in D : written[p] \in Contents
  BY <1>4
<1> HIDE DEF written, c
<1>6. \A p \in Pages : (\A k \in txn.dirty : txn.root[k] # p) => page'[p] = page[p]
  BY <1>3, <1>5
<1>7. page' \in [Pages -> Contents]
  BY <1>2, <1>3, <1>5
<1> QED BY <1>6, <1>7

\* Writing the dirty pages changes no page of a meta page or of a reader.
LEMMA FlushSInv ==
    ASSUME SInv, NEW w \in Writers, NEW m \in Modes, Flush(w, m)
    PROVE  /\ SInv'
           /\ \A r \in Readers : rd[r].pc = "active" => View(rd[r].root)' = View(rd[r].root)
<1>1. /\ OInv /\ AccountInv /\ GuardInv /\ FreshInv /\ HeadInv /\ MetaInv /\ ReaderInv /\ LogInv
  BY DEF SInv
<1>2. OInv'
  BY <1>1, CommitStepOInv
<1>3. /\ txn \in OpenTxn /\ txn' \in OpenTxn /\ txn.pc = "body" /\ txn'.pc = "flushed"
      /\ txn'.id = txn.id /\ txn'.root = txn.root /\ txn'.next = txn.next
      /\ txn'.freedb = SavedFreelist
      /\ UNCHANGED <<metas, rd, mr_txnid, mti_txnid, owner_dead, log, returned, durable, faults>>
  BY <1>1, FlushEffect DEF lockfile, history
<1>4. txn.pc \in BodyPcs /\ txn'.pc \notin BodyPcs /\ txn.pc # "none"
  BY <1>3 DEF BodyPcs
<1>5. Saved' = Saved
  BY <1>3, <1>4, SavedFlush
<1>6. AccountInv' /\ GuardInv'
  BY <1>1, <1>3, <1>4, <1>5, KeepAccounts
<1>7. FreshInv' /\ HeadInv'
  BY <1>4 DEF FreshInv, HeadInv
<1>8. /\ page' \in [Pages -> Contents]
      /\ \A p \in Pages : (\A k \in txn.dirty : txn.root[k] # p) => page'[p] = page[p]
  BY FlushPages
<1>9. Newest' = Newest
  BY <1>3 DEF Newest
<1>10. ASSUME NEW root, NEW b, Guarded(root, b, Newest.freedb, Newest.last_pg),
              Disjoint(root, txn.root, txn.dirty)
       PROVE  [k \in Keys |-> IF root[k] = NoPage THEN Blank ELSE page'[root[k]]] = View(root)
  <2>1. PICK last : last = Newest.last_pg
    OBVIOUS
  <2>2. last \in Nat /\ (last >= 2 => last < MaxPg) /\ MaxPg \in Nat
    BY <1>1, <2>1, NewestIsOne, ConstantsAssumption DEF AccountInv, Accounted, Meta, OInv, TypeInv
  <2>3. ASSUME NEW k \in Keys, root[k] # NoPage PROVE page'[root[k]] = page[root[k]]
    <3>1. root[k] \in 2..last
      BY <1>10, <2>1, <2>3 DEF Guarded
    <3>2. root[k] \in Pages
      BY <2>2, <3>1 DEF Pages
    <3>3. \A j \in txn.dirty : txn.root[j] # root[k]
      BY <1>10, <2>3 DEF Disjoint
    <3> QED BY <1>8, <3>2, <3>3
  <2> QED BY <2>3, ViewSame
<1>11. \A i \in 0..1 : View(metas[i].root)' = View(metas[i].root)
  <2> SUFFICES ASSUME NEW i \in 0..1 PROVE View(metas[i].root)' = View(metas[i].root)
    OBVIOUS
  <2>1. PICK root : root = metas[i].root
    OBVIOUS
  <2>2. View(metas[i].root)' = [k \in Keys |-> IF root[k] = NoPage THEN Blank ELSE page'[root[k]]]
    BY <1>3, <2>1 DEF View
  <2>3. Guarded(root, metas[i].txnid, Newest.freedb, Newest.last_pg) /\ Disjoint(root, txn.root, txn.dirty)
    BY <1>1, <1>4, <2>1 DEF GuardInv, FreshInv
  <2> QED BY <1>10, <2>1, <2>2, <2>3
<1>12. ASSUME NEW r \in Readers, rd[r].pc = "active" PROVE View(rd[r].root)' = View(rd[r].root)
  <2>1. PICK root : root = rd[r].root
    OBVIOUS
  <2>2. View(rd[r].root)' = [k \in Keys |-> IF root[k] = NoPage THEN Blank ELSE page'[root[k]]]
    BY <1>3, <2>1 DEF View
  <2>3. Guarded(root, mr_txnid[r], Newest.freedb, Newest.last_pg) /\ Disjoint(root, txn.root, txn.dirty)
    BY <1>1, <1>4, <1>12, <2>1 DEF GuardInv, FreshInv
  <2> QED BY <1>10, <2>1, <2>2, <2>3
<1>13. LogInv'
  <2>1. \A i \in 0..1 : Needed(i)' => Needed(i)
    BY <1>3, <1>9 DEF Needed
  <2> QED BY <1>1, <1>3, <1>8, <1>9, <1>11, <2>1 DEF LogInv
<1>14. MetaInv' /\ ReaderInv'
  <2>1. txn.pc # "written"
    BY <1>3
  <2> QED BY <1>1, <1>3, <2>1 DEF MetaInv, ReaderInv
<1> QED BY <1>2, <1>6, <1>7, <1>12, <1>13, <1>14 DEF SInv

\* A sync leaves what the processes see.
LEMMA SyncEffect ==
    ASSUME OInv, LogInv, SyncFile
    PROVE  UNCHANGED <<page, metas, log, returned>> /\ durable' = Len(log) /\ durable' \in Nat
<1>1. durable' = Newest.txnid + 1 /\ UNCHANGED <<page, metas, log, returned>>
  BY DEF SyncFile
<1>2. Len(log) = Newest.txnid + 1 /\ Len(log) \in Nat
  BY DEF LogInv
<1> QED BY <1>1, <1>2

\* So do the steps of a commit that write nothing, and the end of a transaction.
LEMMA QuietSInv ==
    ASSUME SInv, OInv', UNCHANGED <<page, metas, rd, mr_txnid, mti_txnid, log>>,
           \/ UNCHANGED txn
           \/ txn' = Idle
           \/ /\ txn \in OpenTxn /\ txn' \in OpenTxn /\ txn.pc = "flushed" /\ txn'.pc = "synced"
              /\ txn'.id = txn.id
              /\ txn'.root = txn.root /\ txn'.next = txn.next /\ txn'.freedb = txn.freedb,
           txn.pc = "written" => txn'.pc = "written" \/ owner_dead',
           owner_dead => owner_dead',
           faults' \in Nat, returned' \in Nat, returned' <= mti_txnid + 1,
           durable' \in Nat, durable' <= Len(log)
    PROVE  SInv'
<1>1. /\ AccountInv /\ GuardInv /\ FreshInv /\ HeadInv
  BY DEF SInv
<1>2. /\ txn'.pc # "none" => /\ txn.pc # "none" /\ txn'.root = txn.root /\ txn'.next = txn.next
                             /\ txn'.id = txn.id /\ Saved' = Saved
      /\ txn'.pc \in BodyPcs => txn' = txn
  <2>1. CASE UNCHANGED txn
    BY <2>1 DEF Saved, SavedFreelist
  <2>2. CASE txn' = Idle
    BY <2>2 DEF Idle, BodyPcs
  <2>3. CASE /\ txn.pc = "flushed" /\ txn'.pc = "synced" /\ txn'.id = txn.id
             /\ txn'.root = txn.root /\ txn'.next = txn.next /\ txn'.freedb = txn.freedb
    <3>1. txn.pc \notin BodyPcs /\ txn'.pc \notin BodyPcs /\ txn.pc # "none"
      BY <2>3 DEF BodyPcs
    <3>2. Saved' = Saved
      BY <2>3, <3>1, SavedSame
    <3> QED BY <2>3, <3>1, <3>2
  <2> QED BY <2>1, <2>2, <2>3
<1>3. AccountInv' /\ GuardInv'
  BY <1>1, <1>2, KeepAccounts
<1>4. FreshInv' /\ HeadInv'
  BY <1>1, <1>2 DEF FreshInv, HeadInv, Settled
<1>5. MetaInv' /\ ReaderInv' /\ LogInv'
  BY KeepRest
<1> QED BY <1>3, <1>4, <1>5 DEF SInv

\* Syncing, aborting, failing, returning and dying leave the meta pages and the
\* readers alone.
LEMMA QuietStepsSInv ==
    ASSUME SInv,
           \/ EnvSync
           \/ \E w \in Writers : SyncData(w) \/ AbortWrite(w) \/ CommitFails(w) \/ CommitReturns(w)
                                 \/ WriterDies(w)
    PROVE  SInv' /\ UNCHANGED <<page, metas, rd, mr_txnid, mti_txnid, log>>
<1>1. OInv /\ LogInv /\ MetaInv
  BY DEF SInv
<1>2. /\ faults \in Nat /\ returned \in Nat /\ returned <= mti_txnid + 1
      /\ durable \in Nat /\ durable <= Len(log) /\ Len(log) \in Nat /\ mti_txnid \in Nat
  BY <1>1 DEF LogInv, OInv, TypeInv
<1>3. Idle.pc = "none"
  BY DEF Idle
<1>4. CASE EnvSync
  <2>1. SyncFile /\ UNCHANGED <<lockfile, rd, txn, me_pgoldest, fatal, faults>>
    BY <1>4 DEF EnvSync
  <2>2. UNCHANGED <<page, metas, log, returned>> /\ durable' = Len(log) /\ durable' \in Nat
    BY <1>1, <2>1, SyncEffect
  <2>3. OInv'
    BY <1>1, <1>4, EnvStepOInv
  <2> QED BY <1>2, <2>1, <2>2, <2>3, QuietSInv DEF lockfile
<1>5. ASSUME NEW w \in Writers, SyncData(w) PROVE SInv' /\ UNCHANGED <<page, metas, rd, mr_txnid, mti_txnid, log>>
  <2>1. /\ txn' = [txn EXCEPT !.pc = "synced"] /\ txn.pc = "flushed" /\ wmutex = w
        /\ UNCHANGED <<mr_txnid, mti_txnid, owner_dead, rd, faults>>
    BY <1>5 DEF SyncData, lockfile
  <2>2. /\ txn \in OpenTxn /\ txn' \in OpenTxn /\ txn'.pc = "synced"
        /\ txn'.id = txn.id /\ txn'.root = txn.root /\ txn'.next = txn.next /\ txn'.freedb = txn.freedb
    BY <1>1, <2>1, PcEffect DEF CommitPcs
  <2>3. /\ UNCHANGED <<page, metas, log, returned>> /\ durable' \in Nat /\ durable' <= Len(log)
    <3>1. CASE SyncFile
      BY <1>1, <1>2, <3>1, SyncEffect
    <3>2. CASE UNCHANGED <<file, unsynced, history>>
      BY <1>2, <3>2 DEF file, history
    <3> QED BY <1>5, <3>1, <3>2 DEF SyncData
  <2>4. OInv'
    BY <1>1, <1>5, CommitStepOInv
  <2> QED BY <1>2, <2>1, <2>2, <2>3, <2>4, QuietSInv
<1>6. ASSUME NEW w \in Writers, AbortWrite(w) \/ CommitFails(w) \/ CommitReturns(w) \/ WriterDies(w)
      PROVE  SInv' /\ UNCHANGED <<page, metas, rd, mr_txnid, mti_txnid, log>>
  <2>1. OInv'
    BY <1>1, <1>6, EndStepOInv
  <2>2. CASE AbortWrite(w)
    <3>1. /\ txn' = Idle /\ txn.pc # "written"
          /\ UNCHANGED <<page, metas, rd, mr_txnid, mti_txnid, log, owner_dead, faults, returned, durable>>
      BY <2>2 DEF AbortWrite, Release, file, history
    <3> QED BY <1>2, <2>1, <3>1, QuietSInv
  <2>3. CASE CommitFails(w)
    <3>1. /\ txn' = Idle /\ txn.pc # "written" /\ faults' = faults + 1
          /\ UNCHANGED <<page, metas, rd, mr_txnid, mti_txnid, log, owner_dead, returned, durable>>
      BY <2>3 DEF CommitFails, Fault, Release, file, history
    <3> QED BY <1>2, <2>1, <3>1, QuietSInv
  <2>4. CASE CommitReturns(w)
    <3>1. /\ txn' = Idle /\ txn.pc = "done" /\ returned' = Len(log)
          /\ durable' = Len(log) \/ durable' = durable
          /\ UNCHANGED <<page, metas, rd, mr_txnid, mti_txnid, log, owner_dead, faults>>
      BY <2>4 DEF CommitReturns, Release, file
    <3>2. ~owner_dead
      BY <1>1, <3>1, OwnerAlive
    <3>3. Newest.txnid = mti_txnid
      BY <1>1, <3>1, <3>2, NewestWhileOpen
    <3>4. returned' <= mti_txnid + 1 /\ returned' \in Nat
      BY <1>1, <1>2, <3>1, <3>3 DEF LogInv
    <3> QED BY <1>2, <2>1, <3>1, <3>4, QuietSInv
  <2>5. CASE WriterDies(w)
    <3>1. /\ txn' = Idle /\ owner_dead' = TRUE /\ faults' = faults + 1
          /\ UNCHANGED <<page, metas, rd, mr_txnid, mti_txnid, log, returned, durable>>
      BY <2>5 DEF WriterDies, Fault, Release, file, history
    <3> QED BY <1>2, <2>1, <3>1, QuietSInv
  <2> QED BY <1>6, <2>2, <2>3, <2>4, <2>5
<1> QED BY <1>4, <1>5, <1>6

\* The state a transaction is about to commit is a view.
LEMMA ViewType ==
    ASSUME page \in [Pages -> Contents], NEW root \in Roots, NEW last \in Nat, last >= 2 => last < MaxPg,
           \A k \in Keys : root[k] # NoPage => root[k] \in 2..last
    PROVE  View(root) \in Views
<1>1. ASSUME NEW k \in Keys, root[k] # NoPage PROVE page[root[k]] \in Contents
  <2>1. root[k] \in Pages
    BY <1>1, ConstantsAssumption DEF Pages
  <2> QED BY <2>1
<1> QED BY <1>1 DEF View, Views, Contents

\* WriteMeta: the older meta page is overwritten, and the state of the
\* transaction joins the log.
LEMMA WriteMetaSInv ==
    ASSUME SInv, NEW w \in Writers, WriteMeta(w)
    PROVE  /\ SInv'
           /\ UNCHANGED <<page, rd, mr_txnid, returned, durable>> /\ log' = Append(log, View(txn.root))
           /\ Len(log') = Len(log) + 1
<1>1. /\ OInv /\ AccountInv /\ GuardInv /\ FreshInv /\ HeadInv /\ MetaInv /\ ReaderInv /\ LogInv
  BY DEF SInv
<1>2. OInv'
  BY <1>1, CommitStepOInv
<1>3. /\ txn' = [txn EXCEPT !.pc = "written"] /\ wmutex = w /\ txn.pc = "synced"
      /\ metas' = [metas EXCEPT ![Toggle(txn.id)] = NewMeta]
      /\ log' = Append(log, View(txn.root))
      /\ UNCHANGED <<page, mr_txnid, mti_txnid, owner_dead, rd, faults, returned, durable>>
  BY DEF WriteMeta, lockfile
<1>4. /\ txn \in OpenTxn /\ txn' \in OpenTxn /\ txn'.pc = "written" /\ txn'.id = txn.id
      /\ txn'.root = txn.root /\ txn'.next = txn.next /\ txn'.freedb = txn.freedb
  BY <1>1, <1>3, PcEffect DEF CommitPcs
<1>5. txn.pc \notin BodyPcs /\ txn'.pc \notin BodyPcs /\ txn.pc # "none" /\ txn.pc # "written"
  BY <1>3, <1>4 DEF BodyPcs
<1>6. /\ txn.id = mti_txnid + 1 /\ mti_txnid \in Nat /\ metas \in [0..1 -> Meta] /\ ~owner_dead
      /\ txn.root \in Roots /\ txn.next \in Nat \ {0}
  BY <1>1, <1>3, <1>4, <1>5, OwnerAlive DEF OInv, TxnInv, TypeInv, CommitPcs, OpenTxn
<1>7. PICK nm, t, a : nm = NewMeta /\ t = Toggle(txn.id) /\ a = mti_txnid % 2
  OBVIOUS
<1>8. /\ nm \in Meta /\ nm.txnid = mti_txnid + 1 /\ nm.root = txn.root
      /\ nm.last_pg = txn.next - 1 /\ nm.freedb = txn.freedb
  BY <1>4, <1>6, <1>7, NewMetaType
<1>9. t \in 0..1 /\ a \in 0..1 /\ t # a /\ t = (mti_txnid + 1) % 2 /\ \A i \in 0..1 : i = t \/ i = a
  BY <1>6, <1>7, Parity DEF Toggle
<1>10. /\ metas'[t] = nm /\ metas'[a] = metas[a] /\ metas' \in [0..1 -> Meta]
  BY <1>3, <1>6, <1>7, <1>8, <1>9
<1>11. /\ Newest = metas[a] /\ Newest.txnid = mti_txnid /\ metas[a].txnid = mti_txnid
       /\ \A i \in 0..1 : metas[i].txnid \in Nat /\ metas[i].txnid <= mti_txnid
  BY <1>1, <1>5, <1>6, <1>7, NewestWhileOpen
<1>12. metas'[(mti_txnid + 1) % 2].txnid = mti_txnid + 1 /\ metas'[mti_txnid % 2].txnid = mti_txnid
  BY <1>7, <1>8, <1>9, <1>10, <1>11
<1>13. MetaInv'
  BY <1>3, <1>4, <1>12 DEF MetaInv
<1>14. Newest' = nm
  <2>1. Newest' = IF metas'[0].txnid < metas'[1].txnid THEN metas'[1] ELSE metas'[0]
    BY DEF Newest, Newer
  <2>2. metas'[t].txnid = mti_txnid + 1 /\ metas'[a].txnid = mti_txnid
    BY <1>8, <1>10, <1>11
  <2>3. (t = 0 /\ a = 1) \/ (t = 1 /\ a = 0)
    BY <1>9
  <2> QED BY <1>6, <1>10, <2>1, <2>2, <2>3
<1>15. Saved = txn.freedb /\ Saved' = txn.freedb
  BY <1>4, <1>5 DEF Saved
<1>16. Accounted(txn.root, txn.freedb, txn.next - 1, txn.id)
  BY <1>1, <1>5, <1>15 DEF AccountInv
<1>17. AccountInv'
  <2>1. Accounted(Newest'.root, Newest'.freedb, Newest'.last_pg, Newest'.txnid)
    BY <1>6, <1>8, <1>14, <1>16
  <2>2. Accounted(txn'.root, Saved', txn'.next - 1, txn'.id)
    BY <1>4, <1>15, <1>16
  <2> QED BY <2>1, <2>2 DEF AccountInv
<1>18. /\ \A i \in 0..1 : Guarded(metas[i].root, metas[i].txnid, txn.freedb, txn.next - 1)
       /\ \A r \in Readers : rd[r].pc = "active" => Guarded(rd[r].root, mr_txnid[r], txn.freedb, txn.next - 1)
  BY <1>1, <1>5, <1>15 DEF GuardInv
<1>19. Guarded(nm.root, nm.txnid, txn.freedb, txn.next - 1)
  BY <1>8, <1>16 DEF Accounted, Guarded
<1>20. \A i \in 0..1 : Guarded(metas'[i].root, metas'[i].txnid, txn.freedb, txn.next - 1)
  BY <1>9, <1>10, <1>18, <1>19
<1>21. GuardInv'
  BY <1>3, <1>4, <1>8, <1>14, <1>15, <1>18, <1>20 DEF GuardInv
<1>22. FreshInv' /\ HeadInv'
  BY <1>5 DEF FreshInv, HeadInv
<1>23. ReaderInv'
  <2> SUFFICES ASSUME NEW r \in Readers, rd[r].pc = "checked"
               PROVE  mr_txnid[r] <= metas'[mr_txnid[r] % 2].txnid
    BY <1>1, <1>3 DEF ReaderInv
  <2>1. mr_txnid[r] \in Nat /\ mr_txnid[r] <= mti_txnid /\ mr_txnid[r] % 2 \in 0..1
    BY <1>1, Parity DEF OInv, TypeInv, ScanInv, Settled
  <2>2. CASE mr_txnid[r] % 2 = t
    <3>1. metas'[mr_txnid[r] % 2].txnid = mti_txnid + 1
      BY <1>8, <1>10, <2>2
    <3> QED BY <1>6, <2>1, <3>1
  <2>3. CASE mr_txnid[r] % 2 = a
    <3>1. metas'[mr_txnid[r] % 2].txnid = mti_txnid
      BY <1>10, <1>11, <2>3
    <3> QED BY <2>1, <3>1
  <2> QED BY <1>9, <2>1, <2>2, <2>3
<1>24. View(txn.root) \in Views
  <2>1. PICK l : l = txn.next - 1
    OBVIOUS
  <2>2. l \in Nat /\ (l >= 2 => l < MaxPg) /\ \A k \in Keys : txn.root[k] # NoPage => txn.root[k] \in 2..l
    BY <1>6, <1>16, <2>1 DEF Accounted
  <2> QED BY <1>1, <1>6, <2>2, ViewType DEF LogInv
<1>25. PICK v : v = View(txn.root)
  OBVIOUS
<1>26. log \in Seq(Views) /\ Len(log) = mti_txnid + 1 /\ log' = Append(log, v) /\ v \in Views
  BY <1>1, <1>3, <1>11, <1>24, <1>25 DEF LogInv
<1>27. /\ log' \in Seq(Views) /\ Len(log') = Len(log) + 1 /\ log'[mti_txnid + 2] = v
       /\ \A i \in 1..Len(log) : log'[i] = log[i]
  BY <1>6, <1>26
<1>28. LogInv'
  <2>1. Len(log') = Newest'.txnid + 1
    BY <1>6, <1>8, <1>14, <1>26, <1>27
  <2>2. View(metas[a].root) = log[mti_txnid + 1]
    BY <1>1, <1>9, <1>11 DEF LogInv, Needed
  <2>3. ASSUME NEW i \in 0..1
        PROVE  [k \in Keys |-> IF metas'[i].root[k] = NoPage THEN Blank ELSE page[metas'[i].root[k]]]
                   = log'[metas'[i].txnid + 1]
    <3>1. CASE i = t
      <4>1. metas'[i].root = txn.root /\ metas'[i].txnid + 1 = mti_txnid + 2
        BY <1>6, <1>8, <1>10, <3>1
      <4> QED BY <1>25, <1>27, <4>1 DEF View
    <3>2. CASE i = a
      <4>1. metas'[i] = metas[a] /\ metas[a].txnid + 1 = mti_txnid + 1
        BY <1>10, <1>11, <3>2
      <4>2. log'[mti_txnid + 1] = log[mti_txnid + 1]
        BY <1>6, <1>26, <1>27
      <4> QED BY <2>2, <4>1, <4>2 DEF View
    <3> QED BY <1>9, <3>1, <3>2
  <2>4. ASSUME NEW i \in 0..1 PROVE View(metas[i].root)' = log'[metas'[i].txnid + 1]
    <3>1. View(metas[i].root)' =
              [k \in Keys |-> IF metas'[i].root[k] = NoPage THEN Blank ELSE page'[metas'[i].root[k]]]
      BY DEF View
    <3>2. page' = page
      BY <1>3
    <3> QED BY <2>3, <3>1, <3>2
  <2>5. /\ returned \in Nat /\ returned <= mti_txnid + 1 /\ durable \in Nat /\ durable <= Len(log')
        /\ faults \in Nat /\ page \in [Pages -> Contents]
    <3>1. durable <= Len(log) /\ durable \in Nat
      BY <1>1 DEF LogInv
    <3> QED BY <1>1, <1>6, <1>26, <1>27, <3>1 DEF LogInv
  <2> QED BY <1>3, <1>27, <2>1, <2>4, <2>5 DEF LogInv
<1> QED BY <1>2, <1>3, <1>13, <1>17, <1>21, <1>22, <1>23, <1>27, <1>28 DEF SInv

\* PublishTxn: the id in the lock file catches up with the newest meta page.
LEMMA PublishSInv ==
    ASSUME SInv, NEW w \in Writers, PublishTxn(w)
    PROVE  SInv' /\ UNCHANGED <<page, metas, rd, log, returned, durable>>
<1>1. /\ OInv /\ AccountInv /\ GuardInv /\ FreshInv /\ HeadInv /\ MetaInv /\ ReaderInv /\ LogInv
  BY DEF SInv
<1>2. OInv'
  BY <1>1, CommitStepOInv
<1>3. /\ txn' = [txn EXCEPT !.pc = "done"] /\ wmutex = w /\ txn.pc = "written" /\ mti_txnid' = txn.id
      /\ UNCHANGED <<page, metas, mr_txnid, owner_dead, rd, log, faults, returned, durable>>
  BY DEF PublishTxn, history
<1>4. /\ txn' \in OpenTxn /\ txn'.pc = "done" /\ txn'.id = txn.id
      /\ txn'.root = txn.root /\ txn'.next = txn.next /\ txn'.freedb = txn.freedb
  BY <1>1, <1>3, PcEffect DEF CommitPcs
<1>5. txn.pc \notin BodyPcs /\ txn'.pc \notin BodyPcs /\ txn.pc # "none"
  BY <1>3, <1>4 DEF BodyPcs
<1>6. mti_txnid' = mti_txnid + 1 /\ mti_txnid \in Nat /\ metas[txn.id % 2].txnid = txn.id
  BY <1>1, <1>3 DEF OInv, TxnInv, TypeInv, CommitPcs, Toggle
<1>7. Saved' = Saved
  BY <1>4, <1>5, SavedSame
<1>8. AccountInv' /\ GuardInv'
  BY <1>1, <1>3, <1>4, <1>5, <1>7, KeepAccounts
<1>9. FreshInv' /\ HeadInv'
  BY <1>5 DEF FreshInv, HeadInv
<1>10. MetaInv'
  <2>1. metas[mti_txnid' % 2].txnid = mti_txnid'
    BY <1>3, <1>6
  <2>2. metas[mti_txnid % 2].txnid = mti_txnid /\ (mti_txnid' + 1) % 2 = mti_txnid % 2
    BY <1>1, <1>6, Parity DEF MetaInv
  <2> QED BY <1>3, <1>6, <2>1, <2>2 DEF MetaInv
<1>11. ReaderInv'
  BY <1>1, <1>3 DEF ReaderInv
<1>12. LogInv'
  <2>1. Newest' = Newest
    BY <1>3 DEF Newest
  <2>2. \A i \in 0..1 : View(metas[i].root)' = View(metas[i].root)
    BY <1>3 DEF View
  <2>3. returned \in Nat /\ returned <= mti_txnid' + 1
    BY <1>1, <1>6 DEF LogInv
  <2>4. \A i \in 0..1 : Needed(i)
    <3>1. metas[(mti_txnid + 1) % 2].txnid = mti_txnid + 1
      BY <1>1, <1>3, <1>6 DEF OInv, TxnInv, CommitPcs
    <3>2. /\ metas[(mti_txnid + 1) % 2] = Newest
          /\ \A i \in 0..1 : i = mti_txnid % 2 \/ i = (mti_txnid + 1) % 2
      BY <1>1, <3>1, NewestIs
    <3> QED BY <3>2 DEF Needed
  <2> QED BY <1>1, <1>3, <2>1, <2>2, <2>3, <2>4 DEF LogInv
<1> QED BY <1>2, <1>3, <1>8, <1>9, <1>10, <1>11, <1>12 DEF SInv

\* mdb_mutex_failed: the id in the lock file is that of the newest meta page,
\* and the slots of dead readers are cleared.
LEMMA MutexSInv ==
    ASSUME SInv, MutexFailed
    PROVE  /\ SInv' /\ UNCHANGED <<page, metas, log, returned, durable>>
           /\ rd' = [r \in Readers |-> IF rd[r].pc = "dead" THEN IdleReader ELSE rd[r]]
<1>1. /\ OInv /\ AccountInv /\ GuardInv /\ FreshInv /\ HeadInv /\ MetaInv /\ ReaderInv /\ LogInv
  BY DEF SInv
<1>2. OInv'
  BY <1>1, EnvStepOInv
<1>3. /\ owner_dead /\ owner_dead' = FALSE /\ mti_txnid' = Newest.txnid
      /\ mr_txnid' = [r \in Readers |-> IF rd[r].pc = "dead" THEN NoTxn ELSE mr_txnid[r]]
      /\ rd' = [r \in Readers |-> IF rd[r].pc = "dead" THEN IdleReader ELSE rd[r]]
      /\ UNCHANGED <<page, metas, txn, log, returned, durable, faults>>
  BY DEF MutexFailed, RecoveredId, file, history
<1>4. txn.pc = "none"
  BY <1>1, <1>3 DEF OInv, TxnInv
<1>5. IdleReader.pc = "idle" /\ rd \in [Readers -> ReaderRecord] /\ mti_txnid \in Nat
  BY <1>1 DEF IdleReader, OInv, TypeInv
<1>6. \A r \in Readers : rd'[r].pc = "idle" \/ (rd'[r] = rd[r] /\ mr_txnid'[r] = mr_txnid[r])
  BY <1>3, <1>5
<1>7. AccountInv' /\ GuardInv'
  <2>1. \A r \in Readers : rd'[r].pc = "active" =>
             rd[r].pc = "active" /\ rd'[r].root = rd[r].root /\ mr_txnid'[r] = mr_txnid[r]
    BY <1>6
  <2> QED BY <1>1, <1>3, <1>4, <2>1, KeepAccounts
<1>8. FreshInv' /\ HeadInv'
  BY <1>3, <1>4 DEF FreshInv, HeadInv, BodyPcs
<1>9. mti_txnid' = mti_txnid \/ mti_txnid' = mti_txnid + 1
  BY <1>1, <1>3, NewestIs
<1>10. MetaInv'
  <2>1. PICK a, b, n : a = mti_txnid % 2 /\ b = (mti_txnid + 1) % 2 /\ n = mti_txnid
    OBVIOUS
  <2>2. /\ metas[a].txnid = n
        /\ \/ metas[b].txnid = n + 1
           \/ metas[b].txnid + 1 = n
           \/ metas[b].txnid = 0 /\ n = 0
    BY <1>1, <2>1 DEF MetaInv
  <2>3. CASE metas[b].txnid = n + 1
    <3>1. mti_txnid' = n + 1
      BY <1>1, <1>3, <2>1, <2>3, NewestIs
    <3>2. mti_txnid' % 2 = b /\ (mti_txnid' + 1) % 2 = a
      BY <1>5, <2>1, <3>1, Parity
    <3> QED BY <1>3, <2>2, <2>3, <3>1, <3>2 DEF MetaInv
  <2>4. CASE metas[b].txnid # n + 1
    <3>1. mti_txnid' = n
      BY <1>1, <1>3, <2>1, <2>4, NewestIs
    <3>2. mti_txnid' % 2 = a /\ (mti_txnid' + 1) % 2 = b
      BY <2>1, <3>1
    <3> QED BY <1>3, <2>2, <2>4, <3>1, <3>2 DEF MetaInv
  <2> QED BY <2>3, <2>4
<1>11. ReaderInv'
  BY <1>1, <1>3, <1>6 DEF ReaderInv
<1>12. LogInv'
  <2>1. Newest' = Newest
    BY <1>3 DEF Newest
  <2>2. \A i \in 0..1 : View(metas[i].root)' = View(metas[i].root)
    BY <1>3 DEF View
  <2>3. returned \in Nat /\ returned <= mti_txnid' + 1
    BY <1>1, <1>5, <1>9 DEF LogInv
  <2>4. ASSUME NEW i \in 0..1, Needed(i)' PROVE Needed(i)
    <3>1. CASE i = mti_txnid' % 2
      <4>1. metas[i] = Newest
        BY <1>1, <1>3, <3>1, NewestIs
      <4> QED BY <4>1 DEF Needed
    <3>2. CASE \E r \in Readers : rd'[r].pc = "checked" /\ i = mr_txnid'[r] % 2
      BY <1>6, <3>2 DEF Needed
    <3> QED BY <1>3, <2>1, <2>4, <3>1, <3>2 DEF Needed
  <2> QED BY <1>1, <1>3, <2>1, <2>2, <2>3, <2>4 DEF LogInv
<1> QED BY <1>2, <1>3, <1>7, <1>8, <1>10, <1>11, <1>12 DEF SInv

\* The invariant holds at first.
LEMMA InitSInv ==
    ASSUME Init
    PROVE  SInv
<1> USE ConstantsAssumption
<1>1. OInv
  BY InitOInv
<1>2. /\ FirstMeta.txnid = 0 /\ FirstMeta.last_pg = 1 /\ FirstMeta.freedb = {}
      /\ FirstMeta.root = [k \in Keys |-> NoPage]
  BY DEF FirstMeta
<1>3. PICK fm : fm = FirstMeta
  OBVIOUS
<1>4. /\ metas[0] = fm /\ metas[1] = fm /\ txn.pc = "none" /\ mti_txnid = 0
      /\ \A i \in 0..1 : metas[i] = fm
  BY <1>3 DEF Init, Idle
<1>5. Newest = fm
  BY <1>4 DEF Newest, Newer
<1>6. /\ fm.txnid = 0 /\ fm.last_pg = 1 /\ fm.freedb = {} /\ \A k \in Keys : fm.root[k] = NoPage
  BY <1>2, <1>3
<1>7. \A r \in Readers : rd[r].pc = "idle"
  BY DEF Init, IdleReader
<1>8. Accounted(fm.root, fm.freedb, fm.last_pg, fm.txnid)
  BY <1>6 DEF Accounted
<1>9. AccountInv
  BY <1>4, <1>5, <1>8 DEF AccountInv
<1>10. Guarded(fm.root, fm.txnid, fm.freedb, fm.last_pg)
  BY <1>6 DEF Guarded
<1>11. GuardInv
  BY <1>4, <1>5, <1>7, <1>10 DEF GuardInv
<1>12. FreshInv /\ HeadInv
  BY <1>4 DEF FreshInv, HeadInv, BodyPcs
<1>13. MetaInv
  BY <1>4, <1>6 DEF MetaInv
<1>14. ReaderInv
  BY <1>7 DEF ReaderInv
<1>15. View(fm.root) = [k \in Keys |-> Blank]
  BY <1>6 DEF View
<1>16. log = <<[k \in Keys |-> Blank]>>
  BY <1>3, <1>15 DEF Init
<1>17. log \in Seq(Views) /\ Len(log) = 1 /\ log[1] = [k \in Keys |-> Blank]
  <2>1. [k \in Keys |-> Blank] \in Views
    BY DEF Views, Contents
  <2> QED BY <1>16, <2>1
<1>18. page \in [Pages -> Contents] /\ faults \in Nat /\ returned = 1 /\ durable = 1
  BY DEF Init, Contents
<1>19. LogInv
  BY <1>4, <1>5, <1>6, <1>15, <1>17, <1>18 DEF LogInv
<1> QED BY <1>1, <1>9, <1>11, <1>12, <1>13, <1>14, <1>19 DEF SInv

\* Every step preserves the invariant, unless the machine stops or the write of
\* a meta page fails.
LEMMA StepSInv ==
    ASSUME ~MetaWriteCanFail, SInv, [Next]_vars, ~Crash
    PROVE  SInv'
<1>1. CASE UNCHANGED vars
  <2>1. UNCHANGED <<page, metas, rd, mr_txnid, mti_txnid, log, txn, owner_dead, faults, returned, durable>>
    BY <1>1 DEF vars, file, lockfile, history
  <2>2. OInv'
    <3>1. UNCHANGED <<metas, metaDisk, wmutex, owner_dead, mti_txnid, mr_txnid, rd, txn, me_pgoldest>>
      BY <1>1 DEF vars, file, lockfile
    <3> QED BY <3>1 DEF SInv, OInv, TypeInv, TxnInv, NotAhead, ScanInv, Settled, OldestIsOld
  <2>3. /\ faults \in Nat /\ returned \in Nat /\ returned <= mti_txnid + 1
        /\ durable \in Nat /\ durable <= Len(log)
    BY DEF SInv, LogInv
  <2> QED BY <2>1, <2>2, <2>3, QuietSInv
<1>2. CASE \E r \in Readers : ReaderNext(r)
  BY <1>2, ReaderSInv
<1>3. ASSUME NEW w \in Writers, WriterNext(w) PROVE SInv'
  <2>1. CASE AllocNew(w)
    BY <2>1, SearchSInv, PlaceSInv
  <2>2. CASE \E m \in Modes : Flush(w, m)
    BY <2>2, FlushSInv
  <2>3. CASE WriteMetaFails(w)
    BY <2>3 DEF WriteMetaFails
  <2>4. CASE AllocFetch(w) \/ FindOldest(w) \/ OldestFound(w)
    BY <2>4, SearchSInv
  <2>5. CASE (\E k \in Keys : Touch(w, k)) \/ (\E r \in Readers : ScanReader(w, r))
    BY <2>5, SearchSInv
  <2>6. CASE SyncData(w) \/ AbortWrite(w) \/ CommitFails(w) \/ CommitReturns(w) \/ WriterDies(w)
    BY <2>6, QuietStepsSInv
  <2>7. CASE AllocReuse(w)
    <3>1. AllocReuse(w) \/ (AllocNew(w) /\ txn'.pc # "error")
      BY <2>7
    <3> QED BY <3>1, PlaceSInv
  <2>8. CASE BeginWrite(w)
    BY <2>8, BeginSInv
  <2>9. CASE WriteMeta(w) \/ PublishTxn(w)
    BY <2>9, WriteMetaSInv, PublishSInv
  <2> QED BY <1>3, <2>1, <2>2, <2>3, <2>4, <2>5, <2>6, <2>7, <2>8, <2>9 DEF WriterNext
<1>4. CASE EnvSync \/ MutexFailed
  BY <1>4, QuietStepsSInv, MutexSInv
<1> QED BY <1>1, <1>2, <1>3, <1>4 DEF Next

-----------------------------------------------------------------------------
(* What the disk may hold when the machine stops. *)

\* The ids of two meta pages: of consecutive commits, each in its place, or of
\* a new environment.
Consecutive(m0, m1) ==
    \/ m0.txnid = 0 /\ m1.txnid = 0
    \/ m0.txnid % 2 = 0 /\ m1.txnid = m0.txnid + 1
    \/ m1.txnid % 2 = 1 /\ m0.txnid = m1.txnid + 1

\* Every page of a meta page is on disk as it was committed.
Whole(m) == \A k \in Keys : IF m.root[k] = NoPage THEN log[m.txnid + 1][k] = Blank
                            ELSE pageDisk[m.root[k]] = {log[m.txnid + 1][k]}

\* Two meta pages the disk may have: the newer one is one of those the processes
\* see, is whole, no older than what was promised, and accounts for its pages;
\* both are safe from what the next transaction reuses.
Recoverable(m0, m1) ==
    LET m == Newer(m0, m1)
    IN  /\ Consecutive(m0, m1)
        /\ m = metas[0] \/ m = metas[1]
        /\ m.txnid + 1 \in durable..Len(log)
        /\ Accounted(m.root, m.freedb, m.last_pg, m.txnid)
        /\ Guarded(m0.root, m0.txnid, m.freedb, m.last_pg)
        /\ Guarded(m1.root, m1.txnid, m.freedb, m.last_pg)
        /\ Whole(m)

DiskInv == ~unsynced => \A m0 \in metaDisk[0], m1 \in metaDisk[1] : Recoverable(m0, m1)

\* What has reached the disk at each stage of a commit that syncs.
SyncedInv ==
    /\ fatal = {}
    /\ pageDisk \in [Pages -> SUBSET Contents]
    /\ \A i \in 0..1 : metas[i] \in metaDisk[i]
    /\ txn.pc \in {"synced", "written"} /\ txn.mode # "nosync" =>
           ~unsynced /\ \A p \in Pages : pageDisk[p] = {page[p]}
    /\ txn.pc = "synced" /\ txn.mode # "nosync" => \A i \in 0..1 : metaDisk[i] = {metas[i]}
    /\ txn.pc = "written" /\ txn.mode = "sync" =>
           \A i \in 0..1 : i # Toggle(txn.id) => metaDisk[i] = {metas[i]}
    /\ txn.pc = "done" /\ txn.mode = "sync" =>
           ~unsynced /\ \A i \in 0..1 : metaDisk[i] = {metas[i]}

\* The inductive invariant with crashes.
CInv == SInv /\ DiskInv /\ SyncedInv

\* The two meta pages that the processes see, together.
Seen ==
    /\ Consecutive(metas[0], metas[1])
    /\ Newest \in Meta /\ (Newest = metas[0] \/ Newest = metas[1]) /\ Newest.txnid + 1 = Len(log)
    /\ Accounted(Newest.root, Newest.freedb, Newest.last_pg, Newest.txnid)
    /\ Guarded(metas[0].root, metas[0].txnid, Newest.freedb, Newest.last_pg)
    /\ Guarded(metas[1].root, metas[1].txnid, Newest.freedb, Newest.last_pg)
    /\ \A k \in Keys : IF Newest.root[k] = NoPage THEN log[Newest.txnid + 1][k] = Blank
                       ELSE /\ Newest.root[k] \in Pages
                            /\ page[Newest.root[k]] = log[Newest.txnid + 1][k]

\* They are of consecutive commits, the newer one is whole and accounts for its
\* pages, and both are safe from what is reused next.
LEMMA MetasSeen == SInv => Seen
<1> SUFFICES ASSUME SInv PROVE Seen
  OBVIOUS
<1>1. OInv /\ AccountInv /\ GuardInv /\ MetaInv /\ LogInv
  BY DEF SInv
<1>2. mti_txnid \in Nat /\ metas \in [0..1 -> Meta]
  BY <1>1 DEF OInv, TypeInv
<1>3. Newest \in Meta /\ (Newest = metas[0] \/ Newest = metas[1]) /\ Newest.txnid + 1 = Len(log)
  BY <1>1, <1>2, NewestIsOne DEF LogInv
<1>4. Consecutive(metas[0], metas[1])
  <2>1. PICK n, a, b : n = mti_txnid /\ a = metas[0].txnid /\ b = metas[1].txnid
    OBVIOUS
  <2>2. a \in Nat /\ b \in Nat /\ n \in Nat
    BY <1>2, <2>1 DEF Meta
  <2>3. \/ /\ n % 2 = 0 /\ a = n
           /\ b = n + 1 \/ b + 1 = n \/ (b = 0 /\ n = 0)
        \/ /\ n % 2 = 1 /\ b = n
           /\ a = n + 1 \/ a + 1 = n \/ (a = 0 /\ n = 0)
    <3>1. (n % 2 = 0 /\ (n + 1) % 2 = 1) \/ (n % 2 = 1 /\ (n + 1) % 2 = 0)
      BY <2>2, Parity
    <3>2. /\ metas[n % 2].txnid = n
          /\ \/ metas[(n + 1) % 2].txnid = n + 1 \/ metas[(n + 1) % 2].txnid + 1 = n
             \/ metas[(n + 1) % 2].txnid = 0 /\ n = 0
      BY <1>1, <2>1 DEF MetaInv
    <3>3. CASE n % 2 = 0 /\ (n + 1) % 2 = 1
      BY <2>1, <3>2, <3>3
    <3>4. CASE n % 2 = 1 /\ (n + 1) % 2 = 0
      BY <2>1, <3>2, <3>4
    <3> QED BY <3>1, <3>3, <3>4
  <2>4. (a = 0 /\ b = 0) \/ (a % 2 = 0 /\ b = a + 1) \/ (b % 2 = 1 /\ a = b + 1)
    <3>1. (a + 1) % 2 = 1 - (a % 2) /\ (b + 1) % 2 = 1 - (b % 2) /\ a % 2 \in 0..1 /\ b % 2 \in 0..1
      BY <2>2, Parity
    <3>2. CASE n % 2 = 0 /\ a = n
      <4>1. CASE b = n + 1
        BY <3>2, <4>1
      <4>2. CASE b + 1 = n
        BY <2>2, <3>1, <3>2, <4>2
      <4>3. CASE b = 0 /\ n = 0
        BY <3>2, <4>3
      <4> QED BY <2>2, <2>3, <3>2, <4>1, <4>2, <4>3
    <3>3. CASE n % 2 = 1 /\ b = n
      <4>1. CASE a = n + 1
        BY <3>3, <4>1
      <4>2. CASE a + 1 = n
        BY <2>2, <3>1, <3>3, <4>2
      <4>3. CASE a = 0 /\ n = 0
        BY <3>3, <4>3
      <4> QED BY <2>2, <2>3, <3>3, <4>1, <4>2, <4>3
    <3> QED BY <2>3, <3>2, <3>3
  <2> QED BY <2>1, <2>4 DEF Consecutive
<1>5. /\ Accounted(Newest.root, Newest.freedb, Newest.last_pg, Newest.txnid)
      /\ Guarded(metas[0].root, metas[0].txnid, Newest.freedb, Newest.last_pg)
      /\ Guarded(metas[1].root, metas[1].txnid, Newest.freedb, Newest.last_pg)
  BY <1>1 DEF AccountInv, GuardInv
<1>6. View(Newest.root) = log[Newest.txnid + 1]
  BY <1>1, <1>3 DEF LogInv, Needed
<1>7. ASSUME NEW k \in Keys
      PROVE  IF Newest.root[k] = NoPage THEN log[Newest.txnid + 1][k] = Blank
             ELSE /\ Newest.root[k] \in Pages
                  /\ page[Newest.root[k]] = log[Newest.txnid + 1][k]
  <2>1. View(Newest.root)[k] = IF Newest.root[k] = NoPage THEN Blank ELSE page[Newest.root[k]]
    BY DEF View
  <2>2. ASSUME Newest.root[k] # NoPage PROVE Newest.root[k] \in Pages
    <3>1. PICK last : last = Newest.last_pg
      OBVIOUS
    <3>2. Newest.root[k] \in 2..last /\ (last >= 2 => last < MaxPg) /\ last \in Nat /\ MaxPg \in Nat
      BY <1>3, <1>5, <2>2, <3>1, ConstantsAssumption DEF Accounted, Meta
    <3> QED BY <3>2 DEF Pages
  <2> QED BY <1>6, <2>1, <2>2
<1> QED BY <1>3, <1>4, <1>5, <1>7 DEF Seen

\* After a step as well.
LEMMA MetasSeenNext == SInv' => Seen'
BY MetasSeen, PTL

\* fdatasync: from then on there is one thing the disk may hold.
LEMMA SyncDisk ==
    ASSUME SInv, SyncedInv, SyncFile
    PROVE  /\ DiskInv' /\ pageDisk' \in [Pages -> SUBSET Contents]
           /\ ~unsynced' /\ \A p \in Pages : pageDisk'[p] = {page'[p]}
           /\ \A i \in 0..1 : metaDisk'[i] = {metas'[i]}
<1>1. /\ pageDisk' = [p \in Pages |-> {page[p]}] /\ metaDisk' = [i \in 0..1 |-> {metas[i]}]
      /\ unsynced' = FALSE /\ durable' = Newest.txnid + 1 /\ UNCHANGED <<page, metas, log>>
  BY DEF SyncFile
<1>2. page \in [Pages -> Contents]
  BY DEF SInv, LogInv
<1>3. /\ pageDisk' \in [Pages -> SUBSET Contents] /\ \A p \in Pages : pageDisk'[p] = {page'[p]}
      /\ \A i \in 0..1 : metaDisk'[i] = {metas'[i]}
  BY <1>1, <1>2
<1>4. PICK n : n = Newest
  OBVIOUS
<1>5. /\ Consecutive(metas[0], metas[1]) /\ n \in Meta /\ (n = metas[0] \/ n = metas[1])
      /\ n.txnid + 1 = Len(log) /\ n = Newer(metas[0], metas[1])
      /\ Accounted(n.root, n.freedb, n.last_pg, n.txnid)
      /\ Guarded(metas[0].root, metas[0].txnid, n.freedb, n.last_pg)
      /\ Guarded(metas[1].root, metas[1].txnid, n.freedb, n.last_pg)
      /\ \A k \in Keys : IF n.root[k] = NoPage THEN log[n.txnid + 1][k] = Blank
                         ELSE /\ n.root[k] \in Pages /\ page[n.root[k]] = log[n.txnid + 1][k]
  BY <1>4, MetasSeen DEF Seen, Newest
<1>6. n.txnid + 1 \in durable'..Len(log)
  <2>1. n.txnid \in Nat
    BY <1>5 DEF Meta
  <2> QED BY <1>1, <1>4, <1>5, <2>1
<1>7. \A k \in Keys : IF n.root[k] = NoPage THEN log[n.txnid + 1][k] = Blank
                      ELSE pageDisk'[n.root[k]] = {log[n.txnid + 1][k]}
  BY <1>1, <1>3, <1>5
<1>8. \A m0 \in metaDisk'[0], m1 \in metaDisk'[1] : m0 = metas[0] /\ m1 = metas[1]
  BY <1>1
<1>9. ASSUME NEW m0 \in metaDisk'[0], NEW m1 \in metaDisk'[1] PROVE Recoverable(m0, m1)'
  <2>1. m0 = metas[0] /\ m1 = metas[1] /\ Newer(m0, m1) = n
    BY <1>5, <1>8
  <2>2. Whole(n)'
    BY <1>1, <1>7 DEF Whole
  <2>3. /\ Consecutive(m0, m1) /\ (n = metas'[0] \/ n = metas'[1])
        /\ n.txnid + 1 \in durable'..Len(log')
        /\ Guarded(m0.root, m0.txnid, n.freedb, n.last_pg)
        /\ Guarded(m1.root, m1.txnid, n.freedb, n.last_pg)
    BY <1>1, <1>5, <1>6, <2>1
  <2> QED BY <1>5, <2>1, <2>2, <2>3 DEF Recoverable
<1> QED BY <1>1, <1>3, <1>9 DEF DiskInv

\* Steps that leave the file and the history alone, as far as a crash goes.
LEMMA DiskSame ==
    ASSUME DiskInv, UNCHANGED <<metas, metaDisk, pageDisk, unsynced, log, durable>>
    PROVE  DiskInv'
BY DEF DiskInv, Recoverable, Whole

\* Writing the dirty pages harms nothing that the disk may come back with: they
\* belong to none of the meta pages.
LEMMA FlushDisk ==
    ASSUME CInv, NEW w \in Writers, NEW m \in Modes, Flush(w, m)
    PROVE  DiskInv' /\ pageDisk' \in [Pages -> SUBSET Contents]
<1>1. OInv /\ FreshInv /\ LogInv
  BY DEF CInv, SInv
<1>2. /\ txn \in OpenTxn /\ txn.pc = "body" /\ UNCHANGED <<metas, metaDisk, unsynced, log, durable>>
  BY <1>1, FlushEffect DEF history
<1>3. txn.dirty \subseteq Keys /\ txn.id \in Nat /\ faults \in Nat /\ pageDisk \in [Pages -> SUBSET Contents]
  BY <1>1, <1>2 DEF OpenTxn, LogInv, CInv, SyncedInv
<1> DEFINE D == {txn.root[k] : k \in txn.dirty}
           c(p) == <<CHOOSE k \in txn.dirty : txn.root[k] = p, faults, txn.id>>
           written == [p \in D |-> c(p)]
<1>4. pageDisk' = [p \in Pages |-> IF p \in DOMAIN written THEN pageDisk[p] \cup {written[p]} ELSE pageDisk[p]]
  BY DEF Flush
<1>5. ASSUME NEW p \in D PROVE c(p) \in Contents
  <2>1. \E k \in txn.dirty : txn.root[k] = p
    OBVIOUS
  <2>2. (CHOOSE k \in txn.dirty : txn.root[k] = p) \in Keys
    BY <1>3, <2>1
  <2> QED BY <1>3, <2>2 DEF Contents
<1>6. DOMAIN written = D /\ \A p \in D : written[p] \in Contents
  BY <1>5
<1> HIDE DEF written, c
<1>7. \A p \in Pages : (\A k \in txn.dirty : txn.root[k] # p) => pageDisk'[p] = pageDisk[p]
  BY <1>4, <1>6
<1>8. pageDisk' \in [Pages -> SUBSET Contents]
  <2>1. ASSUME NEW p \in Pages
        PROVE  (IF p \in DOMAIN written THEN pageDisk[p] \cup {written[p]} ELSE pageDisk[p]) \in SUBSET Contents
    BY <1>3, <1>6
  <2> QED BY <1>4, <2>1
<1>9. ASSUME ~unsynced, NEW m0 \in metaDisk[0], NEW m1 \in metaDisk[1] PROVE Recoverable(m0, m1)'
  <2>1. PICK n : n = Newer(m0, m1)
    OBVIOUS
  <2>2. Recoverable(m0, m1)
    BY <1>9 DEF CInv, DiskInv
  <2>3. /\ n = metas[0] \/ n = metas[1]
        /\ Accounted(n.root, n.freedb, n.last_pg, n.txnid) /\ Whole(n) /\ n \in Meta
    BY <1>1, <2>1, <2>2 DEF Recoverable, OInv, TypeInv
  <2>4. Disjoint(n.root, txn.root, txn.dirty)
    BY <1>1, <1>2, <2>3 DEF FreshInv, BodyPcs
  <2>5. ASSUME NEW k \in Keys, n.root[k] # NoPage PROVE pageDisk'[n.root[k]] = pageDisk[n.root[k]]
    <3>1. PICK last : last = n.last_pg
      OBVIOUS
    <3>2. n.root[k] \in 2..last /\ (last >= 2 => last < MaxPg) /\ last \in Nat /\ MaxPg \in Nat
      BY <2>3, <2>5, <3>1, ConstantsAssumption DEF Accounted, Meta
    <3>3. n.root[k] \in Pages
      BY <3>2 DEF Pages
    <3>4. \A j \in txn.dirty : txn.root[j] # n.root[k]
      BY <2>4 DEF Disjoint
    <3> QED BY <1>7, <3>3, <3>4
  <2>6. \A k \in Keys : IF n.root[k] = NoPage THEN log[n.txnid + 1][k] = Blank
                        ELSE pageDisk'[n.root[k]] = {log[n.txnid + 1][k]}
    BY <2>3, <2>5 DEF Whole
  <2> QED BY <1>2, <2>1, <2>2, <2>6 DEF Recoverable, Whole
<1> QED BY <1>2, <1>8, <1>9 DEF DiskInv

\* WriteMeta: the disk may come back with the new meta page or without it, and
\* either way the newer one is whole.
LEMMA WriteMetaDisk ==
    ASSUME CInv, NEW w \in Writers, WriteMeta(w)
    PROVE  DiskInv' /\ SyncedInv'
<1>1. SInv /\ OInv /\ MetaInv /\ LogInv /\ SyncedInv
  BY DEF CInv, SInv
<1>2. Seen /\ Seen' /\ Len(log') = Len(log) + 1 /\ log' = Append(log, View(txn.root))
  BY <1>1, WriteMetaSInv, MetasSeen, MetasSeenNext
<1>3. PICK nm, t, a : nm = NewMeta /\ t = Toggle(txn.id) /\ a = mti_txnid % 2
  OBVIOUS
<1>4. /\ txn' = [txn EXCEPT !.pc = "written"] /\ wmutex = w /\ txn.pc = "synced"
      /\ metas' = [metas EXCEPT ![t] = nm] /\ metaDisk' = [metaDisk EXCEPT ![t] = @ \cup {nm}]
      /\ unsynced' = (unsynced \/ txn.mode = "nosync")
      /\ UNCHANGED <<page, pageDisk, mti_txnid, fatal, durable>>
  BY <1>3 DEF WriteMeta, lockfile
<1>5. txn \in OpenTxn /\ txn'.pc = "written" /\ txn'.id = txn.id /\ txn'.mode = txn.mode
  <2>1. txn \in OpenTxn
    BY <1>1, <1>4, OwnerHasTxn
  <2> QED BY <1>4, <2>1 DEF OpenTxn
<1>6. txn.id = mti_txnid + 1 /\ mti_txnid \in Nat /\ metas \in [0..1 -> Meta] /\ DOMAIN metaDisk = 0..1
  BY <1>1, <1>4 DEF OInv, TxnInv, TypeInv, CommitPcs
<1>7. t \in 0..1 /\ a \in 0..1 /\ t # a /\ \A i \in 0..1 : i = t \/ i = a
  BY <1>3, <1>6, Parity DEF Toggle
<1>8. ~owner_dead
  BY <1>1, <1>4, OwnerAlive
<1>9. Newest = metas[a]
  BY <1>1, <1>3, <1>4, <1>8, NewestWhileOpen
<1>10. /\ metas'[t] = nm /\ metas'[a] = metas[a] /\ metaDisk'[t] = metaDisk[t] \cup {nm}
       /\ metaDisk'[a] = metaDisk[a]
  BY <1>4, <1>6, <1>7
<1>11. SyncedInv'
  <2>1. /\ fatal' = {} /\ pageDisk' \in [Pages -> SUBSET Contents]
        /\ \A i \in 0..1 : metas'[i] \in metaDisk'[i]
        /\ txn.mode # "nosync" => /\ ~unsynced' /\ \A p \in Pages : pageDisk'[p] = {page'[p]}
                                  /\ metaDisk'[a] = {metas'[a]}
    BY <1>1, <1>4, <1>7, <1>10 DEF SyncedInv
  <2>2. ASSUME txn.mode = "sync", NEW i \in 0..1, i # Toggle(txn'.id) PROVE metaDisk'[i] = {metas'[i]}
    BY <1>3, <1>5, <1>7, <2>1, <2>2
  <2> QED BY <1>5, <2>1, <2>2 DEF SyncedInv
<1>12. ASSUME ~unsynced', NEW m0 \in metaDisk'[0], NEW m1 \in metaDisk'[1] PROVE Recoverable(m0, m1)'
  <2>1. /\ txn.mode # "nosync" /\ ~unsynced /\ \A i \in 0..1 : metaDisk[i] = {metas[i]}
        /\ \A p \in Pages : pageDisk'[p] = {page[p]}
    BY <1>1, <1>4, <1>12 DEF SyncedInv
  <2>2. (m0 = metas[0] /\ m1 = metas[1]) \/ (m0 = metas'[0] /\ m1 = metas'[1])
    <3>1. CASE t = 0
      <4>1. a = 1
        BY <1>7, <3>1
      <4>2. m1 = metas[1] /\ m1 = metas'[1] /\ (m0 = metas[0] \/ m0 = metas'[0])
        BY <1>10, <2>1, <3>1, <4>1
      <4> QED BY <4>2
    <3>2. CASE t = 1
      <4>1. a = 0
        BY <1>7, <3>2
      <4>2. m0 = metas[0] /\ m0 = metas'[0] /\ (m1 = metas[1] \/ m1 = metas'[1])
        BY <1>10, <2>1, <3>2, <4>1
      <4> QED BY <4>2
    <3> QED BY <1>7, <3>1, <3>2
  <2>3. CASE m0 = metas[0] /\ m1 = metas[1]
    <3>1. Recoverable(metas[0], metas[1])
      BY <2>1 DEF CInv, DiskInv
    <3>2. PICK n : n = Newest
      OBVIOUS
    <3>3. n = Newer(m0, m1) /\ n = metas[a] /\ n = metas'[a] /\ n \in Meta /\ n.txnid + 1 = Len(log)
      BY <1>2, <1>9, <1>10, <2>3, <3>2 DEF Newest, Seen
    <3>4. n = metas'[0] \/ n = metas'[1]
      BY <1>7, <3>3
    <3>5. n.txnid \in Nat /\ durable \in Nat /\ Len(log) \in Nat
      BY <1>1, <3>3 DEF Meta, LogInv
    <3>6. n.txnid + 1 \in durable'..Len(log')
      BY <1>1, <1>2, <1>4, <3>3, <3>5 DEF LogInv
    <3>7. log'[n.txnid + 1] = log[n.txnid + 1]
      <4>1. PICK v : v = View(txn.root)
        OBVIOUS
      <4>2. log \in Seq(Views) /\ log' = Append(log, v)
        BY <1>1, <1>2, <4>1 DEF LogInv
      <4> QED BY <3>3, <3>5, <4>2
    <3>8. Whole(n) /\ Accounted(n.root, n.freedb, n.last_pg, n.txnid) /\ Consecutive(m0, m1)
          /\ Guarded(m0.root, m0.txnid, n.freedb, n.last_pg) /\ Guarded(m1.root, m1.txnid, n.freedb, n.last_pg)
      BY <2>3, <3>1, <3>3 DEF Recoverable
    <3>9. \A k \in Keys : IF n.root[k] = NoPage THEN log'[n.txnid + 1][k] = Blank
                          ELSE pageDisk'[n.root[k]] = {log'[n.txnid + 1][k]}
      BY <1>4, <3>7, <3>8 DEF Whole
    <3> QED BY <3>3, <3>4, <3>6, <3>8, <3>9 DEF Recoverable, Whole
  <2>4. CASE m0 = metas'[0] /\ m1 = metas'[1]
    <3>1. PICK n : n = Newest'
      OBVIOUS
    <3>2. /\ n = Newer(m0, m1) /\ n \in Meta /\ (n = metas'[0] \/ n = metas'[1]) /\ n.txnid + 1 = Len(log')
          /\ Consecutive(m0, m1) /\ Accounted(n.root, n.freedb, n.last_pg, n.txnid)
          /\ Guarded(m0.root, m0.txnid, n.freedb, n.last_pg)
          /\ Guarded(m1.root, m1.txnid, n.freedb, n.last_pg)
          /\ \A k \in Keys : IF n.root[k] = NoPage THEN log'[n.txnid + 1][k] = Blank
                             ELSE n.root[k] \in Pages /\ page'[n.root[k]] = log'[n.txnid + 1][k]
      BY <1>2, <2>4, <3>1 DEF Seen, Newest
    <3>3. \A k \in Keys : IF n.root[k] = NoPage THEN log'[n.txnid + 1][k] = Blank
                          ELSE pageDisk'[n.root[k]] = {log'[n.txnid + 1][k]}
      BY <1>4, <2>1, <3>2
    <3>4. n.txnid + 1 \in durable'..Len(log')
      <4>1. durable \in Nat /\ durable <= Len(log) /\ Len(log) \in Nat
        BY <1>1 DEF LogInv
      <4> QED BY <1>2, <1>4, <3>2, <4>1
    <3> QED BY <3>2, <3>3, <3>4 DEF Recoverable, Whole
  <2> QED BY <2>2, <2>3, <2>4
<1> QED BY <1>11, <1>12 DEF DiskInv

\* PublishTxn: a commit that syncs its meta page has one thing on disk.
LEMMA PublishDisk ==
    ASSUME CInv, NEW w \in Writers, PublishTxn(w)
    PROVE  DiskInv' /\ SyncedInv'
<1>1. OInv /\ SyncedInv /\ DiskInv
  BY DEF CInv, SInv
<1>2. /\ txn' = [txn EXCEPT !.pc = "done"] /\ wmutex = w /\ txn.pc = "written"
      /\ UNCHANGED <<page, metas, pageDisk, fatal, unsynced, log, durable>>
      /\ metaDisk' = IF txn.mode = "sync"
                     THEN [metaDisk EXCEPT ![Toggle(txn.id)] = {metas[Toggle(txn.id)]}] ELSE metaDisk
  BY DEF PublishTxn, history
<1>3. txn \in OpenTxn /\ txn'.pc = "done" /\ txn'.id = txn.id /\ txn'.mode = txn.mode
  <2>1. txn \in OpenTxn
    BY <1>1, <1>2, OwnerHasTxn
  <2> QED BY <1>2, <2>1 DEF OpenTxn
<1>4. PICK t : t = Toggle(txn.id)
  OBVIOUS
<1>5. DOMAIN metaDisk = 0..1 /\ metas[t].txnid = txn.id
  BY <1>1, <1>2, <1>4 DEF OInv, TypeInv, TxnInv
<1>6. txn.mode = "sync" => /\ ~unsynced /\ \A i \in 0..1 : i # t => metaDisk[i] = {metas[i]}
                           /\ \A i \in 0..1 : metaDisk'[i] = {metas[i]}
  BY <1>1, <1>2, <1>4, <1>5 DEF SyncedInv
<1>7. SyncedInv'
  <2>1. \A i \in 0..1 : metas[i] \in metaDisk'[i]
    BY <1>1, <1>2, <1>6 DEF SyncedInv
  <2> QED BY <1>1, <1>2, <1>3, <1>6, <2>1 DEF SyncedInv
<1>8. ASSUME ~unsynced, NEW m0 \in metaDisk'[0], NEW m1 \in metaDisk'[1] PROVE Recoverable(m0, m1)'
  <2>1. m0 \in metaDisk[0] /\ m1 \in metaDisk[1]
    BY <1>1, <1>2, <1>6 DEF SyncedInv
  <2>2. Recoverable(m0, m1)
    BY <1>1, <1>8, <2>1 DEF DiskInv
  <2> QED BY <1>2, <2>2 DEF Recoverable, Whole
<1> QED BY <1>2, <1>7, <1>8 DEF DiskInv

\* Steps that leave the file alone and end, or do not reach, the commit.
LEMMA SyncedSame ==
    ASSUME SyncedInv, UNCHANGED <<page, metas, pageDisk, metaDisk, unsynced, fatal>>,
           UNCHANGED txn \/ txn'.pc \notin {"synced", "written", "done"}
    PROVE  SyncedInv'
<1>1. CASE UNCHANGED txn
  BY <1>1 DEF SyncedInv
<1>2. CASE txn'.pc \notin {"synced", "written", "done"}
  BY <1>2 DEF SyncedInv
<1> QED BY <1>1, <1>2

\* A synced commit returns: whatever the disk comes back with has it.
LEMMA ReturnDisk ==
    ASSUME CInv, NEW w \in Writers, CommitReturns(w)
    PROVE  DiskInv' /\ SyncedInv'
<1>1. SInv /\ LogInv /\ SyncedInv /\ DiskInv
  BY DEF CInv, SInv
<1>2. /\ txn' = Idle /\ txn.pc = "done" /\ UNCHANGED <<page, metas, pageDisk, metaDisk, unsynced, fatal, log>>
      /\ durable' = IF txn.mode = "sync" THEN Len(log) ELSE durable
  BY DEF CommitReturns, Release, file
<1>3. SyncedInv'
  <2>1. txn'.pc \notin {"synced", "written", "done"}
    BY <1>2 DEF Idle
  <2> QED BY <1>1, <1>2, <2>1, SyncedSame
<1>4. CASE txn.mode # "sync"
  BY <1>1, <1>2, <1>3, <1>4, DiskSame
<1>5. CASE txn.mode = "sync"
  <2>1. ~unsynced /\ (\A i \in 0..1 : metaDisk[i] = {metas[i]}) /\ Seen
    BY <1>1, <1>2, <1>5, MetasSeen DEF SyncedInv
  <2>2. Recoverable(metas[0], metas[1])
    BY <1>1, <2>1 DEF DiskInv
  <2>3. Newer(metas[0], metas[1]).txnid + 1 \in durable'..Len(log)
    <3>1. Newest.txnid + 1 = Len(log) /\ Len(log) \in Nat
      BY <1>1, <2>1 DEF Seen, LogInv
    <3> QED BY <1>2, <1>5, <3>1 DEF Newest
  <2>4. Recoverable(metas[0], metas[1])'
    BY <1>2, <2>2, <2>3 DEF Recoverable, Whole
  <2>5. \A m0 \in metaDisk'[0], m1 \in metaDisk'[1] : m0 = metas'[0] /\ m1 = metas'[1]
    BY <1>2, <2>1
  <2>6. ASSUME NEW m0 \in metaDisk'[0], NEW m1 \in metaDisk'[1] PROVE Recoverable(m0, m1)'
    <3>1. m0 = metas'[0] /\ m1 = metas'[1]
      BY <2>5
    <3> QED BY <2>4, <3>1 DEF Recoverable, Whole
  <2> QED BY <1>3, <2>6 DEF DiskInv
<1> QED BY <1>4, <1>5

\* Every step but a crash preserves what the disk may hold.
LEMMA StepDisk ==
    ASSUME ~MetaWriteCanFail, CInv, [Next]_vars, ~Crash
    PROVE  DiskInv' /\ SyncedInv'
<1>1. SInv /\ OInv /\ SyncedInv /\ DiskInv
  BY DEF CInv, SInv
<1>2. ASSUME UNCHANGED <<file, unsynced, fatal, history>>,
             UNCHANGED txn \/ txn'.pc \notin {"synced", "written", "done"}
      PROVE  DiskInv' /\ SyncedInv'
  <2>1. UNCHANGED <<page, metas, pageDisk, metaDisk, unsynced, fatal, log, durable>>
    BY <1>2 DEF file, history
  <2> QED BY <1>1, <1>2, <2>1, DiskSame, SyncedSame
<1>3. CASE UNCHANGED vars
  BY <1>2, <1>3 DEF vars
<1>4. CASE \E r \in Readers : ReaderNext(r)
  BY <1>1, <1>2, <1>4, ReaderEffect
<1>5. CASE EnvSync
  <2>1. SyncFile /\ UNCHANGED <<txn, fatal>>
    BY <1>5 DEF EnvSync
  <2>2. /\ DiskInv' /\ pageDisk' \in [Pages -> SUBSET Contents]
        /\ ~unsynced' /\ \A p \in Pages : pageDisk'[p] = {page'[p]}
        /\ \A i \in 0..1 : metaDisk'[i] = {metas'[i]}
    BY <1>1, <2>1, SyncDisk
  <2> QED BY <1>1, <2>1, <2>2 DEF SyncedInv
<1>6. CASE MutexFailed
  BY <1>2, <1>6 DEF MutexFailed
<1>7. ASSUME NEW w \in Writers, WriterNext(w) PROVE DiskInv' /\ SyncedInv'
  <2>1. CASE \/ AllocReuse(w) \/ AllocFetch(w) \/ FindOldest(w) \/ OldestFound(w) \/ AllocNew(w)
             \/ (\E k \in Keys : Touch(w, k)) \/ (\E r \in Readers : ScanReader(w, r))
    <3>1. txn'.pc \in {"body", "alloc", "scan", "error"}
      <4>1. CASE AllocReuse(w) \/ AllocFetch(w) \/ AllocNew(w) \/ \E k \in Keys : Touch(w, k)
        BY <1>1, <4>1, ReuseEffect, FetchEffect, NewPageEffect, TouchEffect
      <4>2. CASE FindOldest(w) \/ OldestFound(w) \/ \E r \in Readers : ScanReader(w, r)
        BY <1>1, <4>2, OldestEffect
      <4> QED BY <2>1, <4>1, <4>2
    <3>2. UNCHANGED <<file, unsynced, fatal, history>>
      BY <2>1 DEF AllocReuse, AllocFetch, FindOldest, OldestFound, AllocNew, Touch, ScanReader, Private
    <3> QED BY <1>2, <3>1, <3>2
  <2>2. CASE BeginWrite(w)
    BY <1>1, <1>2, <2>2, BeginEffect
  <2>3. ASSUME NEW m \in Modes, Flush(w, m) PROVE DiskInv' /\ SyncedInv'
    <3>1. DiskInv' /\ pageDisk' \in [Pages -> SUBSET Contents]
      BY <2>3, FlushDisk
    <3>2. txn'.pc = "flushed" /\ UNCHANGED <<metas, metaDisk, fatal>>
      BY <1>1, <2>3, FlushEffect
    <3> QED BY <1>1, <3>1, <3>2 DEF SyncedInv
  <2>4. CASE SyncData(w)
    <3>1. /\ txn' = [txn EXCEPT !.pc = "synced"] /\ txn.pc = "flushed" /\ wmutex = w /\ UNCHANGED fatal
      BY <2>4 DEF SyncData
    <3>2. txn \in OpenTxn /\ txn'.pc = "synced" /\ txn'.mode = txn.mode
      <4>1. txn \in OpenTxn
        BY <1>1, <3>1, OwnerHasTxn
      <4> QED BY <3>1, <4>1 DEF OpenTxn
    <3>3. CASE SyncsData(txn.mode)
      <4>1. /\ DiskInv' /\ pageDisk' \in [Pages -> SUBSET Contents]
            /\ ~unsynced' /\ \A p \in Pages : pageDisk'[p] = {page'[p]}
            /\ \A i \in 0..1 : metaDisk'[i] = {metas'[i]}
        BY <1>1, <2>4, <3>3, SyncDisk DEF SyncData
      <4> QED BY <1>1, <3>1, <3>2, <4>1 DEF SyncedInv
    <3>4. CASE ~SyncsData(txn.mode)
      <4>1. UNCHANGED <<page, metas, pageDisk, metaDisk, unsynced, log, durable>>
        BY <2>4, <3>4 DEF SyncData, file, history
      <4>2. txn'.mode = "nosync"
        BY <3>2, <3>4 DEF SyncsData
      <4>3. SyncedInv'
        BY <1>1, <3>1, <3>2, <4>1, <4>2 DEF SyncedInv
      <4> QED BY <1>1, <4>1, <4>3, DiskSame
    <3> QED BY <3>3, <3>4
  <2>5. CASE AbortWrite(w) \/ CommitFails(w) \/ WriterDies(w)
    <3>1. txn' = Idle /\ UNCHANGED <<file, unsynced, fatal, history>>
      BY <2>5 DEF AbortWrite, CommitFails, WriterDies, Release
    <3>2. txn'.pc \notin {"synced", "written", "done"}
      BY <3>1 DEF Idle
    <3> QED BY <1>2, <3>1, <3>2
  <2>6. CASE WriteMeta(w) \/ PublishTxn(w) \/ CommitReturns(w)
    BY <2>6, WriteMetaDisk, PublishDisk, ReturnDisk
  <2>7. CASE WriteMetaFails(w)
    BY <2>7 DEF WriteMetaFails
  <2> QED BY <1>7, <2>1, <2>2, <2>3, <2>4, <2>5, <2>6, <2>7 DEF WriterNext
<1> QED BY <1>3, <1>4, <1>5, <1>6, <1>7 DEF Next

\* The newer of two meta pages with consecutive ids is in the place of its id,
\* and the other one is of the commit before.
LEMMA NewerOf ==
    ASSUME NEW m0 \in Meta, NEW m1 \in Meta, Consecutive(m0, m1),
           NEW metas2, metas2 = [i \in 0..1 |-> IF i = 0 THEN m0 ELSE m1]
    PROVE  /\ Newer(m0, m1) = metas2[Newer(m0, m1).txnid % 2]
           /\ LET id == Newer(m0, m1).txnid
                  o == metas2[(id + 1) % 2].txnid
              IN  id \in Nat /\ (o + 1 = id \/ (o = 0 /\ id = 0))
<1>1. PICK a, b : a = m0.txnid /\ b = m1.txnid
  OBVIOUS
<1>2. a \in Nat /\ b \in Nat
  BY <1>1 DEF Meta
<1>3. metas2[0] = m0 /\ metas2[1] = m1
  OBVIOUS
<1>4. Newer(m0, m1) = IF a < b THEN m1 ELSE m0
  BY <1>1 DEF Newer
<1>5. CASE a = 0 /\ b = 0
  <2>1. Newer(m0, m1) = m0 /\ 0 % 2 = 0 /\ (0 + 1) % 2 = 1
    BY <1>4, <1>5
  <2>2. Newer(m0, m1).txnid = 0 /\ metas2[(0 + 1) % 2].txnid = 0
    BY <1>1, <1>3, <1>5, <2>1
  <2>3. metas2[0 % 2] = m0
    BY <1>3, <2>1
  <2> QED BY <2>1, <2>2, <2>3
<1>6. CASE a % 2 = 0 /\ b = a + 1
  <2>1. Newer(m0, m1) = m1 /\ b % 2 = 1 /\ (b + 1) % 2 = 0
    BY <1>2, <1>4, <1>6, Parity
  <2> QED BY <1>1, <1>2, <1>3, <1>6, <2>1
<1>7. CASE b % 2 = 1 /\ a = b + 1
  <2>1. Newer(m0, m1) = m0 /\ a % 2 = 0 /\ (a + 1) % 2 = 1
    BY <1>2, <1>4, <1>7, Parity
  <2> QED BY <1>1, <1>2, <1>3, <1>7, <2>1
<1> QED BY <1>1, <1>5, <1>6, <1>7 DEF Consecutive

\* The first states of the log.
LEMMA CutLog ==
    ASSUME NEW s \in Seq(Views), NEW n \in 1..Len(s)
    PROVE  /\ SubSeq(s, 1, n) \in Seq(Views) /\ Len(SubSeq(s, 1, n)) = n
           /\ SubSeq(s, 1, n)[n] = s[n] /\ s[n] \in Views
OBVIOUS

\* The machine stops: the environment comes back in the state of the newer of
\* the meta pages that were on disk.
LEMMA CrashCInv ==
    ASSUME CInv, Crash
    PROVE  /\ CInv'
           /\ \E n \in durable..Len(log) : log' = SubSeq(log, 1, n) /\ returned' = n /\ durable' = n
           /\ rd' = [r \in Readers |-> IdleReader]
<1>1. SInv /\ OInv /\ LogInv /\ SyncedInv /\ DiskInv
  BY DEF CInv, SInv
<1>2. OInv'
  BY <1>1, EnvStepOInv
<1>3. /\ MachineCanCrash /\ ~unsynced /\ UNCHANGED unsynced /\ fatal' = {} /\ faults' = faults + 1
      /\ page' = [p \in Pages |-> IF Cardinality(pageDisk[p]) = 1
                                  THEN CHOOSE c \in pageDisk[p] : TRUE ELSE Blank]
      /\ pageDisk' = [p \in Pages |-> {page'[p]}]
      /\ mr_txnid' = [r \in Readers |-> NoTxn] /\ rd' = [r \in Readers |-> IdleReader]
      /\ txn' = Idle /\ owner_dead' = FALSE
  BY DEF Crash, Fault, Release
<1>4. PICK m0 \in metaDisk[0], m1 \in metaDisk[1] :
          /\ metas' = [i \in 0..1 |-> IF i = 0 THEN m0 ELSE m1]
          /\ metaDisk' = [i \in 0..1 |-> IF i = 0 THEN {m0} ELSE {m1}]
          /\ mti_txnid' = Newer(m0, m1).txnid
          /\ log' = SubSeq(log, 1, Newer(m0, m1).txnid + 1)
          /\ returned' = Newer(m0, m1).txnid + 1
          /\ durable' = Newer(m0, m1).txnid + 1
  BY DEF Crash
<1>5. PICK n, id : /\ n = Newer(m0, m1) /\ id = n.txnid /\ mti_txnid' = id /\ log' = SubSeq(log, 1, id + 1)
                   /\ returned' = id + 1 /\ durable' = id + 1
  BY <1>4
<1>6. m0 \in Meta /\ m1 \in Meta /\ metas'[0] = m0 /\ metas'[1] = m1 /\ metaDisk'[0] = {m0} /\ metaDisk'[1] = {m1}
  BY <1>1, <1>4 DEF OInv, TypeInv
<1>7. Recoverable(m0, m1)
  BY <1>1, <1>3 DEF DiskInv
<1>8. /\ Consecutive(m0, m1) /\ id + 1 \in durable..Len(log)
      /\ Accounted(n.root, n.freedb, n.last_pg, n.txnid)
      /\ Guarded(m0.root, m0.txnid, n.freedb, n.last_pg)
      /\ Guarded(m1.root, m1.txnid, n.freedb, n.last_pg)
      /\ \A k \in Keys : IF n.root[k] = NoPage THEN log[id + 1][k] = Blank
                         ELSE pageDisk[n.root[k]] = {log[id + 1][k]}
  BY <1>5, <1>7 DEF Recoverable, Whole
<1>9. /\ n = metas'[id % 2] /\ id \in Nat /\ n \in Meta
      /\ metas'[(id + 1) % 2].txnid + 1 = id \/ (metas'[(id + 1) % 2].txnid = 0 /\ id = 0)
  <2>1. n = metas'[id % 2] /\ id \in Nat
        /\ (metas'[(id + 1) % 2].txnid + 1 = id \/ (metas'[(id + 1) % 2].txnid = 0 /\ id = 0))
    BY <1>4, <1>5, <1>6, <1>8, NewerOf
  <2>2. n \in Meta
    BY <1>5, <1>6 DEF Newer
  <2> QED BY <2>1, <2>2
<1>10. Newest' = n /\ n = Newer(metas'[0], metas'[1])
  BY <1>5, <1>6 DEF Newest
<1>11. txn'.pc = "none" /\ \A r \in Readers : rd'[r].pc = "idle"
  BY <1>3 DEF Idle, IdleReader
<1>12. AccountInv'
  BY <1>8, <1>10, <1>11 DEF AccountInv
<1>13. GuardInv'
  <2>1. \A i \in 0..1 : Guarded(metas'[i].root, metas'[i].txnid, n.freedb, n.last_pg)
    BY <1>6, <1>8
  <2> QED BY <1>10, <1>11, <2>1 DEF GuardInv
<1>14. FreshInv' /\ HeadInv'
  BY <1>11 DEF FreshInv, HeadInv, BodyPcs
<1>15. MetaInv'
  <2>1. mti_txnid' = id /\ metas'[id % 2].txnid = id
    BY <1>5, <1>9
  <2> QED BY <1>9, <2>1 DEF MetaInv
<1>16. ReaderInv'
  BY <1>11 DEF ReaderInv
<1>17. page' \in [Pages -> Contents] /\ pageDisk' \in [Pages -> SUBSET Contents]
  <2>1. ASSUME NEW p \in Pages
        PROVE  (IF Cardinality(pageDisk[p]) = 1 THEN CHOOSE c \in pageDisk[p] : TRUE ELSE Blank) \in Contents
    <3>1. CASE Cardinality(pageDisk[p]) = 1
      <4>1. pageDisk[p] # {}
        BY <3>1, FS_EmptySet
      <4>2. (CHOOSE c \in pageDisk[p] : TRUE) \in pageDisk[p]
        BY <4>1
      <4>3. pageDisk[p] \subseteq Contents
        BY <1>1 DEF SyncedInv
      <4> QED BY <3>1, <4>2, <4>3
    <3>2. CASE Cardinality(pageDisk[p]) # 1
      BY <3>2 DEF Contents
    <3> QED BY <3>1, <3>2
  <2>2. page' \in [Pages -> Contents]
    BY <1>3, <2>1
  <2> QED BY <1>3, <2>2
<1>18. ASSUME NEW k \in Keys, n.root[k] # NoPage
       PROVE  n.root[k] \in Pages /\ page'[n.root[k]] = log[id + 1][k]
  <2>1. PICK last : last = n.last_pg
    OBVIOUS
  <2>2. n.root[k] \in 2..last /\ (last >= 2 => last < MaxPg) /\ last \in Nat /\ MaxPg \in Nat
    BY <1>8, <1>9, <1>18, <2>1, ConstantsAssumption DEF Accounted, Meta
  <2>3. n.root[k] \in Pages
    BY <2>2 DEF Pages
  <2>4. PICK x : x = log[id + 1][k]
    OBVIOUS
  <2>5. pageDisk[n.root[k]] = {x} /\ Cardinality({x}) = 1
    BY <1>8, <1>18, <2>4, FS_Singleton
  <2>6. (CHOOSE c \in {x} : TRUE) = x
    OBVIOUS
  <2> QED BY <1>3, <2>3, <2>4, <2>5, <2>6
<1>19. /\ log' \in Seq(Views) /\ Len(log') = id + 1 /\ log'[id + 1] = log[id + 1] /\ log[id + 1] \in Views
  <2>1. log \in Seq(Views) /\ id + 1 \in 1..Len(log) /\ log' = SubSeq(log, 1, id + 1)
    <3>1. log \in Seq(Views) /\ durable \in Nat /\ Len(log) \in Nat
      BY <1>1 DEF LogInv
    <3>2. id + 1 \in 1..Len(log)
      BY <1>8, <1>9, <3>1
    <3> QED BY <1>5, <3>1, <3>2
  <2> QED BY <2>1, CutLog
<1>20. View(n.root)' = log'[id + 1]
  <2>1. View(n.root)' = [k \in Keys |-> IF n.root[k] = NoPage THEN Blank ELSE page'[n.root[k]]]
    BY DEF View
  <2>2. ASSUME NEW k \in Keys
        PROVE  (IF n.root[k] = NoPage THEN Blank ELSE page'[n.root[k]]) = log[id + 1][k]
    BY <1>8, <1>18
  <2>3. log[id + 1] = [k \in Keys |-> log[id + 1][k]]
    BY <1>19 DEF Views
  <2> QED BY <1>19, <2>1, <2>2, <2>3
<1>21. ASSUME NEW i \in 0..1, Needed(i)' PROVE View(metas[i].root)' = log'[metas'[i].txnid + 1]
  <2>1. metas'[i] = n
    BY <1>3, <1>4, <1>5, <1>9, <1>10, <1>11, <1>21 DEF Needed
  <2>2. View(metas[i].root)' = View(n.root)'
    BY <2>1 DEF View
  <2> QED BY <1>5, <1>20, <2>1, <2>2
<1>22. LogInv'
  <2>1. faults' \in Nat /\ returned' \in Nat /\ returned' <= mti_txnid' + 1 /\ durable' \in Nat
        /\ durable' <= Len(log')
    <3>1. faults' \in Nat
      BY <1>1, <1>3 DEF LogInv
    <3>2. mti_txnid' = id /\ returned' = id + 1 /\ durable' = id + 1 /\ Len(log') = id + 1 /\ id \in Nat
      BY <1>5, <1>9, <1>19
    <3> QED BY <3>1, <3>2
  <2> QED BY <1>5, <1>10, <1>17, <1>19, <1>21, <2>1 DEF LogInv
<1>23. SyncedInv'
  <2>1. \A i \in 0..1 : metas'[i] \in metaDisk'[i]
    BY <1>6
  <2> QED BY <1>3, <1>11, <1>17, <2>1 DEF SyncedInv
<1>24. Recoverable(m0, m1)'
  <2>1. \A k \in Keys : IF n.root[k] = NoPage THEN log'[id + 1][k] = Blank
                        ELSE pageDisk'[n.root[k]] = {log'[id + 1][k]}
    BY <1>3, <1>8, <1>18, <1>19
  <2>2. n = metas'[0] \/ n = metas'[1]
    BY <1>5, <1>6 DEF Newer
  <2>3. id + 1 \in durable'..Len(log')
    <3>1. durable' = id + 1 /\ Len(log') = id + 1 /\ id \in Nat
      BY <1>5, <1>9, <1>19
    <3> QED BY <3>1
  <2> QED BY <1>5, <1>8, <2>1, <2>2, <2>3 DEF Recoverable, Whole
<1>25. DiskInv'
  <2>1. ASSUME NEW x \in metaDisk'[0], NEW y \in metaDisk'[1] PROVE Recoverable(x, y)'
    <3>1. x = m0 /\ y = m1
      BY <1>6
    <3> QED BY <1>24, <3>1 DEF Recoverable, Whole
  <2> QED BY <2>1 DEF DiskInv
<1>26. SInv'
  BY <1>2, <1>12, <1>13, <1>14, <1>15, <1>16, <1>22 DEF SInv
<1> QED BY <1>3, <1>5, <1>8, <1>23, <1>25, <1>26 DEF CInv

\* At first both meta pages are on disk.
LEMMA InitCInv ==
    ASSUME Init
    PROVE  CInv
<1>1. SInv /\ Seen
  BY InitSInv, MetasSeen
<1>2. /\ metas = [i \in 0..1 |-> FirstMeta] /\ pageDisk = [p \in Pages |-> {Blank}]
      /\ metaDisk = [i \in 0..1 |-> {FirstMeta}] /\ txn = Idle /\ fatal = {} /\ durable = 1
  BY DEF Init
<1>3. SyncedInv
  BY <1>2 DEF SyncedInv, Contents, Idle
<1>4. PICK n : n = Newest
  OBVIOUS
<1>5. n = FirstMeta /\ n = Newer(metas[0], metas[1]) /\ metas[0] = FirstMeta /\ metas[1] = FirstMeta
  BY <1>2, <1>4 DEF Newest, Newer
<1>6. n.txnid = 0 /\ \A k \in Keys : n.root[k] = NoPage
  BY <1>5 DEF FirstMeta
<1>7. Recoverable(metas[0], metas[1])
  <2>1. n.txnid + 1 \in durable..Len(log)
    BY <1>1, <1>2, <1>4, <1>6 DEF Seen
  <2>2. Whole(n)
    BY <1>1, <1>4, <1>6 DEF Seen, Whole
  <2>3. /\ Consecutive(metas[0], metas[1])
        /\ Accounted(n.root, n.freedb, n.last_pg, n.txnid)
        /\ Guarded(metas[0].root, metas[0].txnid, n.freedb, n.last_pg)
        /\ Guarded(metas[1].root, metas[1].txnid, n.freedb, n.last_pg)
    BY <1>1, <1>4 DEF Seen
  <2>4. n = metas[0] \/ n = metas[1]
    BY <1>5
  <2> QED BY <1>5, <2>1, <2>2, <2>3, <2>4 DEF Recoverable
<1>8. \A m0 \in metaDisk[0], m1 \in metaDisk[1] : m0 = metas[0] /\ m1 = metas[1]
  BY <1>2
<1> QED BY <1>1, <1>3, <1>7, <1>8 DEF CInv, DiskInv

\* The invariant, whether the machine may stop or not.
THEOREM SnapshotInvariance ==
    ASSUME ~MetaWriteCanFail
    PROVE  Spec => []CInv
<1>1. Init => CInv
  BY InitCInv
<1>2. CInv /\ [Next]_vars => CInv'
  <2> SUFFICES ASSUME CInv, [Next]_vars PROVE CInv'
    OBVIOUS
  <2>1. CASE Crash
    BY <2>1, CrashCInv
  <2>2. CASE ~Crash
    BY <2>2, StepSInv, StepDisk DEF CInv
  <2> QED BY <2>1, <2>2
<1> QED BY <1>1, <1>2, PTL DEF Spec

\* Neither meta page ever refers to a page that was overwritten: whatever step
\* of a commit a process dies at, both states can be read, and the newest one
\* when the machine may stop.
THEOREM BothMetasIntact ==
    ASSUME ~MetaWriteCanFail
    PROVE  Spec => []MetasIntact
<1>1. CInv => MetasIntact
  BY DEF CInv, SInv, LogInv, Needed, MetasIntact
<1> QED BY <1>1, SnapshotInvariance, PTL

\* Whatever part of the unsynced writes a crash of the machine keeps, at any step
\* of a commit and after any number of crashes, the newer of the two meta pages
\* on disk is a committed state, whole, and no older than what a synced commit or
\* mdb_env_sync promised.
THEOREM CrashSafe ==
    ASSUME ~MetaWriteCanFail
    PROVE  Spec => []CrashConsistent
<1>1. CInv => CrashConsistent
  <2> SUFFICES ASSUME CInv, ~unsynced, NEW m0 \in metaDisk[0], NEW m1 \in metaDisk[1]
               PROVE  LET m == Newer(m0, m1)
                      IN  /\ m.txnid + 1 \in durable..Len(log)
                          /\ \A k \in Keys : m.root[k] # NoPage =>
                                 pageDisk[m.root[k]] = {log[m.txnid + 1][k]}
    BY DEF CrashConsistent
  <2>1. Recoverable(m0, m1)
    BY DEF CInv, DiskInv
  <2> QED BY <2>1 DEF Recoverable, Whole
<1> QED BY <1>1, SnapshotInvariance, PTL

\* As many pages as there are things that have one, when no two share one.
LEMMA OneEach ==
    ASSUME NEW S, NEW T, IsFiniteSet(T), NEW f \in [S -> T],
           \A x, y \in S : f[x] = f[y] => x = y, \A t \in T : \E x \in S : f[x] = t
    PROVE  Cardinality(S) = Cardinality(T)
<1>1. f \in Injection(S, T) /\ f \in Surjection(S, T)
  BY DEF Injection, Surjection, IsInjective
<1> QED BY <1>1, FS_Injection

\* No page of the newest state is lost, and none is both used and free: what
\* mdb_freelist_save leaves is exactly what the tree does not use, however many
\* transactions before it died, failed or were aborted, and whatever of them the
\* machine lost when it stopped.
THEOREM NoPageLost ==
    ASSUME ~MetaWriteCanFail
    PROVE  Spec => []PagesAccounted
<1>1. SInv => PagesAccounted
  <2> SUFFICES ASSUME SInv PROVE PagesAccounted
    OBVIOUS
  <2>1. PICK n, root, fdb, last : n = Newest /\ root = n.root /\ fdb = n.freedb /\ last = n.last_pg
    OBVIOUS
  <2>2. Accounted(root, fdb, last, n.txnid)
    BY <2>1 DEF SInv, AccountInv
  <2>3. n \in Meta /\ fdb \in FreeRecords /\ last \in Nat /\ root \in Roots
    BY <2>1, NewestIsOne DEF SInv, OInv, TypeInv, Meta
  <2>4. /\ \A k \in Keys : root[k] # NoPage => root[k] \in 2..last
        /\ \A j, k \in Keys : root[j] # NoPage /\ root[j] = root[k] => j = k
        /\ \A e \in fdb : e[2] \in 2..last
        /\ \A e, f \in fdb : e[2] = f[2] => e = f
        /\ \A e \in fdb : \A k \in Keys : root[k] # e[2]
        /\ \A p \in 2..last : (\E k \in Keys : root[k] = p) \/ (\E e \in fdb : e[2] = p)
    BY <2>2 DEF Accounted
  <2>5. PICK used, free, keys : /\ used = {root[k] : k \in Keys} \ {NoPage} /\ free = {e[2] : e \in fdb}
                                /\ keys = {k \in Keys : root[k] # NoPage}
    OBVIOUS
  <2>6. NoPage \notin 2..last
    BY ConstantsAssumption
  <2>7. used \subseteq 2..last /\ free \subseteq 2..last /\ 2..last \subseteq used \cup free
    BY <2>4, <2>5, <2>6
  <2>8. used \cap free = {}
    BY <2>4, <2>5
  <2>9. IsFiniteSet(used) /\ IsFiniteSet(free)
    <3>1. IsFiniteSet(2..last)
      BY <2>3, FS_Interval
    <3> QED BY <2>7, <3>1, FS_Subset
  <2>10. Cardinality(fdb) = Cardinality(free)
    <3>1. PICK g : g = [e \in fdb |-> e[2]]
      OBVIOUS
    <3>2. g \in [fdb -> free] /\ \A t \in free : \E x \in fdb : g[x] = t
      BY <2>5, <3>1
    <3>3. \A x, y \in fdb : g[x] = g[y] => x = y
      BY <2>4, <3>1
    <3> QED BY <2>9, <3>2, <3>3, OneEach
  <2>11. Cardinality(used) = Cardinality(keys)
    <3>1. PICK g : g = [k \in keys |-> root[k]]
      OBVIOUS
    <3>2. g \in [keys -> used] /\ \A t \in used : \E x \in keys : g[x] = t
      BY <2>5, <3>1
    <3>3. \A x, y \in keys : g[x] = g[y] => x = y
      BY <2>4, <2>5, <3>1
    <3> QED BY <2>9, <3>2, <3>3, OneEach
  <2> QED BY <2>1, <2>5, <2>7, <2>8, <2>10, <2>11 DEF PagesAccounted
<1>2. CInv => SInv
  BY DEF CInv
<1> QED BY <1>1, <1>2, SnapshotInvariance, PTL

-----------------------------------------------------------------------------
(* The environment is a snapshot store. *)

\* What the readers are in the snapshot store.
StoreFrom == [r \in Readers |-> rd[r].id + 1]
StoreView == [r \in Readers |-> IF rd[r].pc = "active" THEN View(rd[r].root) ELSE NoView]
StoreStep == [Store!Next]_(Store!vars)

\* A step that no user of the store notices.
LEMMA StoreStutters ==
    ASSUME UNCHANGED <<log, returned, durable>>, UNCHANGED <<StoreFrom, StoreView>>
    PROVE  StoreStep
BY DEF StoreStep, Store!vars, StoreFrom, StoreView

\* Readers that go on where they were, over pages that they still see.
LEMMA ReadersSame ==
    ASSUME \A r \in Readers : /\ rd'[r].id = rd[r].id
                              /\ rd'[r].pc = "active" <=> rd[r].pc = "active"
                              /\ rd[r].pc = "active" => View(rd[r].root)' = View(rd[r].root)
    PROVE  UNCHANGED <<StoreFrom, StoreView>>
<1>1. StoreFrom' = StoreFrom
  BY DEF StoreFrom
<1>2. StoreView' = StoreView
  <2>1. StoreView' = [r \in Readers |-> IF rd'[r].pc = "active" THEN View(rd[r].root)' ELSE NoView]
    BY DEF StoreView
  <2>2. ASSUME NEW r \in Readers
        PROVE  (IF rd'[r].pc = "active" THEN View(rd[r].root)' ELSE NoView)
                   = (IF rd[r].pc = "active" THEN View(rd[r].root) ELSE NoView)
    OBVIOUS
  <2> QED BY <2>1, <2>2 DEF StoreView
<1> QED BY <1>1, <1>2

\* In particular, readers when neither they nor the pages change.
LEMMA ReadersUntouched ==
    ASSUME UNCHANGED <<rd, page>>
    PROVE  UNCHANGED <<StoreFrom, StoreView>>
BY DEF StoreFrom, StoreView, View

\* A reader begins with the id of the last commit that was published, takes the
\* state of a meta page that is at least as new, and lets it go at the end.
LEMMA ReaderStoreStep ==
    ASSUME SInv, NEW r \in Readers, ReaderNext(r)
    PROVE  StoreStep
<1>1. OInv /\ MetaInv /\ ReaderInv /\ LogInv
  BY DEF SInv
<1>2. /\ rd \in [Readers -> ReaderRecord] /\ mti_txnid \in Nat /\ mr_txnid \in [Readers -> Nat]
      /\ metas \in [0..1 -> Meta]
  BY <1>1 DEF OInv, TypeInv
<1>3. UNCHANGED <<page, metas, mti_txnid, log, returned, durable>>
  BY <1>1, ReaderEffect DEF file, history
<1>4. rd[r] \in ReaderRecord /\ rd[r].id \in Nat
  BY <1>2 DEF ReaderRecord
<1>5. DOMAIN rd = Readers
  BY <1>2
<1>6. ASSUME NEW x, rd' = [rd EXCEPT ![r] = x]
      PROVE  /\ StoreFrom' = [StoreFrom EXCEPT ![r] = x.id + 1]
             /\ StoreView' = [StoreView EXCEPT ![r] = IF x.pc = "active" THEN View(x.root) ELSE NoView]
  <2>1. \A q \in Readers : rd'[q] = IF q = r THEN x ELSE rd[q]
    BY <1>5, <1>6
  <2>2. StoreFrom' = [StoreFrom EXCEPT ![r] = x.id + 1]
    BY <2>1 DEF StoreFrom
  <2>3. StoreView' = [q \in Readers |-> IF rd'[q].pc = "active" THEN View(rd[q].root)' ELSE NoView]
    BY DEF StoreView
  <2>4. ASSUME NEW q \in Readers
        PROVE  (IF rd'[q].pc = "active" THEN View(rd[q].root)' ELSE NoView)
                   = IF q = r THEN (IF x.pc = "active" THEN View(x.root) ELSE NoView) ELSE StoreView[q]
    <3>1. View(rd[q].root)' = View(IF q = r THEN x.root ELSE rd[q].root)
      BY <1>3, <2>1 DEF View
    <3> QED BY <2>1, <3>1 DEF StoreView
  <2>5. StoreView \in [Readers -> {StoreView[q] : q \in Readers}]
    BY DEF StoreView
  <2> HIDE DEF StoreView
  <2>6. StoreView' = [StoreView EXCEPT ![r] = IF x.pc = "active" THEN View(x.root) ELSE NoView]
    BY <2>3, <2>4, <2>5
  <2> QED BY <2>2, <2>6
<1>7. ASSUME rd[r].pc # "active" PROVE StoreView[r] = NoView
  BY <1>7 DEF StoreView
<1>8. CASE ReaderLoad(r)
  <2>1. rd[r].pc = "idle" /\ rd' = [rd EXCEPT ![r] = [rd[r] EXCEPT !.pc = "loaded", !.id = mti_txnid]]
    BY <1>2, <1>8 DEF ReaderLoad
  <2>2. PICK x : x = [rd[r] EXCEPT !.pc = "loaded", !.id = mti_txnid]
    OBVIOUS
  <2>3. x.pc = "loaded" /\ x.id = mti_txnid
    BY <1>4, <2>2 DEF ReaderRecord
  <2>4. StoreFrom' = [StoreFrom EXCEPT ![r] = mti_txnid + 1] /\ StoreView' = StoreView
    <3>1. StoreFrom' = [StoreFrom EXCEPT ![r] = mti_txnid + 1] /\ StoreView' = [StoreView EXCEPT ![r] = NoView]
      BY <1>6, <2>1, <2>2, <2>3
    <3>2. StoreView[r] = NoView
      BY <1>7, <2>1
    <3>3. [StoreView EXCEPT ![r] = NoView] = StoreView
      BY <3>2 DEF StoreView
    <3> QED BY <3>1, <3>3
  <2>5. mti_txnid + 1 \in returned..Len(log)
    <3>1. Len(log) = Newest.txnid + 1 /\ (Newest.txnid = mti_txnid \/ Newest.txnid = mti_txnid + 1)
      BY <1>1, NewestIs DEF LogInv
    <3>2. returned \in Nat /\ returned <= mti_txnid + 1
      BY <1>1 DEF LogInv
    <3> QED BY <1>2, <3>1, <3>2
  <2>6. Store!Begin(r)
    BY <1>3, <1>7, <2>1, <2>4, <2>5 DEF Store!Begin, StoreFrom, StoreView
  <2> QED BY <2>6 DEF StoreStep, Store!Next
<1>9. ASSUME NEW to \in {"published", "checked", "idle"}, NEW fr \in {"loaded", "published"}, ReaderStep(r, fr, to)
      PROVE  StoreStep
  <2>1. rd[r].pc = fr /\ rd' = [rd EXCEPT ![r] = [rd[r] EXCEPT !.pc = to]]
    BY <1>2, <1>9 DEF ReaderStep
  <2>2. \A q \in Readers : /\ rd'[q].id = rd[q].id
                           /\ rd'[q].pc = "active" <=> rd[q].pc = "active"
                           /\ rd'[q].root = rd[q].root
    <3>1. rd'[r].id = rd[r].id /\ rd'[r].root = rd[r].root /\ rd'[r].pc = to
      BY <1>2, <1>4, <2>1 DEF ReaderRecord
    <3>2. \A q \in Readers : q # r => rd'[q] = rd[q]
      BY <1>2, <2>1
    <3> QED BY <1>9, <2>1, <3>1, <3>2
  <2>3. \A q \in Readers : View(rd[q].root)' = View(rd[q].root)
    BY <1>3, <2>2 DEF View
  <2> QED BY <1>3, <2>2, <2>3, ReadersSame, StoreStutters
<1>10. CASE ReaderPublish(r) \/ ReaderRecheck(r) \/ ReaderRetry(r)
  BY <1>9, <1>10 DEF ReaderPublish, ReaderRecheck, ReaderRetry
<1>11. CASE ReaderCopyMeta(r)
  <2>1. PICK i : i = mr_txnid[r] % 2
    OBVIOUS
  <2>2. /\ rd[r].pc = "checked"
        /\ rd' = [rd EXCEPT ![r] = [rd[r] EXCEPT !.pc = "active", !.root = metas[i].root]]
    BY <1>2, <1>11, <2>1 DEF ReaderCopyMeta
  <2>3. PICK x : x = [rd[r] EXCEPT !.pc = "active", !.root = metas[i].root]
    OBVIOUS
  <2>4. x.pc = "active" /\ x.id = rd[r].id /\ x.root = metas[i].root
    BY <1>4, <2>3 DEF ReaderRecord
  <2>5. i \in 0..1 /\ mr_txnid[r] \in Nat /\ metas[i].txnid \in Nat
    BY <1>2, <2>1, Parity DEF Meta
  <2>6. rd[r].id = mr_txnid[r] /\ mr_txnid[r] <= metas[i].txnid
    BY <1>1, <2>1, <2>2 DEF ReaderInv
  <2>7. PICK n : n = metas[i].txnid + 1
    OBVIOUS
  <2>8. View(metas[i].root) = log[n]
    BY <1>1, <2>1, <2>2, <2>5, <2>7 DEF LogInv, Needed
  <2>9. n \in StoreFrom[r]..Len(log)
    <3>1. Len(log) = Newest.txnid + 1 /\ Newest.txnid \in Nat /\ metas[i].txnid <= Newest.txnid
      BY <1>1, <1>2, <2>5, NewestIs, NewestIsOne DEF LogInv
    <3>2. StoreFrom[r] = mr_txnid[r] + 1
      BY <2>6 DEF StoreFrom
    <3>3. PICK a, b, c : a = mr_txnid[r] /\ b = metas[i].txnid /\ c = Newest.txnid
      OBVIOUS
    <3>4. a \in Nat /\ b \in Nat /\ c \in Nat /\ a <= b /\ b <= c
      BY <2>5, <2>6, <3>1, <3>3
    <3>5. b + 1 \in (a + 1)..(c + 1)
      BY <3>4
    <3> QED BY <2>7, <3>1, <3>2, <3>3, <3>5
  <2>10. StoreFrom' = StoreFrom /\ StoreView' = [StoreView EXCEPT ![r] = log[n]]
    <3>1. /\ StoreFrom' = [StoreFrom EXCEPT ![r] = rd[r].id + 1]
          /\ StoreView' = [StoreView EXCEPT ![r] = View(metas[i].root)]
      BY <1>6, <2>2, <2>3, <2>4
    <3>2. [StoreFrom EXCEPT ![r] = rd[r].id + 1] = StoreFrom
      BY DEF StoreFrom
    <3> QED BY <2>8, <3>1, <3>2
  <2>11. StoreView[r] = NoView
    BY <1>7, <2>2
  <2>12. Store!TakeSnapshot(r)
    BY <1>3, <2>9, <2>10, <2>11 DEF Store!TakeSnapshot, StoreFrom, StoreView
  <2> QED BY <2>12 DEF StoreStep, Store!Next
<1>12. CASE ReaderEnd(r) \/ ReaderCheck(r) \/ ReaderDies(r)
  <2>1. PICK x \in {IdleReader, [IdleReader EXCEPT !.pc = "dead"]} : rd' = [rd EXCEPT ![r] = x]
    BY <1>12 DEF ReaderEnd, ReaderCheck, ReaderDies, ClearSlot
  <2>2. x.id = 0 /\ x.pc # "active"
    BY <2>1 DEF IdleReader
  <2>3. StoreFrom' = [StoreFrom EXCEPT ![r] = 1] /\ StoreView' = [StoreView EXCEPT ![r] = NoView]
    <3>1. PICK y : y = x
      OBVIOUS
    <3>2. y.id + 1 = 1 /\ y.pc # "active" /\ rd' = [rd EXCEPT ![r] = y]
      BY <2>1, <2>2, <3>1
    <3>3. /\ StoreFrom' = [StoreFrom EXCEPT ![r] = y.id + 1]
          /\ StoreView' = [StoreView EXCEPT ![r] = IF y.pc = "active" THEN View(y.root) ELSE NoView]
      BY <1>6, <3>2
    <3> QED BY <3>2, <3>3
  <2>4. Store!End(r)
    BY <1>3, <2>3 DEF Store!End, StoreFrom, StoreView
  <2> QED BY <2>4 DEF StoreStep, Store!Next
<1> QED BY <1>8, <1>10, <1>11, <1>12 DEF ReaderNext

\* The machine stops: the log is cut at what the disk held.
LEMMA CrashStoreStep ==
    ASSUME CInv, Crash
    PROVE  StoreStep
<1>1. IdleReader.id = 0 /\ IdleReader.pc = "idle" /\ rd' = [r \in Readers |-> IdleReader]
  BY CrashCInv DEF IdleReader
<1>2. \A r \in Readers : rd'[r].id + 1 = 1 /\ rd'[r].pc # "active"
  BY <1>1
<1>3. StoreFrom' = [r \in Readers |-> 1]
  BY <1>2 DEF StoreFrom
<1>4. StoreView' = [r \in Readers |-> NoView]
  BY <1>2 DEF StoreView
<1>5. Store!Crash
  BY <1>3, <1>4, CrashCInv DEF Store!Crash, StoreFrom, StoreView
<1> QED BY <1>5 DEF StoreStep, Store!Next

\* The other steps: a commit is the write of the meta page.
LEMMA WriterStoreStep ==
    ASSUME ~MetaWriteCanFail, SInv,
           EnvSync \/ MutexFailed \/ \E w \in Writers : WriterNext(w)
    PROVE  StoreStep
<1>1. OInv /\ MetaInv /\ ReaderInv /\ LogInv
  BY DEF SInv
<1>2. durable \in Nat /\ durable <= Len(log) /\ Len(log) \in Nat
  BY <1>1 DEF LogInv
<1>3. CASE EnvSync
  <2>1. UNCHANGED <<page, rd, log, returned>> /\ durable' = Len(log)
    BY <1>1, <1>3, SyncEffect DEF EnvSync
  <2>2. UNCHANGED <<StoreFrom, StoreView>> /\ durable' \in durable..Len(log)
    BY <1>2, <2>1, ReadersUntouched
  <2>3. Store!Persist
    BY <2>1, <2>2 DEF Store!Persist, StoreFrom, StoreView
  <2> QED BY <2>3 DEF StoreStep, Store!Next
<1>4. CASE MutexFailed
  <2>1. /\ UNCHANGED <<page, log, returned, durable>>
        /\ rd' = [r \in Readers |-> IF rd[r].pc = "dead" THEN IdleReader ELSE rd[r]]
    BY <1>4, MutexSInv
  <2>2. IdleReader.id = 0 /\ IdleReader.pc = "idle"
    BY DEF IdleReader
  <2>3. ASSUME NEW r \in Readers
        PROVE  /\ rd'[r].id = rd[r].id
               /\ rd'[r].pc = "active" <=> rd[r].pc = "active"
               /\ rd[r].pc = "active" => View(rd[r].root)' = View(rd[r].root)
    <3>1. CASE rd[r].pc = "dead"
      <4>1. rd[r].id = 0
        BY <1>1, <3>1 DEF ReaderInv
      <4> QED BY <2>1, <2>2, <3>1, <4>1
    <3>2. CASE rd[r].pc # "dead"
      <4>1. rd'[r] = rd[r]
        BY <2>1, <3>2
      <4>2. View(rd[r].root)' = View(rd[r].root)
        BY <2>1, <4>1 DEF View
      <4> QED BY <4>1, <4>2
    <3> QED BY <3>1, <3>2
  <2> QED BY <2>1, <2>3, ReadersSame, StoreStutters
<1>5. ASSUME NEW w \in Writers, WriterNext(w) PROVE StoreStep
  <2>1. CASE WriteMeta(w)
    <3>1. /\ UNCHANGED <<page, rd, returned, durable>> /\ log' = Append(log, View(txn.root))
          /\ Len(log') = Len(log) + 1
      BY <2>1, WriteMetaSInv
    <3>2. UNCHANGED <<StoreFrom, StoreView>>
      BY <3>1, ReadersUntouched
    <3>3. log \in Seq(Views)
      BY <1>1 DEF LogInv
    <3>4. log'[Len(log')] = View(txn.root) /\ log' # log
      BY <3>1, <3>3
    <3>5. Store!Commit(log'[Len(log')])
      BY <3>1, <3>2, <3>4 DEF Store!Commit, StoreFrom, StoreView
    <3> QED BY <3>4, <3>5 DEF StoreStep, Store!Next
  <2>2. CASE CommitReturns(w)
    <3>1. /\ UNCHANGED <<page, rd, log>> /\ returned' = Len(log)
          /\ durable' = Len(log) \/ durable' = durable
      BY <2>2 DEF CommitReturns, file
    <3>2. UNCHANGED <<StoreFrom, StoreView>> /\ durable' \in durable..Len(log)
      BY <1>2, <3>1, ReadersUntouched
    <3>3. Store!Return
      BY <3>1, <3>2 DEF Store!Return, StoreFrom, StoreView
    <3> QED BY <3>3 DEF StoreStep, Store!Next
  <2>3. CASE SyncData(w)
    <3>1. UNCHANGED rd
      BY <2>3 DEF SyncData
    <3>2. CASE SyncFile
      <4>1. UNCHANGED <<page, log, returned>> /\ durable' = Len(log)
        BY <1>1, <3>2, SyncEffect
      <4>2. UNCHANGED <<StoreFrom, StoreView>> /\ durable' \in durable..Len(log)
        BY <1>2, <3>1, <4>1, ReadersUntouched
      <4>3. Store!Persist
        BY <4>1, <4>2 DEF Store!Persist, StoreFrom, StoreView
      <4> QED BY <4>3 DEF StoreStep, Store!Next
    <3>3. CASE UNCHANGED <<file, unsynced, history>>
      BY <3>1, <3>3, ReadersUntouched, StoreStutters DEF file, history
    <3> QED BY <2>3, <3>2, <3>3 DEF SyncData
  <2>4. CASE \E m \in Modes : Flush(w, m)
    <3>1. PICK m \in Modes : Flush(w, m)
      BY <2>4
    <3>2. UNCHANGED <<rd, log, returned, durable>>
      BY <3>1 DEF Flush, history
    <3>3. \A r \in Readers : rd[r].pc = "active" => View(rd[r].root)' = View(rd[r].root)
      BY <3>1, FlushSInv
    <3> QED BY <3>2, <3>3, ReadersSame, StoreStutters
  <2>5. CASE WriteMetaFails(w)
    BY <2>5 DEF WriteMetaFails
  <2>6. CASE \/ AllocReuse(w) \/ AllocFetch(w) \/ FindOldest(w) \/ OldestFound(w) \/ AllocNew(w)
             \/ \E k \in Keys : Touch(w, k)
             \/ \E r \in Readers : ScanReader(w, r)
    <3>1. UNCHANGED <<rd, page, log, returned, durable>>
      BY <2>6 DEF AllocReuse, AllocFetch, FindOldest, OldestFound, AllocNew, Touch, ScanReader,
                  Private, file, history
    <3> QED BY <3>1, ReadersUntouched, StoreStutters
  <2>7. CASE BeginWrite(w) \/ AbortWrite(w) \/ CommitFails(w) \/ PublishTxn(w) \/ WriterDies(w)
    <3>1. UNCHANGED <<rd, page, log, returned, durable>>
      BY <2>7 DEF BeginWrite, AbortWrite, CommitFails, PublishTxn, WriterDies, file, history
    <3> QED BY <3>1, ReadersUntouched, StoreStutters
  <2> QED BY <1>5, <2>1, <2>2, <2>3, <2>4, <2>5, <2>6, <2>7 DEF WriterNext
<1> QED BY <1>3, <1>4, <1>5

\* Readers and commits implement the snapshot store: a reader sees one state of
\* the log of commits, no older than the last commit that had returned when it
\* began, and goes on seeing it while writers reuse pages, die and recover; a
\* crash of the machine cuts the log, never below what was made durable.
THEOREM StoreImplemented ==
    ASSUME ~MetaWriteCanFail
    PROVE  Spec => ImplementsSnapshotStore
<1>1. Init => Store!Init
  <2> SUFFICES ASSUME Init PROVE Store!Init
    OBVIOUS
  <2>1. View(FirstMeta.root) = [k \in Keys |-> Blank]
    BY DEF View, FirstMeta
  <2>2. log = <<[k \in Keys |-> Blank]>> /\ returned = 1 /\ durable = 1
    BY <2>1 DEF Init
  <2>3. IdleReader.id = 0 /\ IdleReader.pc = "idle" /\ rd = [r \in Readers |-> IdleReader]
    BY DEF Init, IdleReader
  <2>4. StoreFrom = [r \in Readers |-> 1] /\ StoreView = [r \in Readers |-> NoView]
    BY <2>3 DEF StoreFrom, StoreView
  <2> QED BY <2>2, <2>4 DEF Store!Init, StoreFrom, StoreView
<1>2. CInv /\ [Next]_vars => [Store!Next]_(Store!vars)
  <2> SUFFICES ASSUME CInv, [Next]_vars PROVE StoreStep
    BY DEF StoreStep
  <2>0. SInv
    BY DEF CInv
  <2>1. CASE UNCHANGED vars
    BY <2>1, ReadersUntouched, StoreStutters DEF vars, file, history
  <2>2. CASE \E r \in Readers : ReaderNext(r)
    BY <2>0, <2>2, ReaderStoreStep
  <2>3. CASE EnvSync \/ MutexFailed \/ \E w \in Writers : WriterNext(w)
    BY <2>0, <2>3, WriterStoreStep
  <2>4. CASE Crash
    BY <2>4, CrashStoreStep
  <2> QED BY <2>1, <2>2, <2>3, <2>4 DEF Next
<1> QED BY SnapshotInvariance, <1>1, <1>2, PTL DEF Spec, ImplementsSnapshotStore, Store!Spec
=============================================================================
