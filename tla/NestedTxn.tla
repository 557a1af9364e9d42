------------------------------ MODULE NestedTxn ------------------------------
(* The page lists of a write transaction and of the transactions nested in    *)
(* it, in mdb.c: dirty pages in memory, pages spilled to the map when the     *)
(* dirty list is nearly full, loose pages, freed pages, and the reclaimed     *)
(* pages of the environment that a nested transaction must be able to give    *)
(* back.                                                                      *)
(*                                                                            *)
(* Sources: mdb_txn_begin, mdb_txn_end, mdb_txn_commit, mdb_page_get,         *)
(* mdb_page_touch, mdb_page_spill, mdb_pages_xkeep, mdb_page_unspill,         *)
(* mdb_page_flush, mdb_page_alloc, mdb_page_loose, mdb_ovpage_free,           *)
(* mdb_drop0, mdb_freelist_save, and the calls of them in mdb_cursor_put,     *)
(* mdb_cursor_del and mdb_page_merge.                                         *)
(*                                                                            *)
(* A key stands for one page: a leaf (Leaves), or the overflow page of a      *)
(* large value (Overflows).  The pages above them are a table that goes with  *)
(* mt_dbs and takes no room in the dirty list.  There are no readers, so the  *)
(* freeDB is what this transaction may reclaim (old, one record) and what the *)
(* last one freed (recent).  The map is not a writemap.  One writer at a time *)
(* runs here; Mvcc has the others.                                            *)
EXTENDS Naturals, Sequences, FiniteSets, SequencesExt, FiniteSetsExt

CONSTANTS
    Leaves, Overflows,  \* keys by the kind of their page
    Values,
    MaxPg,              \* me_maxpg
    MaxDirty,           \* MDB_IDL_UM_MAX
    Need,               \* the estimate of mdb_page_spill, and what it spills
    MaxDepth,           \* bound on nesting
    MaxOps,             \* bound on writing operations and failed commits
    SpillFailsAt,       \* depths at which writing spilled pages may fail
    NoPage, Blank, Failed

Keys == Leaves \cup Overflows
Pages == 2..(MaxPg - 1)

ASSUME ConstantsAssumption ==
    /\ Leaves \cap Overflows = {}
    /\ {MaxPg, MaxDirty, Need, MaxDepth, MaxOps} \subseteq Nat
    /\ IsFiniteSet(Keys) /\ Cardinality(Keys) + 3 <= MaxPg  \* UsedDb fits in the map
    /\ SpillFailsAt \subseteq Nat
    /\ NoPage \notin Nat /\ Blank \notin Values
    /\ Failed \notin [Keys -> Values \cup {Blank}]

VARIABLES
    txns,      \* the open write transaction and its descendants, outermost first
    map,       \* the pages of the map
    pgstate,   \* me_pgstate: reclaimed pages, and was the old record read
    db,        \* the newest meta page: roots, last page, freeDB
    ops        \* writing operations and failed commits so far

vars == <<txns, map, pgstate, db, ops>>

NoPages == [p \in {} |-> Blank]
NothingRead == [head |-> {}, read |-> FALSE]
Top == txns[Len(txns)]

\* A new environment, or one in use: every key has its page, and the page after
\* them is free.
NewDb == [root |-> [k \in Keys |-> NoPage], next |-> 2, old |-> {}, recent |-> {}]
UsedDb ==
    LET n == Cardinality(Keys)
    IN  [root |-> CHOOSE f \in Bijection(Keys, 2..(n + 1)) : TRUE,
         next |-> n + 3, old |-> {n + 2}, recent |-> {}]

Init ==
    /\ txns = <<>>
    /\ pgstate = NothingRead
    /\ db \in {NewDb, UsedDb}
    /\ \E v \in Values : map = [p \in Pages |-> IF p \in Range(db.root) THEN v ELSE Blank]
    /\ ops = 0

-----------------------------------------------------------------------------
(* Finding a page. *)

\* mdb_page_get for the last of the transactions ts: the innermost one that
\* lists the page decides whether it is in memory or, spilled, in the map.
PageGet(ts, m, p) ==
    LET hits == {i \in 1..Len(ts) : p \in ts[i].spill \cup DOMAIN ts[i].dirty}
        at == IF hits = {} THEN 0 ELSE Max(hits)
    IN  IF at = 0 \/ p \in ts[at].spill
        THEN [at |-> at, dirty |-> FALSE, page |-> [val |-> m[p], keep |-> FALSE]]
        ELSE [at |-> at, dirty |-> TRUE, page |-> ts[at].dirty[p]]

\* The state that the i-th transaction sees.
View(i) ==
    LET ts == SubSeq(txns, 1, i)
    IN  [k \in Keys |-> IF ts[i].root[k] = NoPage THEN Blank
                        ELSE PageGet(ts, map, ts[i].root[k]).page.val]

\* The state that the newest meta page stands for.
Committed == [k \in Keys |-> IF db.root[k] = NoPage THEN Blank ELSE map[db.root[k]]]

-----------------------------------------------------------------------------
(* An operation works on a record: the innermost transaction t and the ones   *)
(* below it, the map, the page state of the environment, and the page that    *)
(* was allocated last.                                                        *)

Working == [below |-> Front(txns), t |-> Top, map |-> map, pg |-> pgstate, np |-> NoPage]
Stack(w) == Append(w.below, w.t)
Lookup(w, p) == PageGet(Stack(w), w.map, p)
Fail(w) == [w EXCEPT !.t.error = TRUE, !.np = NoPage]

\* mdb_page_dirty puts a page in the dirty list and takes a place there.
Insert(dirty, p, page) == [q \in DOMAIN dirty \cup {p} |-> IF q = p THEN page ELSE dirty[q]]
PageDirty(w, p, page) == [w EXCEPT !.t.dirty = Insert(@, p, page), !.t.room = @ - 1, !.np = p]

\* mdb_page_alloc of one page.
PageAlloc(w) ==
    LET pg == IF w.pg.head = {} /\ ~w.pg.read /\ db.old # {}
              THEN [head |-> db.old, read |-> TRUE] ELSE w.pg
        p == IF pg.head # {} THEN Min(pg.head) ELSE w.t.next
        new == [val |-> Blank, keep |-> FALSE]
    IN  IF w.t.loose # <<>>
        THEN [w EXCEPT !.np = Head(w.t.loose), !.t.loose = Tail(@)]
        ELSE IF w.t.room = 0 \/ (pg.head = {} /\ w.t.next + 1 >= MaxPg)
        THEN Fail(w)
        ELSE IF pg.head # {}
        THEN PageDirty([w EXCEPT !.pg = [pg EXCEPT !.head = @ \ {p}]], p, new)
        ELSE PageDirty([w EXCEPT !.t.next = @ + 1], p, new)

\* mdb_page_unspill of a page that some transaction of the stack spilled; an
\* ancestor's list keeps it until this transaction commits.
Unspill(w, p) == PageDirty([w EXCEPT !.t.spill = @ \ {p}], p, Lookup(w, p).page)

\* A page that is dirty in an ancestor is copied; the ancestor has counted it.
CopyFromParent(w, p) == [w EXCEPT !.t.dirty = Insert(@, p, Lookup(w, p).page)]

\* mdb_page_touch of the leaf of k.
PageTouch(w, k) ==
    LET p == w.t.root[k]
        found == Lookup(w, p)
        a == PageAlloc(w)
    IN  IF found.dirty
        THEN IF found.at = Len(txns) THEN w ELSE CopyFromParent(w, p)
        ELSE IF found.at > 0 /\ w.t.spills
        THEN IF w.t.room = 0 THEN Fail(w) ELSE Unspill(w, p)
        ELSE IF a.t.error THEN a
        ELSE [a EXCEPT !.t.dirty[a.np] = found.page, !.t.root[k] = a.np,
                       !.t.free = @ \cup {p}]

\* mdb_page_new for the page of k.
PageNew(w, k) ==
    LET a == PageAlloc(w)
    IN  IF a.t.error THEN a ELSE [a EXCEPT !.t.root[k] = a.np]

\* mdb_page_loose: a page that this transaction dirtied can be used again.
PageLoose(w, k) ==
    LET p == w.t.root[k]
        found == Lookup(w, p)
        gone == [w EXCEPT !.t.root[k] = NoPage]
    IN  IF found.dirty /\ found.at = Len(txns)
        THEN [gone EXCEPT !.t.loose = <<p>> \o @]
        ELSE [gone EXCEPT !.t.free = @ \cup {p}]

\* mdb_ovpage_free: in the outermost transaction, a page acquired by it goes
\* back to the reclaimed ones.
OvpageFree(w, k) ==
    LET p == w.t.root[k]
        found == Lookup(w, p)
        gone == [w EXCEPT !.t.root[k] = NoPage]
    IN  IF w.pg.read /\ Len(txns) = 1 /\ found.at = 1
        THEN [gone EXCEPT !.pg.head = @ \cup {p}, !.t.spill = @ \ {p},
                          !.t.dirty = Restrict(@, DOMAIN @ \ {p}),
                          !.t.room = IF found.dirty THEN @ + 1 ELSE @]
        ELSE [gone EXCEPT !.t.free = @ \cup {p}]

-----------------------------------------------------------------------------
(* mdb_page_spill, which the writing operations begin with. *)

\* The leaves that cursors at keys K are on; mdb_pages_xkeep flags them with
\* P_KEEP, in whichever dirty list they are, and takes the flags away again.
LeafPages(K) == {Top.root[k] : k \in K \cap Leaves} \ {NoPage}
SetKeep(dirty, P, b) ==
    [p \in DOMAIN dirty |-> IF p \in P THEN [dirty[p] EXCEPT !.keep = b] ELSE dirty[p]]
XKeep(P, b) ==
    LET at == [p \in P |-> PageGet(txns, map, p).at]
    IN  [i \in 1..Len(txns) |->
            [txns[i] EXCEPT !.dirty = SetKeep(@, {p \in P : at[p] = i}, b)]]

\* Mutant: a page spilled by an ancestor may be spilled again.
SpilledByNobody(p) == FALSE
SpilledByAncestor(p) == \E i \in 1..(Len(txns) - 1) : p \in txns[i].spill

\* Mutant: loose pages are spilled as well.
SpillableWithLoose(kept) ==
    {p \in DOMAIN Top.dirty \ kept : ~Top.dirty[p].keep /\ ~SpilledByAncestor(p)}
Spillable(kept) ==
    {p \in DOMAIN Top.dirty \ kept : /\ ~Top.dirty[p].keep
                                     /\ p \notin Range(Top.loose)
                                     /\ ~SpilledByAncestor(p)}

\* From the tail of the dirty list, as many as are needed.
FromTail(P) == {p \in P : Cardinality({q \in P : q > p}) < Need}

\* The part of the dirty list that mdb_page_flush walks to write pages P,
\* clearing P_KEEP.
Walked(P) == IF Cardinality(P) < Need THEN DOMAIN Top.dirty
             ELSE {p \in DOMAIN Top.dirty : \E q \in P : p >= q}

\* mdb_page_flush of the pages P of a dirty list.
Flushed(dirty, P) == [p \in Pages |-> IF p \in P THEN dirty[p].val ELSE map[p]]

Spill(K) ==
    LET kept == LeafPages(K)
        out == FromTail(Spillable(kept))
        dirty == SetKeep(Top.dirty, Walked(out) \cup kept, FALSE)
    IN  [Working EXCEPT !.below = Front(XKeep(kept, FALSE)),
                        !.t.dirty = Restrict(dirty, DOMAIN dirty \ out),
                        !.t.spill = @ \cup out,
                        !.t.room = @ + Cardinality(out),
                        !.t.spills = TRUE,
                        !.map = Flushed(Top.dirty, out)]

\* What an operation with a cursor at K starts from; other cursors may be
\* anywhere.
AfterSpill(K) == IF Top.room > Need THEN {Working} ELSE {Spill(K \cup C) : C \in SUBSET Leaves}

Finish(w) == /\ txns' = Append(w.below, [w.t EXCEPT !.wrote = TRUE])
             /\ map' = w.map
             /\ pgstate' = w.pg
             /\ ops < MaxOps /\ ops' = ops + 1
             /\ UNCHANGED db

CanWrite == txns # <<>> /\ ~Top.error

\* Writing the pages fails half-way: the operation returns at once, with the
\* flags still set and the pages in both lists.
SpillFails ==
    /\ CanWrite /\ Len(txns) \in SpillFailsAt
    /\ Top.room <= Need
    /\ \E K \in SUBSET Leaves :
          LET kept == LeafPages(K)
              out == FromTail(Spillable(kept))
              flagged == XKeep(kept, TRUE)
              failed == [Last(flagged) EXCEPT !.spill = @ \cup out, !.error = TRUE]
          IN  /\ out # {}
              /\ \E P \in SUBSET out :
                    Finish([Working EXCEPT !.below = Front(flagged), !.t = failed,
                                           !.map = Flushed(Top.dirty, P)])

-----------------------------------------------------------------------------
(* Writing. *)

\* The value goes to the page of k, now in this transaction's dirty list.
Store(w, k, v) == IF w.t.error THEN w
                  ELSE [w EXCEPT !.t.dirty[w.t.root[k]].val = v]

\* mdb_cursor_put of a value in a leaf.
PutLeaf(k, v) ==
    /\ CanWrite
    /\ \E w \in AfterSpill({k}) :
          Finish(Store(IF w.t.root[k] = NoPage THEN PageNew(w, k) ELSE PageTouch(w, k), k, v))

\* A large value over an old one: on its page if that is ours or can be, on a
\* new one if it is clean or too small.  A dirty list too full to take the
\* page back from the map fails the call and not the transaction.
OverwriteOverflow(w, k, v, fits) ==
    LET p == w.t.root[k]
        found == Lookup(w, p)
    IN  IF ~fits \/ found.at = 0 THEN Store(PageNew(OvpageFree(w, k), k), k, v)
        ELSE IF found.dirty
        THEN Store(IF found.at = Len(txns) THEN w ELSE CopyFromParent(w, p), k, v)
        ELSE IF w.t.room = 0 THEN w ELSE Store(Unspill(w, p), k, v)

PutOverflow(k, v) ==
    /\ CanWrite
    /\ \E w \in AfterSpill({}) :
          IF w.t.root[k] = NoPage THEN Finish(Store(PageNew(w, k), k, v))
          ELSE \E fits \in BOOLEAN : Finish(OverwriteOverflow(w, k, v, fits))

\* The leaf that a deletion emptied is merged away.
DelLeaf(k) ==
    /\ CanWrite /\ Top.root[k] # NoPage
    /\ \E w \in AfterSpill({k}) :
          LET touched == PageTouch(w, k)
          IN  Finish(IF touched.t.error THEN touched ELSE PageLoose(touched, k))

\* The neighbour of such a leaf, which was not touched, is merged into it.
MergeLeaf(k) ==
    /\ CanWrite /\ Top.root[k] # NoPage
    /\ \E w \in AfterSpill({}) : Finish(PageLoose(w, k))

DelOverflow(k) ==
    /\ CanWrite /\ Top.root[k] # NoPage
    /\ \E w \in AfterSpill({}) : Finish(OvpageFree(w, k))

\* mdb_drop0 frees every page as it stands.
Drop ==
    /\ CanWrite
    /\ LET used == {Top.root[k] : k \in Keys} \ {NoPage}
       IN  Finish([Working EXCEPT !.t.root = [k \in Keys |-> NoPage],
                                  !.t.free = @ \cup used])

-----------------------------------------------------------------------------
(* Beginning and ending. *)

Begin ==
    /\ txns = <<>>
    /\ txns' = <<[root |-> db.root, dirty |-> NoPages, spill |-> {}, free |-> {},
                  loose |-> <<>>, room |-> MaxDirty, next |-> db.next,
                  spills |-> FALSE, error |-> FALSE, wrote |-> FALSE,
                  saved |-> NothingRead]>>
    /\ UNCHANGED <<map, pgstate, db, ops>>

BeginNested ==
    /\ CanWrite /\ Len(txns) < MaxDepth
    /\ txns' = Append(txns, [Top EXCEPT !.dirty = NoPages, !.spill = {}, !.free = {},
                                        !.loose = <<>>, !.wrote = FALSE,
                                        !.saved = pgstate])
    /\ UNCHANGED <<map, pgstate, db, ops>>

\* Mutant: pages reclaimed by a nested transaction stay reclaimed.
PgstateKept == IF Len(txns) = 1 THEN NothingRead ELSE pgstate
\* mdb_txn_end: what the parent had reclaimed is put back.
RestoredPgstate == IF Len(txns) = 1 THEN NothingRead ELSE Top.saved

Abort ==
    /\ txns # <<>>
    /\ txns' = Front(txns)
    /\ pgstate' = RestoredPgstate
    /\ UNCHANGED <<map, db, ops>>

\* Mutant: what the child spilled stays in the parent's dirty list.
DirtyUnionOnly(p, c) ==
    [q \in DOMAIN c.dirty \cup DOMAIN p.dirty |->
        IF q \in DOMAIN c.dirty THEN c.dirty[q] ELSE p.dirty[q]]
MergedDirty(p, c) ==
    [q \in DOMAIN c.dirty \cup (DOMAIN p.dirty \ c.spill) |->
        IF q \in DOMAIN c.dirty THEN c.dirty[q] ELSE p.dirty[q]]

\* mdb_txn_commit of a child c into its parent p.
Merged(p, c) ==
    [p EXCEPT !.free = @ \cup c.free, !.next = c.next, !.root = c.root,
              !.spills = c.spills, !.wrote = @ \/ c.wrote, !.room = c.room,
              !.spill = (@ \ DOMAIN c.dirty) \cup c.spill,
              !.dirty = MergedDirty(p, c), !.loose = @ \o c.loose]

CommitNested ==
    /\ Len(txns) > 1 /\ ~Top.error
    /\ txns' = Append(Front(Front(txns)), Merged(txns[Len(txns) - 1], Top))
    /\ UNCHANGED <<map, pgstate, db, ops>>

\* A failed child cannot be committed, and trying to fails the parent.
CommitFailed ==
    /\ txns # <<>> /\ Top.error
    /\ txns' = [i \in 1..(Len(txns) - 1) |->
                   [txns[i] EXCEPT !.error = @ \/ i = Len(txns) - 1]]
    /\ pgstate' = RestoredPgstate
    /\ UNCHANGED <<map, db, ops>>

\* mdb_page_flush leaves out what is loose or flagged.
ToFlush == {p \in DOMAIN Top.dirty : p \notin Range(Top.loose) /\ ~Top.dirty[p].keep}

\* The outermost commit: the freelist, the dirty pages, the meta page.  Loose
\* pages are freed, or return to the reclaimed ones if there is a list of those.
Commit ==
    /\ Len(txns) = 1 /\ ~Top.error
    /\ IF Top.wrote
       THEN LET loose == Range(Top.loose)
                read == pgstate.read
            IN  /\ map' = Flushed(Top.dirty, ToFlush)
                /\ db' = [root |-> Top.root, next |-> Top.next,
                          old |-> db.recent \cup (IF read THEN pgstate.head \cup loose ELSE db.old),
                          recent |-> Top.free \cup (IF read THEN {} ELSE loose)]
       ELSE UNCHANGED <<map, db>>
    /\ txns' = <<>>
    /\ pgstate' = NothingRead
    /\ UNCHANGED ops

\* Writing the pages fails half-way.
CommitFails ==
    /\ Len(txns) = 1 /\ ~Top.error /\ Top.wrote
    /\ \E P \in SUBSET ToFlush : map' = Flushed(Top.dirty, P)
    /\ txns' = <<>>
    /\ pgstate' = NothingRead
    /\ ops < MaxOps /\ ops' = ops + 1
    /\ UNCHANGED db

Next ==
    \/ Begin \/ BeginNested \/ Abort \/ CommitNested \/ CommitFailed
    \/ Commit \/ CommitFails \/ SpillFails \/ Drop
    \/ \E k \in Leaves : DelLeaf(k) \/ MergeLeaf(k) \/ \E v \in Values : PutLeaf(k, v)
    \/ \E k \in Overflows : DelOverflow(k) \/ \E v \in Values : PutOverflow(k, v)

Spec == Init /\ [][Next]_vars
-----------------------------------------------------------------------------
\* mt_dirty_room "includes ancestor txns' dirty pages not hidden by other txns'
\* dirty/spilled pages" (mdb.c:1365): every page that the stack of transactions
\* finds in memory is counted once.  mdb_txn_commit takes the length of a merged
\* list from it (mdb.c:3943, asserted at 3954).
RoomExact ==
    \A i \in 1..Len(txns) : ~txns[i].error =>
        LET ts == SubSeq(txns, 1, i)
        IN  txns[i].room = MaxDirty - Cardinality({p \in Pages : PageGet(ts, map, p).dirty})

\* For every transaction of the stack, as it would be if those above it were
\* aborted now: each page below mt_next_pgno is used by one key, freed, loose,
\* reclaimed or in the freeDB, and only one of these.
PagesAccounted ==
    \A i \in 1..Len(txns) :
        LET t == txns[i]
            pg == IF i = Len(txns) THEN pgstate ELSE txns[i + 1].saved
            used == {t.root[k] : k \in Keys} \ {NoPage}
            free == UNION {txns[j].free : j \in 1..i}
            loose == UNION {Range(txns[j].loose) : j \in 1..i}
            unread == IF pg.read THEN {} ELSE db.old
        IN  /\ used \cup free \cup loose \cup pg.head \cup unread \cup db.recent = 2..(t.next - 1)
            /\ t.next - 2 = Cardinality({k \in Keys : t.root[k] # NoPage})
                 + Cardinality(free) + Cardinality(loose) + Cardinality(pg.head)
                 + Cardinality(unread) + Cardinality(db.recent)

\* A page is in one of a transaction's dirty and spill lists, in the spill list
\* of one transaction at most, and loose pages are dirty (asserted by
\* mdb_freelist_save, mdb.c:3482).
ListsConsistent ==
    \A i \in 1..Len(txns) : ~txns[i].error =>
        /\ DOMAIN txns[i].dirty \cap txns[i].spill = {}
        /\ Range(txns[i].loose) \subseteq DOMAIN txns[i].dirty
        /\ \A j \in 1..(i - 1) : txns[i].spill \cap txns[j].spill = {}

\* "Commit all the operations of a transaction into the database" (mdb_txn_commit,
\* lmdb.h:1036): what the outermost transaction saw is what a new reader sees.
CommitSavesAll ==
    [][Len(txns) = 1 /\ txns' = <<>> /\ db' # db => Committed' = View(1)]_vars

\* The lists of pages implement a stack of copies: whatever was spilled, copied
\* or reused, every transaction sees its own state, an aborted child leaves its
\* parent's as it was, and until the outermost commit the committed state is
\* untouched in the map.
Nested == INSTANCE NestedStore WITH
    Contents <- Values \cup {Blank},
    committed <- Committed,
    stack <- [i \in 1..Len(txns) |-> IF txns[i].error THEN Failed ELSE View(i)]

\* The abstract specification as a property.
ImplementsNestedStore == Nested!Spec
=============================================================================
