------------------------------- MODULE BTree -------------------------------
(* The B-tree of one database of LMDB inside one write transaction: the       *)
(* pages, the record MDB_db of the database, and the tracked cursors          *)
(* (mt_cursors) that every change of the tree has to move along.              *)
(*                                                                            *)
(* A call of the API is one action, computed by operators that mirror the     *)
(* functions of mdb.c.  They work on a record s holding the whole state, in   *)
(* which s.cur holds the open cursors and the temporary cursors of the call   *)
(* (numbers), s.tracked those on mt_cursors, and s.rc the result so far.      *)
(*                                                                            *)
(* Sizes are bytes as in the code (MDB_node header, slot in mp_ptrs, even     *)
(* lengths); of a value only its length is kept.  Left out: sub-databases     *)
(* of MDB_DUPSORT, MDB_DUPFIXED pages, overflow pages and spilling (module    *)
(* NestedTxn), reuse of pages of older transactions (module Mvcc).            *)
EXTENDS Integers, Sequences, FiniteSets, SequencesExt

CONSTANTS
    Keys,        \* the keys, numbers in the order of md_cmp
    KeySize,     \* length of each key
    DataSizes,   \* the values that are put, each named by its length
    PMax,        \* bytes of a page after its header: me_psize - PAGEHDRSZ
    Cursors,     \* the cursors the application may open
    Loads,       \* sequences of changes made before the behaviour starts
    OpKeys,      \* the keys the application uses in its calls
    MissedStays, \* whether items are deleted while another cursor rests where
                 \* a search for a missing key left it
    MaxOps       \* bound on the number of calls

\* The items are those the code keeps in the leaf page: a node is at most
\* me_nodemax bytes, so that two fit on a page.  Larger ones have an overflow
\* page.
ASSUME SizesAssumption ==
    /\ KeySize \in [Keys -> Nat \ {0}]
    /\ \A k \in Keys, v \in DataSizes : 8 + KeySize[k] + v + 2 <= 2 * (PMax \div 4)

VARIABLES
    pages,       \* the pages of the map and of the dirty list, by number
    db,          \* MDB_db of the database
    txn,         \* allocation state and error flag of the transaction
    cur,         \* the open cursors
    ret,         \* the last call with its result
    ops,         \* number of calls so far
    view         \* the items and the places of the cursors, read from the others

vars == <<pages, db, txn, cur, ret, ops, view>>

----------------------------------------------------------------------------
(* Pages, nodes and sizes. *)

NoPage == 0       \* P_INVALID
EmptyDb == [root |-> NoPage, depth |-> 0, entries |-> 0, leafs |-> 0, branches |-> 0]
NullKey == 0      \* the empty key of the first node of a branch page
NodeHdr == 8      \* NODESIZE
Slot == 2         \* sizeof(indx_t)
FillThreshold == 250
FewKeys == 32     \* the pages whose split point is always searched
SmallPart == 16   \* the part of a page up to which a new node is small
MaxDepth == 5     \* more than any tree of the instances needs (CURSOR_STACK is 32)
Levels == 0..MaxDepth

Even(n) == n + (n % 2)
KSize(k) == IF k = NullKey THEN 0 ELSE KeySize[k]
BranchSize(k) == Even(NodeHdr + KSize(k)) + Slot
LeafSize(k, v) == Even(NodeHdr + KSize(k) + v) + Slot
NodeSize(leaf, nd) == IF leaf THEN LeafSize(nd.k, nd.v) ELSE BranchSize(nd.k)

RECURSIVE Bytes(_, _)
Bytes(leaf, nodes) ==
    IF nodes = <<>> THEN 0
    ELSE NodeSize(leaf, Head(nodes)) + Bytes(leaf, Tail(nodes))

Nodes(s, p) == s.pages[p].nodes
Leaf(s, p) == s.pages[p].leaf
NumKeys(s, p) == Len(Nodes(s, p))
SizeLeft(s, p) == PMax - Bytes(Leaf(s, p), Nodes(s, p))
PageFill(s, p) == (1000 * Bytes(Leaf(s, p), Nodes(s, p))) \div PMax

\* Node i (from 0) of page p: NODEPTR.
Node(s, p, i) == Nodes(s, p)[i + 1]

----------------------------------------------------------------------------
(* Cursors.  The stack of a cursor is mc_pg and mc_ki; mc_top is the level    *)
(* it works on, mc_snum the number of levels.                                 *)

NewCursor ==
    [init |-> FALSE, eof |-> FALSE, del |-> FALSE, snum |-> 0, top |-> 0,
     pg |-> [l \in Levels |-> NoPage], ki |-> [l \in Levels |-> 0]]

TopPg(s, c) == s.cur[c].pg[s.cur[c].top]
TopKi(s, c) == s.cur[c].ki[s.cur[c].top]
SetKi(s, c, i) == [s EXCEPT !.cur[c].ki[s.cur[c].top] = i]

Ok(s) == s.rc = "ok"
Rc(s, rc) == [s EXCEPT !.rc = rc]

\* An error that should never happen: the transaction is marked MDB_TXN_ERROR.
Broken(s, rc) == [s EXCEPT !.rc = rc, !.txn.error = TRUE]
CAssert(s, cond) == IF cond THEN s ELSE Broken(s, "assert")

CursorSet0(s, c, m) ==
    [s EXCEPT !.cur = [x \in DOMAIN @ \cup {c} |-> IF x = c THEN m ELSE s.cur[x]]]

\* mdb_cursor_copy: the levels in use and the flags.
CursorCopy(s, from, to) ==
    LET m == s.cur[from]
        old == IF to \in DOMAIN s.cur THEN s.cur[to] ELSE NewCursor
    IN CursorSet0(s, to, [m EXCEPT
           !.pg = [l \in Levels |-> IF l < m.snum THEN @[l] ELSE old.pg[l]],
           !.ki = [l \in Levels |-> IF l < m.snum THEN @[l] ELSE old.ki[l]]])
Track(s, c) == [s EXCEPT !.tracked = @ \cup {c}]
Untrack(s, c) == [s EXCEPT !.tracked = @ \ {c}]

\* Apply Fix to the tracked cursors but those of skip.
Adjust(s, skip, Fix(_)) ==
    [s EXCEPT !.cur = [x \in DOMAIN @ |->
        IF x \in s.tracked \ skip THEN Fix(s.cur[x]) ELSE s.cur[x]]]

CursorPop(s, c) ==
    LET m == s.cur[c] IN
    IF m.snum = 0 THEN s
    ELSE [s EXCEPT !.cur[c].snum = m.snum - 1,
                   !.cur[c].top = IF m.snum > 1 THEN m.top - 1 ELSE m.top,
                   !.cur[c].init = m.snum > 1 /\ m.init]

CursorPush(s, c, p) ==
    LET n == s.cur[c].snum IN
    [s EXCEPT !.cur[c].top = n, !.cur[c].snum = n + 1,
              !.cur[c].pg[n] = p, !.cur[c].ki[n] = 0]

\* Go on with Op unless s already failed.
Then(s, Op(_)) == IF Ok(s) THEN Op(s) ELSE s

----------------------------------------------------------------------------
(* Allocation and copy-on-write. *)

\* The page the next allocation returns: a loose page, or a new one.
NewPgno(s) == IF s.txn.loose # <<>> THEN Head(s.txn.loose) ELSE s.txn.next

PageAlloc(s, page) ==
    LET p == NewPgno(s) IN
    [s EXCEPT
        !.pages = [q \in DOMAIN @ \cup {p} |-> IF q = p THEN page ELSE s.pages[q]],
        !.txn.loose = IF @ # <<>> THEN Tail(@) ELSE @,
        !.txn.next = IF s.txn.loose # <<>> THEN @ ELSE @ + 1]

PageNew(s, leaf) ==
    LET t == PageAlloc(s, [leaf |-> leaf, dirty |-> TRUE, nodes |-> <<>>]) IN
    IF leaf THEN [t EXCEPT !.db.leafs = @ + 1] ELSE [t EXCEPT !.db.branches = @ + 1]

\* Mutant: a clean page is dropped without being freed
PageLooseLeak(s, p) ==
    IF s.pages[p].dirty THEN [s EXCEPT !.txn.loose = <<p>> \o @] ELSE s

\* A page that was dirtied here can be used again at once.
PageLoose(s, p) ==
    IF s.pages[p].dirty THEN [s EXCEPT !.txn.loose = <<p>> \o @]
    ELSE [s EXCEPT !.txn.free = Append(@, p)]

\* Page mp of level l of cursor c is copied to page np.
CopyPage(s, c, l, mp, np) ==
    LET a == PageAlloc(s, [s.pages[mp] EXCEPT !.dirty = TRUE])
        up == l - 1
        b == [a EXCEPT !.txn.free = Append(@, mp),
                       !.cur[c].pg[l] = np,
                       !.db.root = IF l = 0 THEN np ELSE @,
                       !.pages = IF l = 0 THEN @
                                 ELSE [@ EXCEPT ![s.cur[c].pg[up]].nodes[s.cur[c].ki[up] + 1].v = np]]
    IN Adjust(b, {c}, LAMBDA m : IF m.snum >= s.cur[c].snum /\ m.pg[l] = mp
                                 THEN [m EXCEPT !.pg[l] = np] ELSE m)

\* mdb_page_touch on level l of cursor c.
PageTouch(s, c, l) ==
    IF s.pages[s.cur[c].pg[l]].dirty THEN s ELSE CopyPage(s, c, l, s.cur[c].pg[l], NewPgno(s))

RECURSIVE TouchFrom(_, _, _)
TouchFrom(s, c, l) ==
    IF l >= s.cur[c].snum THEN s ELSE TouchFrom(PageTouch(s, c, l), c, l + 1)

CursorTouch(s, c) ==
    LET n == s.cur[c].snum
        t == TouchFrom(s, c, 0)
    IN [t EXCEPT !.cur[c].top = IF n > 0 THEN n - 1 ELSE 0]

----------------------------------------------------------------------------
(* Searching. *)

\* mdb_node_search: bisection in page p, the index found and whether the key
\* there is the one sought.
NodeSearch(s, p, key) ==
    LET n == NumKeys(s, p)
        Cmp(i) == IF key < Node(s, p, i).k THEN -1
                  ELSE IF key > Node(s, p, i).k THEN 1 ELSE 0
        RECURSIVE Loop(_, _, _, _)
        Loop(low, high, i, rc) ==
            IF low > high THEN <<i, rc>>
            ELSE LET j == (low + high) \div 2
                     r == Cmp(j)
                 IN IF r = 0 THEN <<j, 0>>
                    ELSE IF r > 0 THEN Loop(j + 1, high, j, r)
                    ELSE Loop(low, j - 1, j, r)
        found == Loop(IF Leaf(s, p) THEN 0 ELSE 1, n - 1, 0, 0)
    IN [i |-> IF found[2] > 0 THEN found[1] + 1 ELSE found[1],
        exact |-> found[2] = 0 /\ n > 0]

\* The child mdb_page_search_root follows from a page of n nodes, r being what
\* the search for the key found there.
ChildIndex(n, r, mode) ==
    CASE mode = "first" -> 0
      [] mode = "last" -> n - 1
      [] mode = "key" /\ (r.i >= n \/ (n = 1 /\ r.exact)) -> n - 1
      [] OTHER -> IF r.exact THEN r.i ELSE r.i - 1

At(s, c) == [s EXCEPT !.cur[c].init = TRUE, !.cur[c].eof = FALSE]

\* Go down to child i.  In search of the last key an initialised cursor that is
\* already on the last child keeps its stack below this level.
GoDown(s, c, i, mode) ==
    IF mode = "last" /\ s.cur[c].init /\ TopKi(s, c) = i
    THEN [s EXCEPT !.cur[c].top = s.cur[c].snum, !.cur[c].snum = @ + 1]
    ELSE CursorPush(SetKi(s, c, i), c, Node(s, TopPg(s, c), i).v)

RECURSIVE PageSearchRoot(_, _, _, _)

SearchChild(s, c, key, mode, n, i) ==
    IF n > 1 /\ i \in 0..(n - 1) THEN PageSearchRoot(GoDown(s, c, i, mode), c, key, mode)
    ELSE Broken(s, "assert")

PageSearchRoot(s, c, key, mode) ==
    LET p == TopPg(s, c) IN
    IF Leaf(s, p) THEN At(s, c)
    ELSE SearchChild(s, c, key, mode, NumKeys(s, p),
                     ChildIndex(NumKeys(s, p), NodeSearch(s, p, key), mode))

PageSearch(s, c, key, mode) ==
    IF s.db.root = NoPage THEN Rc(s, "notfound")
    ELSE PageSearchRoot([s EXCEPT !.cur[c].pg[0] = s.db.root, !.cur[c].snum = 1,
                                  !.cur[c].top = 0], c, key, mode)

\* The lowest key below branch page p: mdb_page_search_lowest.
RECURSIVE LowestKey(_, _)
LowestKey(s, p) ==
    IF Leaf(s, p) THEN Node(s, p, 0).k ELSE LowestKey(s, Node(s, p, 0).v)

RECURSIVE CursorSibling(_, _, _)

\* In the parent: go to the next child, or to the next parent.
SiblingIndex(s, c, right) ==
    IF IF right THEN TopKi(s, c) + 1 >= NumKeys(s, TopPg(s, c)) ELSE TopKi(s, c) = 0
    THEN CursorSibling(s, c, right)
    ELSE SetKi(s, c, IF right THEN TopKi(s, c) + 1 ELSE TopKi(s, c) - 1)

ToLastKi(s, c) == SetKi(s, c, NumKeys(s, TopPg(s, c)) - 1)

\* Go down to that child; without one the stack is as before.
SiblingChild(s, c, right) ==
    IF ~Ok(s) THEN [s EXCEPT !.cur[c].top = @ + 1, !.cur[c].snum = @ + 1]
    ELSE IF right THEN CursorPush(s, c, Node(s, TopPg(s, c), TopKi(s, c)).v)
    ELSE ToLastKi(CursorPush(s, c, Node(s, TopPg(s, c), TopKi(s, c)).v), c)

CursorSibling(s, c, right) ==
    IF s.cur[c].snum < 2 THEN Rc(s, "notfound")
    ELSE SiblingChild(SiblingIndex(CursorPop(s, c), c, right), c, right)

----------------------------------------------------------------------------
(* Nodes. *)

\* mdb_node_add: the callers are supposed to have checked that it fits.
NodeAdd(s, p, i, nd) ==
    IF NodeSize(Leaf(s, p), nd) > SizeLeft(s, p) THEN Broken(s, "page_full")
    ELSE [s EXCEPT !.pages[p].nodes = InsertAt(@, i + 1, nd)]

NodeDel(s, p, i) ==
    Then(CAssert(s, i < NumKeys(s, p)),
         LAMBDA u : [u EXCEPT !.pages[p].nodes = RemoveAt(@, i + 1)])

\* The nodes of a branch page without the key of the first one.
NullFirst(leaf, nodes) == IF leaf THEN nodes ELSE [nodes EXCEPT ![1].k = NullKey]

----------------------------------------------------------------------------
(* Splitting a page. *)

\* Mutant: split before the last node, as for MDB_APPEND
SplitIndexLast(leaf, all, newindx) == Len(all) - 1

\* The split point of the nodes all (the new one, of nsize bytes, at newindx).
SplitIndex(leaf, all, newindx) ==
    LET nkeys == Len(all) - 1
        half == (nkeys + 1) \div 2
        nsize == NodeSize(leaf, all[newindx + 1])
        up == newindx <= half \/ newindx >= nkeys
        j == IF up THEN 1 ELSE -1
        k == IF newindx >= nkeys THEN nkeys
             ELSE IF up THEN half + (IF leaf THEN 2 ELSE 1) ELSE half - 1
        RECURSIVE Scan(_, _)
        Scan(i, psize) ==
            LET size == psize + NodeSize(leaf, all[i + 1]) IN
            IF i = k THEN half
            ELSE IF size > PMax \/ i = k - j THEN IF up THEN i ELSE i + 1
            ELSE Scan(i + j, size)
    IN IF nkeys < FewKeys \/ nsize > PMax \div SmallPart \/ newindx >= nkeys
       THEN Scan(IF up THEN 0 ELSE nkeys, 0)
       ELSE half

\* A new root above mp, the page at level 0 of cursor c.
GrowRoot(s, c, mp) ==
    LET pp == NewPgno(s)
        a == PageNew(s, FALSE)
        b == [a EXCEPT
                !.cur[c].pg = [l \in Levels |-> IF l = 0 THEN pp ELSE @[l - 1]],
                !.cur[c].ki = [l \in Levels |-> IF l = 0 THEN 0 ELSE @[l - 1]],
                !.cur[c].snum = @ + 1, !.cur[c].top = @ + 1,
                !.db.root = pp, !.db.depth = @ + 1]
    IN NodeAdd(b, pp, 0, [k |-> NullKey, v |-> mp])

\* The stack of m up to level n is that of from.
FollowStack(m, from, n) ==
    [m EXCEPT !.pg = [l \in Levels |-> IF l <= n THEN from.pg[l] ELSE @[l]],
              !.ki = [l \in Levels |-> IF l <= n THEN from.ki[l] ELSE @[l]]]

\* Level n of cursor c has run off its page, which is not the one of mn.
RanOff(s, c, mn, n) ==
    s.cur[mn].pg[n] # s.cur[c].pg[n] /\ s.cur[c].ki[n] >= NumKeys(s, s.cur[c].pg[n])

RECURSIVE PageSplit(_, _, _, _, _)

\* The parent was split for the separator.  If the left page (cursor c) went to
\* another parent too, its path is found from that of the right page, mn.
LeftFollows(s, c, mn, pt) ==
    LET m == s.cur[mn]
        Follow(u) == IF m.ki[pt] > 0 THEN [u EXCEPT !.cur[c].ki[pt] = m.ki[pt] - 1]
                     ELSE CursorSibling(u, c, FALSE)
    IN IF RanOff(s, c, mn, pt) THEN Follow([s EXCEPT !.cur[c] = FollowStack(@, m, pt)]) ELSE s

\* Add the separator sep to the parent, at the index of the temporary cursor
\* mn, splitting it if it is full.
SplitParent(s, c, mn, sep, ptop) ==
    LET above == [s EXCEPT !.cur[mn].snum = @ - 1, !.cur[mn].top = @ - 1]
        Fixed(u) == LeftFollows(u, c, mn, IF u.cur[c].snum > s.cur[c].snum THEN ptop + 1 ELSE ptop)
    IN IF SizeLeft(s, s.cur[mn].pg[ptop]) >= BranchSize(sep.k)
       THEN NodeAdd(s, s.cur[mn].pg[ptop], s.cur[mn].ki[ptop], sep)
       ELSE Then(Untrack(PageSplit(Track(above, mn), mn, sep, "none", mn + 1), mn), Fixed)

\* What the split w does to another cursor m, after a new root is on its stack.
\* c is the cursor of the split, mn the path of the new page.
SplitFix(s, m, c, mn, w, didSplit) ==
    LET top == s.cur[c].top
        pt == top - 1
        ki == m.ki[top] + (IF m.ki[top] >= w.newindx /\ w.mode # "replace" THEN 1 ELSE 0)
    IN IF m.top >= top /\ m.pg[top] = w.mp
       THEN IF ki < NumKeys(s, w.mp) THEN [m EXCEPT !.ki[top] = ki]
            ELSE [FollowStack(m, s.cur[mn], pt) EXCEPT !.pg[top] = w.rp,
                                                       !.ki[top] = ki - NumKeys(s, w.mp)]
       ELSE IF ~didSplit /\ m.top >= pt /\ m.pg[pt] = s.cur[c].pg[pt] /\ m.ki[pt] >= s.cur[c].ki[pt]
       THEN [m EXCEPT !.ki[pt] = @ + 1]
       ELSE m

\* The new root (level 0 of c) is put below the stack of another cursor m.
RootFix(s, m, c, w) ==
    [m EXCEPT !.pg = [l \in Levels |-> IF l = 0 THEN s.cur[c].pg[0]
                                       ELSE IF l <= w.newRoot + 1 THEN @[l - 1] ELSE @[l]],
              !.ki = [l \in Levels |-> IF l = 0 THEN IF @[0] >= NumKeys(s, w.mp) THEN 1 ELSE 0
                                       ELSE IF l <= w.newRoot + 1 THEN @[l - 1] ELSE @[l]],
              !.snum = @ + 1, !.top = @ + 1]

SplitFixAll(s, c, mn, w, didSplit) ==
    Adjust(s, {c}, LAMBDA m :
        IF ~m.init \/ (w.newRoot > 0 /\ m.pg[0] # w.mp) THEN m
        ELSE SplitFix(s, IF w.newRoot > 0 THEN RootFix(s, m, c, w) ELSE m, c, mn, w, didSplit))

\* Cursor c goes to the new node.
SplitCursor(s, c, mn, w) ==
    LET top == s.cur[c].top
        right == [s EXCEPT !.cur[c].pg[top] = w.rp, !.cur[c].ki[top] = w.newindx - w.split,
                           !.cur[c].ki[top - 1] = @ + 1]
    IN CASE w.mode = "append" ->
              [s EXCEPT !.cur[c].pg[top] = w.rp,
                        !.cur[c].ki = [l \in Levels |-> IF l < top THEN s.cur[mn].ki[l]
                                                        ELSE IF l = top THEN 0 ELSE @[l]]]
         [] w.mode # "append" /\ w.newindx < w.split ->
              [s EXCEPT !.cur[c].pg[top] = w.mp, !.cur[c].ki[top] = w.newindx]
         [] OTHER ->
              IF RanOff(right, c, mn, top - 1)
              THEN [right EXCEPT !.cur[c] = FollowStack(@, right.cur[mn], top - 1)] ELSE right

\* The nodes are distributed over the two pages.
SplitNodes(s, c, mn, w, didSplit) ==
    LET left == NullFirst(w.leaf, SubSeq(w.all, 1, w.split))
        right == NullFirst(w.leaf, SubSeq(w.all, w.split + 1, Len(w.all)))
        a == [s EXCEPT !.pages[w.mp].nodes = left, !.pages[w.rp].nodes = right]
    IN IF Bytes(w.leaf, left) > PMax \/ Bytes(w.leaf, right) > PMax THEN Broken(s, "page_full")
       ELSE SplitFixAll(SplitCursor(a, c, mn, w), c, mn, w, didSplit)

\* The new pages exist and c has a parent: link the right page, then fill it.
SplitPages(s, c, mn, w) ==
    LET top == s.cur[c].top
        sep == [k |-> w.all[w.split + 1].k, v |-> w.rp]
        didSplit == SizeLeft(s, s.cur[c].pg[top - 1]) < BranchSize(sep.k)
        a == [CursorCopy(s, c, mn) EXCEPT
                 !.cur[mn].pg[top] = w.rp, !.cur[mn].ki[top - 1] = @ + 1,
                 !.cur[mn].ki[top] = IF w.mode = "append" THEN 0 ELSE @]
        b == SplitParent(a, c, mn, sep, top - 1)
    IN Then(b, LAMBDA u : SplitNodes(u, c, mn, w, didSplit))

\* What is to be done: w.all are the nodes with the new one, w.newRoot the
\* depth of the tree if it grows.
SplitPlan(s, c, nd, mode) ==
    LET mp == TopPg(s, c)
        all == InsertAt(Nodes(s, mp), TopKi(s, c) + 1, nd)
    IN [mp |-> mp, rp |-> NewPgno(s), leaf |-> Leaf(s, mp), newindx |-> TopKi(s, c),
        newRoot |-> IF s.cur[c].top < 1 THEN s.db.depth ELSE 0, all |-> all, mode |-> mode,
        split |-> IF mode = "append" THEN TopKi(s, c)
                  ELSE SplitIndex(Leaf(s, mp), all, TopKi(s, c))]

SplitBy(s, c, mn, w) ==
    LET a == PageNew(s, w.leaf)
    IN SplitPages(IF w.newRoot > 0 THEN GrowRoot(a, c, w.mp) ELSE a, c, mn, w)

\* mdb_page_split: split the page at the top of cursor c and insert nd there.
\* mode is append, replace (nd takes the place of a node just deleted) or none.
\* An improper sibling is MDB_PROBLEM; every failure marks the transaction.
PageSplit(s, c, nd, mode, mn) ==
    LET Result(u) == IF Ok(u) THEN u
                     ELSE Broken(u, IF u.rc = "notfound" THEN "problem" ELSE u.rc)
    IN Result(SplitBy(s, c, mn, SplitPlan(s, c, nd, mode)))

----------------------------------------------------------------------------
(* Rebalancing. *)

\* mdb_update_key: give the branch node at the top of c a new key.
UpdateKey(s, c, key, mn) ==
    LET p == TopPg(s, c)
        i == TopKi(s, c)
        old == Node(s, p, i)
        delta == Even(KSize(key)) - Even(KSize(old.k))
    IN IF delta > 0 /\ SizeLeft(s, p) < delta
       THEN PageSplit(NodeDel(s, p, i), c, [k |-> key, v |-> old.v], "replace", mn)
       ELSE [s EXCEPT !.pages[p].nodes[i + 1].k = key]

\* Mutant: the separator in the parent is left as it was
FixSeparatorForgotten(s, c, mn) == s

\* The separators of the page at the top of c, whose first node was removed or
\* replaced: the key in the parent is that of the new first node, which a
\* branch page does not keep.
FixSeparator(s, c, mn) ==
    LET p == TopPg(s, c)
        above == [CursorCopy(s, c, mn) EXCEPT !.cur[mn].snum = @ - 1, !.cur[mn].top = @ - 1]
        Parent(u) == IF s.cur[c].ki[s.cur[c].top - 1] = 0 THEN u
                     ELSE Untrack(UpdateKey(Track(above, mn), mn, Node(s, p, 0).k, mn + 1), mn)
        First(u) == IF Leaf(u, p) THEN u ELSE [u EXCEPT !.pages[p].nodes[1].k = NullKey]
    IN IF TopKi(s, c) = 0 THEN Then(Parent(s), First) ELSE s

\* What moving node si of page ps to index di of page pd at level top does to
\* another cursor m; from the left neighbour, or from the right one.
MoveFixLeft(m, top, ps, si, pd, di) ==
    IF m.pg[top] = pd /\ m.ki[top] >= di THEN [m EXCEPT !.ki[top] = @ + 1]
    ELSE IF m.pg[top] = ps /\ m.ki[top] = si
    THEN [m EXCEPT !.pg[top] = pd, !.ki[top] = di, !.ki[top - 1] = @ + 1]
    ELSE m

\* Mutant: the parent level is not moved
MoveFixRightShort(m, top, ps, pd, di) ==
    IF m.pg[top] # ps THEN m
    ELSE IF m.ki[top] # 0 THEN [m EXCEPT !.ki[top] = @ - 1]
    ELSE [m EXCEPT !.pg[top] = pd, !.ki[top] = di]

MoveFixRight(m, top, ps, pd, di) ==
    IF m.pg[top] # ps THEN m
    ELSE IF m.ki[top] # 0 THEN [m EXCEPT !.ki[top] = @ - 1]
    ELSE [m EXCEPT !.pg[top] = pd, !.ki[top] = di, !.ki[top - 1] = @ - 1]

\* The node at the top of src goes to the top of dst; both pages are dirty.
MoveTouched(s, src, dst, fromleft, mn) ==
    LET top == s.cur[src].top
        ps == TopPg(s, src)
        pd == TopPg(s, dst)
        si == TopKi(s, src)
        di == TopKi(s, dst)
        nd == IF si = 0 /\ ~Leaf(s, ps)
              THEN [Node(s, ps, 0) EXCEPT !.k = LowestKey(s, ps)] ELSE Node(s, ps, si)
        keyed == IF di # 0 \/ Leaf(s, pd) THEN s
                 ELSE UpdateKey(CursorCopy(s, dst, mn), mn, LowestKey(s, pd), mn + 1)
        Fix(m) == IF ~m.init \/ m.top < top THEN m
                  ELSE IF fromleft THEN MoveFixLeft(m, top, ps, si, pd, di)
                  ELSE MoveFixRight(m, top, ps, pd, di)
        Move(u) == Then(NodeAdd(u, pd, di, nd), LAMBDA x : NodeDel(x, ps, si))
        Moved(u) == Adjust(u, {src, dst}, Fix)
    IN FoldLeft(LAMBDA u, c : Then(u, LAMBDA x : FixSeparator(x, c, mn)),
                Then(Then(keyed, Move), Moved), <<src, dst>>)

\* mdb_node_move: move the node at the top of src to the top of dst.
NodeMove(s, src, dst, fromleft, mn) ==
    MoveTouched(PageTouch(PageTouch(s, src, s.cur[src].top), dst, s.cur[dst].top),
                src, dst, fromleft, mn)

RECURSIVE Rebalance(_, _, _)

\* The parent of the merged page, now on top of dst, may be underfull.
MergeUp(s, dst, mn) ==
    LET Restored(u) == LET snum == s.cur[dst].snum + u.db.depth - s.db.depth
                       IN [u EXCEPT !.cur[dst].snum = snum, !.cur[dst].top = snum - 1]
    IN Restored(Rebalance(CursorPop(s, dst), dst, mn))

\* The nodes of src are in the page of dst, which had nkeys: unlink its page.
MergeUnlink(s, src, dst, nkeys) ==
    LET top == s.cur[src].top
        ps == TopPg(s, src)
        leaf == Leaf(s, ps)
        pp == s.cur[src].pg[top - 1]
        pi == s.cur[src].ki[top - 1]
        nodes == RemoveAt(Nodes(s, pp), pi + 1)
        a == [s EXCEPT !.pages[pp].nodes = IF pi = 0 THEN NullFirst(FALSE, nodes) ELSE nodes]
        b == [PageLoose(a, ps) EXCEPT !.db.leafs = IF leaf THEN @ - 1 ELSE @,
                                      !.db.branches = IF leaf THEN @ ELSE @ - 1]
        Fix(m) ==
            IF m.snum < s.cur[src].snum THEN m
            ELSE IF m.pg[top] = ps
            THEN [m EXCEPT !.pg[top] = TopPg(s, dst), !.ki[top] = @ + nkeys,
                           !.ki[top - 1] = s.cur[dst].ki[top - 1]]
            ELSE IF m.pg[top - 1] = pp /\ m.ki[top - 1] > pi
            THEN [m EXCEPT !.ki[top - 1] = @ - 1]
            ELSE m
    IN Adjust(b, {src}, Fix)

\* mdb_page_merge: append the nodes of the page of src to the page of dst, free
\* the page of src and look at the parent.
MergeTouched(s, src, dst, mn) ==
    LET ps == TopPg(s, src)
        pd == TopPg(s, dst)
        moved == IF Leaf(s, ps) THEN Nodes(s, ps)
                 ELSE [Nodes(s, ps) EXCEPT ![1].k = LowestKey(s, ps)]
        a == [s EXCEPT !.pages[pd].nodes = @ \o moved]
    IN IF Bytes(Leaf(s, ps), moved) > SizeLeft(s, pd) THEN Broken(s, "page_full")
       ELSE MergeUp(MergeUnlink(a, src, dst, NumKeys(s, pd)), dst, mn)

PageMerge(s, src, dst, mn) == MergeTouched(PageTouch(s, dst, s.cur[dst].top), src, dst, mn)

\* A tree without keys has no root; its cursors point nowhere.
EmptyTree(s, c) ==
    LET mp == s.cur[c].pg[0]
        Fix(m) == IF m.init /\ m.pg[0] = mp
                  THEN [m EXCEPT !.snum = 0, !.top = 0, !.init = FALSE] ELSE m
        a == [s EXCEPT !.db.root = NoPage, !.db.depth = 0, !.db.leafs = 0,
                       !.txn.free = Append(@, mp),
                       !.cur[c].snum = 0, !.cur[c].top = 0, !.cur[c].init = FALSE]
    IN Adjust(a, {c}, Fix)

\* A root with a single child is replaced by it.
CollapseRoot(s, c) ==
    LET mp == s.cur[c].pg[0]
        root == Node(s, mp, 0).v
        depth == s.db.depth - 1
        Down(f) == [l \in Levels |-> IF l < depth THEN f[l + 1] ELSE f[l]]
        Fix(m) == IF m.init /\ m.pg[0] = mp
                  THEN [m EXCEPT !.pg = Down(@), !.ki = Down(@), !.snum = @ - 1, !.top = @ - 1]
                  ELSE m
        a == [s EXCEPT !.db.root = root, !.db.depth = depth, !.db.branches = @ - 1,
                       !.txn.free = Append(@, mp),
                       !.cur[c].pg = [Down(@) EXCEPT ![0] = root],
                       !.cur[c].ki = Down(@)]
    IN Adjust(a, {c}, Fix)

\* mdb_rebalance of the page at the top of cursor c.
Rebalance(s, c, mn) ==
    LET p == TopPg(s, c)
        top == s.cur[c].top
        leaf == Leaf(s, p)
        minkeys == IF leaf THEN 1 ELSE 2
        thresh == IF leaf THEN FillThreshold ELSE 1
        pp == s.cur[c].pg[top - 1]
        pi == s.cur[c].ki[top - 1]
        fromleft == pi # 0
        q == Node(s, pp, IF fromleft THEN pi - 1 ELSE 1).v
        oldki == s.cur[c].ki[top]
        neighbour == [CursorCopy(s, c, mn) EXCEPT
            !.cur[mn].ki[top - 1] = IF fromleft THEN @ - 1 ELSE @ + 1,
            !.cur[mn].pg[top] = q,
            !.cur[mn].ki[top] = IF fromleft THEN NumKeys(s, q) - 1 ELSE 0]
        a == SetKi(neighbour, c, IF fromleft THEN 0 ELSE NumKeys(s, p))
        move == NodeMove(a, mn, c, fromleft, mn + 1)
        mergeRight == PageMerge(a, mn, c, mn + 1)
        left == [a EXCEPT !.cur[mn].ki[top] = @ + 1]
        mergeLeft == CursorCopy(Untrack(PageMerge(Track(left, mn), c, mn, mn + 1), mn), mn, c)
        Done(t, ki) == SetKi([t EXCEPT !.cur[c].eof = FALSE], c, ki)
    IN IF PageFill(s, p) >= thresh /\ NumKeys(s, p) >= minkeys THEN s
       ELSE IF s.cur[c].snum < 2
       THEN IF NumKeys(s, p) = 0 THEN EmptyTree(s, c)
            ELSE IF ~leaf /\ NumKeys(s, p) = 1 THEN CollapseRoot(s, c) ELSE s
       ELSE IF NumKeys(s, pp) <= 1 THEN Broken(s, "assert")
       ELSE IF PageFill(s, q) >= thresh /\ NumKeys(s, q) > minkeys
       THEN SetKi(move, c, IF fromleft THEN oldki + 1 ELSE oldki)
       ELSE IF fromleft THEN Done(mergeLeft, oldki + NumKeys(s, q)) ELSE Done(mergeRight, oldki)

----------------------------------------------------------------------------
(* Moving a cursor.  The result of a call is s.rc, with the item read in      *)
(* s.item.                                                                    *)

NoItem == [k |-> NullKey, v |-> 0]

\* The node under cursor c is returned.
ReadNode(s, c) == [s EXCEPT !.item = Node(s, TopPg(s, c), TopKi(s, c))]
HasNode(s, c) == TopKi(s, c) < NumKeys(s, TopPg(s, c))

CursorFirst(s, c) ==
    LET t == IF ~s.cur[c].init \/ s.cur[c].top > 0 THEN PageSearch(s, c, NullKey, "first") ELSE s
    IN Then(t, LAMBDA u : ReadNode(SetKi(At(u, c), c, 0), c))

CursorLast(s, c) ==
    LET t == IF ~s.cur[c].init \/ s.cur[c].top > 0 THEN PageSearch(s, c, NullKey, "last") ELSE s
        Found(u) == SetKi([u EXCEPT !.cur[c].init = TRUE, !.cur[c].eof = TRUE],
                          c, NumKeys(u, TopPg(u, c)) - 1)
    IN Then(t, LAMBDA u : ReadNode(Found(u), c))

\* The next page is found, or there is none.
Arrive(s, c) == IF Ok(s) THEN ReadNode(s, c) ELSE [s EXCEPT !.cur[c].eof = TRUE]

CursorNext(s, c) ==
    LET m == s.cur[c]
        n == NumKeys(s, TopPg(s, c))
        a == [s EXCEPT !.cur[c].eof = FALSE]
    IN IF ~m.init THEN CursorFirst(s, c)
       ELSE IF m.eof /\ TopKi(s, c) >= n - 1 THEN Rc(s, "notfound")
       ELSE IF m.del THEN ReadNode([a EXCEPT !.cur[c].del = FALSE], c)
       ELSE IF TopKi(s, c) + 1 < n THEN ReadNode(SetKi(a, c, TopKi(s, c) + 1), c)
       ELSE Arrive(CursorSibling(a, c, TRUE), c)

PrevFrom(s, c) ==
    LET a == [s EXCEPT !.cur[c].eof = FALSE, !.cur[c].del = FALSE, !.item = NoItem]
    IN Then(IF TopKi(s, c) = 0 THEN CursorSibling(a, c, FALSE) ELSE SetKi(a, c, TopKi(s, c) - 1),
            LAMBDA u : ReadNode(u, c))

CursorPrev(s, c) ==
    IF s.cur[c].init THEN PrevFrom(s, c)
    ELSE Then(CursorLast(s, c), LAMBDA u : PrevFrom(SetKi(u, c, TopKi(u, c) + 1), c))

\* The end of mdb_cursor_set: the leaf page is known and r was found in it;
\* range is MDB_SET_RANGE.
SetAt(s, c, r, range) ==
    IF ~range /\ ~r.exact THEN Rc(s, "notfound")
    ELSE Arrive(Then(IF HasNode(s, c) THEN s ELSE CursorSibling(s, c, TRUE), LAMBDA u : At(u, c)), c)

SetFound(s, c, r, range) == SetAt(SetKi(s, c, r.i), c, r, range)
SetInPage(s, c, key, range) == SetFound(s, c, NodeSearch(s, TopPg(s, c), key), range)

SetBySearch(s, c, key, range) ==
    Then(PageSearch(s, c, key, "key"), LAMBDA u : SetInPage(u, c, key, range))

\* mdb_cursor_set of an initialised cursor that may be on the right page.
SetInitialised(s, c, key, range) ==
    LET p == TopPg(s, c)
        n == NumKeys(s, p)
        first == Node(s, p, 0).k
        last == Node(s, p, n - 1).k
        Found(i) == ReadNode(At(SetKi(s, c, i), c), c)
        noRight == \A l \in 0..(s.cur[c].top - 1) :
                       s.cur[c].ki[l] >= NumKeys(s, s.cur[c].pg[l]) - 1
    IN CASE n = 0 -> Rc(SetKi(s, c, 0), "notfound")
         [] n > 0 /\ key = first -> Found(0)
         [] n > 1 /\ key > first /\ key = last -> Found(n - 1)
         [] n > 1 /\ key > first /\ key < last ->
              IF HasNode(s, c) /\ Node(s, p, TopKi(s, c)).k = key THEN Found(TopKi(s, c))
              ELSE SetInPage([s EXCEPT !.cur[c].eof = FALSE], c, key, range)
         [] n > 0 /\ key > last /\ noRight -> Rc(SetKi(s, c, n), "notfound")
         [] n > 0 /\ key < first /\ s.cur[c].top = 0 ->
              IF range THEN Found(0) ELSE Rc(SetKi(s, c, 0), "notfound")
         [] OTHER -> SetBySearch(s, c, key, range)

CursorSet(s, c, key, range) ==
    IF s.cur[c].init THEN SetInitialised(s, c, key, range) ELSE SetBySearch(s, c, key, range)

GetCurrent(s, c) ==
    IF ~s.cur[c].init THEN Rc(s, "einval")
    ELSE IF HasNode(s, c) THEN ReadNode(s, c)
    ELSE Rc(SetKi(s, c, NumKeys(s, TopPg(s, c))), "notfound")

----------------------------------------------------------------------------
(* Changing the tree. *)

\* MDB_APPEND: the key must be beyond the last one.
AppendPosition(s, c, key) ==
    LET a == [s EXCEPT !.item = NoItem]
    IN IF key > s.item.k THEN Rc(SetKi(a, c, TopKi(s, c) + 1), "notfound") ELSE Rc(a, "keyexist")

\* mdb_cursor_put places the cursor; the result says whether the key exists.
PutPosition(s, c, key, mode) ==
    IF s.db.root = NoPage
    THEN Rc([s EXCEPT !.cur[c].snum = 0, !.cur[c].top = 0, !.cur[c].init = FALSE], "noroot")
    ELSE IF mode = "append" THEN Then(CursorLast(s, c), LAMBDA u : AppendPosition(u, c, key))
    ELSE CursorSet(s, c, key, FALSE)

\* The first page of a tree.
NewRoot(s, c) ==
    LET p == NewPgno(s)
        a == CursorPush(PageNew(s, TRUE), c, p)
    IN [a EXCEPT !.db.root = p, !.db.depth = @ + 1, !.cur[c].init = TRUE]

\* The new node enters the page if it fits, or splits it.
InsertNode(s, c, nd, isNew, mode) ==
    LET p == TopPg(s, c)
        i == TopKi(s, c)
        top == s.cur[c].top
        Fix(m) == IF m.snum >= s.cur[c].snum /\ m.pg[top] = p /\ m.ki[top] >= i /\ isNew
                  THEN [m EXCEPT !.ki[top] = @ + 1] ELSE m
        smode == IF ~isNew THEN "replace" ELSE IF mode = "append" THEN mode ELSE "none"
    IN IF SizeLeft(s, p) < LeafSize(nd.k, nd.v) THEN PageSplit(s, c, nd, smode, 1)
       ELSE Then(NodeAdd(s, p, i, nd), LAMBDA u : Adjust(u, {c}, Fix))

\* The pages of the path are writable.  A value of the same length is
\* overwritten in place, another takes the place of the old node.
PutNode(s, c, nd, isNew, mode) ==
    LET p == TopPg(s, c)
        i == TopKi(s, c)
        Counted(u) == IF isNew THEN [u EXCEPT !.db.entries = @ + 1, !.cur[c].init = TRUE] ELSE u
    IN IF ~isNew /\ Node(s, p, i).v = nd.v THEN s
       ELSE Then(InsertNode(IF isNew THEN s ELSE NodeDel(s, p, i), c, nd, isNew, mode), Counted)

\* The cursor is placed, or the key was refused.
PutAt(s, c, nd, mode) ==
    LET isNew == s.rc \in {"noroot", "notfound"}
        a == [s EXCEPT !.rc = "ok", !.cur[c].del = FALSE, !.item = NoItem]
    IN IF Ok(s) /\ mode = "nooverwrite" THEN Rc(s, "keyexist")
       ELSE IF ~Ok(s) /\ ~isNew THEN s
       ELSE PutNode(IF s.rc = "noroot" THEN NewRoot(a, c) ELSE CursorTouch(a, c),
                    c, nd, isNew, mode)

CursorPut(s, c, key, v, mode) ==
    IF s.txn.error THEN Rc(s, "badtxn")
    ELSE IF mode = "current" /\ ~s.cur[c].init THEN Rc(s, "einval")
    ELSE PutAt(IF mode = "current" THEN s ELSE PutPosition(s, c, key, mode),
               c, [k |-> key, v |-> v], mode)

\* Cursors past the end of the page of c go on to the next page.
SkipToSibling(s, c) ==
    LET p == TopPg(s, c)
        top == s.cur[c].top
        past == {x \in s.tracked : /\ s.cur[x].init /\ s.cur[x].snum >= s.cur[c].snum
                                   /\ s.cur[x].pg[top] = p
                                   /\ s.cur[x].ki[top] >= s.cur[c].ki[top]
                                   /\ s.cur[x].ki[top] >= NumKeys(s, p)}
        AtEnd(t, x) == IF Ok(t) THEN t.cur[x] ELSE [t.cur[x] EXCEPT !.eof = TRUE]
    IN [s EXCEPT !.cur = [x \in DOMAIN @ |->
           IF x \in past THEN AtEnd(CursorSibling(s, x, TRUE), x) ELSE s.cur[x]]]

\* mdb_cursor_del0: the node goes, the cursors on the page follow, the page is
\* rebalanced.
CursorDel0(s, c) ==
    LET p == TopPg(s, c)
        i == TopKi(s, c)
        top == s.cur[c].top
        a == [NodeDel(s, p, i) EXCEPT !.db.entries = @ - 1]
        Fix(m) == IF ~m.init \/ m.snum < s.cur[c].snum \/ m.pg[top] # p THEN m
                  ELSE IF m.ki[top] = i THEN [m EXCEPT !.del = TRUE]
                  ELSE IF m.ki[top] > i THEN [m EXCEPT !.ki[top] = @ - 1]
                  ELSE m
        Done(u) == IF ~Ok(u) THEN Broken(u, u.rc)
                   ELSE IF u.cur[c].snum = 0 THEN u
                   ELSE [SkipToSibling(u, c) EXCEPT !.cur[c].del = TRUE]
    IN Done(Rebalance(Adjust(a, {c}, Fix), c, 1))

CursorDel(s, c) ==
    IF s.txn.error THEN Rc(s, "badtxn")
    ELSE IF ~s.cur[c].init THEN Rc(s, "einval")
    ELSE IF ~HasNode(s, c) THEN Rc(s, "notfound")
    ELSE CursorDel0(CursorTouch([s EXCEPT !.item = NoItem], c), c)

----------------------------------------------------------------------------
(* The calls without a cursor use a cursor of their own, number 0. *)

Local == 0

Put(s, key, v, mode) ==
    CursorPut(Track(CursorSet0(s, Local, NewCursor), Local), Local, key, v, mode)

Get(s, key) ==
    IF s.txn.error THEN Rc(s, "badtxn")
    ELSE CursorSet(CursorSet0(s, Local, NewCursor), Local, key, FALSE)

Del(s, key) ==
    Then(Get(s, key), LAMBDA u : CursorDel(Track(u, Local), Local))

\* The walk of mdb_drop0 over the branch pages, one level after the other from
\* the lowest up: the children of every page are freed.  mx holds the leftmost
\* path, where each level begins.
RECURSIVE DropWalk(_, _, _)

\* The next page of the level, or the first page of the level above.
DropNext(s, c, mx) ==
    LET Up(u) == [u EXCEPT !.cur[c] = [FollowStack(@, mx, @.snum - 1) EXCEPT
                     !.ki = [l \in Levels |-> IF l < u.cur[c].snum THEN 0 ELSE @[l]]]]
    IN DropWalk(IF Ok(s) THEN s ELSE Up(CursorPop(Rc(s, "ok"), c)), c, mx)

DropWalk(s, c, mx) ==
    LET p == TopPg(s, c)
        n == NumKeys(s, p)
        a == [s EXCEPT !.txn.free = @ \o [i \in 1..n |-> Node(s, p, i - 1).v]]
    IN IF s.cur[c].snum = 0 THEN s
       ELSE IF s.cur[c].top = 0 THEN a
       ELSE DropNext(CursorSibling(SetKi(a, c, n), c, TRUE), c, mx)

\* mdb_drop without deleting the database: every page is freed, the cursors
\* point nowhere.
Drop(s) ==
    LET root == PageSearch(Track(CursorSet0(s, Local, NewCursor), Local), Local, NullKey, "first")
        Walk(u) == DropWalk(u, Local, u.cur[Local])
        Free(u) == [Walk(CursorPop(u, Local)) EXCEPT !.txn.free = Append(@, s.db.root)]
        Invalidate(m) == [m EXCEPT !.init = FALSE, !.eof = FALSE]
        Reset(u) == Adjust([u EXCEPT !.db = EmptyDb, !.rc = "ok"], {}, Invalidate)
    IN IF s.txn.error THEN Rc(s, "badtxn") ELSE Reset(Then(root, Free))

----------------------------------------------------------------------------
(* The calls of the application. *)

RECURSIVE PagesBelow(_, _)
PagesBelow(s, p) ==
    IF Leaf(s, p) THEN {p}
    ELSE {p} \cup UNION {PagesBelow(s, Node(s, p, i).v) : i \in 0..(NumKeys(s, p) - 1)}
Reachable(s) == IF s.db.root = NoPage THEN {} ELSE PagesBelow(s, s.db.root)

State == [pages |-> pages, db |-> db, txn |-> txn, cur |-> cur,
          tracked |-> DOMAIN cur, rc |-> "ok", item |-> NoItem]

\* A cursor between two calls: the levels above its stack are never read.
Resting(m) ==
    [m EXCEPT !.pg = [l \in Levels |-> IF l < m.snum THEN @[l] ELSE NoPage],
              !.ki = [l \in Levels |-> IF l < m.snum THEN @[l] ELSE 0]]

\* The state after a call: the pages of the tree and the open cursors.
Pages(s) == [p \in Reachable(s) |-> s.pages[p]]
OpenCursors(s) == [c \in DOMAIN s.cur \cap Cursors |-> Resting(s.cur[c])]

\* The items in key order, read from the leaves.
RECURSIVE Items(_, _)
Items(s, p) ==
    IF Leaf(s, p) THEN Nodes(s, p)
    ELSE FlattenSeq([i \in 1..NumKeys(s, p) |-> Items(s, Nodes(s, p)[i].v)])

MapFrom(items) ==
    [k \in {items[i].k : i \in DOMAIN items} |->
        items[CHOOSE i \in DOMAIN items : items[i].k = k].v]
MapOf(s) == IF s.db.root = NoPage THEN <<>> ELSE MapFrom(Items(s, s.db.root))

\* The place of a cursor in the map: past the end of its page it is before the
\* first key of the next page, or at the end.
NextKey(t, c) == IF Ok(t) THEN Node(t, TopPg(t, c), 0).k ELSE 1 + Cardinality(Keys)

PlaceOf(s, c) ==
    LET m == s.cur[c]
        Place(k, gap) == [at |-> k, gap |-> gap /\ k \in Keys, del |-> m.del, eof |-> m.eof]
    IN IF ~m.init THEN Place(NullKey, FALSE)
       ELSE IF HasNode(s, c) THEN Place(Node(s, TopPg(s, c), TopKi(s, c)).k, FALSE)
       ELSE Place(NextKey(CursorSibling(Rc(s, "ok"), c, TRUE), c), TRUE)

ViewOf(s) == [map |-> MapOf(s), pos |-> [c \in DOMAIN s.cur \cap Cursors |-> PlaceOf(s, c)]]

\* A call ends in state s.
Return(s, op, c, key) ==
    /\ ops < MaxOps
    /\ ops' = ops + 1
    /\ pages' = Pages(s)
    /\ db' = s.db
    /\ txn' = s.txn
    /\ cur' = OpenCursors(s)
    /\ view' = ViewOf(s)
    /\ ret' = [op |-> op, c |-> c, key |-> key, rc |-> s.rc, item |-> s.item]

NoCursor == "none"

MdbGet(key) == Return(Get(State, key), "get", NoCursor, key)

MdbPut(key, v, mode) == Return(Put(State, key, v, mode), "put", NoCursor, key)

\* No cursor but c is past the last node of a page that has a next page.
NoMissed(c) == MissedStays \/ \A d \in DOMAIN cur \ {c} : ~view.pos[d].gap

MdbDel(key) ==
    /\ NoMissed(NoCursor)
    /\ Return(Del(State, key), "del", NoCursor, key)

MdbDrop == Return(Drop(State), "drop", NoCursor, NullKey)

\* Mutant: the cursor stays marked
CursorGotKept(s, c) == s

\* mdb_cursor_get: the operation is done, after which a deletion under the
\* cursor is forgotten.
CursorGot(s, c) == [s EXCEPT !.cur[c].del = FALSE]

MdbCursorGet(c, op) ==
    LET s == State
        t == CASE op = "first" -> CursorFirst(s, c)
               [] op = "last" -> CursorLast(s, c)
               [] op = "next" -> CursorNext(s, c)
               [] op = "prev" -> CursorPrev(s, c)
               [] op = "current" -> GetCurrent(s, c)
    IN /\ c \in DOMAIN cur
       /\ Return(IF txn.error THEN Rc(s, "badtxn") ELSE CursorGot(t, c), op, c, NullKey)

\* MDB_SET and MDB_SET_RANGE.
MdbCursorSeek(c, op, key) ==
    LET s == State
    IN /\ c \in DOMAIN cur
       /\ Return(IF txn.error THEN Rc(s, "badtxn")
                 ELSE CursorGot(CursorSet(s, c, key, op = "range"), c), op, c, key)

MdbCursorPut(c, key, v, mode) ==
    /\ c \in DOMAIN cur
    /\ Return(CursorPut(State, c, key, v, mode), "put", c, key)

\* MDB_CURRENT: "the key parameter must still be provided, and must match it".
MdbCursorPutCurrent(c, v) ==
    /\ c \in DOMAIN cur
    /\ cur[c].init => HasNode(State, c)
    /\ LET key == IF cur[c].init THEN Node(State, TopPg(State, c), TopKi(State, c)).k
                  ELSE NullKey
       IN Return(CursorPut(State, c, key, v, "current"), "put", c, key)

MdbCursorDel(c) ==
    /\ c \in DOMAIN cur
    /\ NoMissed(c)
    /\ Return(CursorDel(State, c), "del", c, NullKey)

MdbCursorOpen(c) ==
    /\ c \notin DOMAIN cur
    /\ ~txn.error
    /\ Return(CursorSet0(State, c, NewCursor), "open", c, NullKey)

MdbCursorClose(c) ==
    /\ c \in DOMAIN cur
    /\ Return([State EXCEPT !.cur = [x \in DOMAIN @ \ {c} |-> @[x]]], "close", c, NullKey)

----------------------------------------------------------------------------
(* The specification starts with a tree built by the same operators, either   *)
(* in this transaction or in one that was committed before, and with cursors  *)
(* placed somewhere in it.                                                    *)

EmptyState ==
    [pages |-> <<>>, db |-> EmptyDb, cur |-> <<>>, tracked |-> {}, rc |-> "ok", item |-> NoItem,
     txn |-> [next |-> 2, loose |-> <<>>, free |-> <<>>, old |-> {}, error |-> FALSE]]

Loaded(load) ==
    FoldLeft(LAMBDA s, x : [IF x.v = 0 THEN Del(s, x.k) ELSE Put(s, x.k, x.v, "none")
                            EXCEPT !.rc = "ok", !.tracked = {}],
             EmptyState, load)

\* The tree of s in the same transaction, or as a later one finds it.
Inherited(s, committed) ==
    IF ~committed THEN s
    ELSE [s EXCEPT !.pages = [p \in Reachable(s) |-> [s.pages[p] EXCEPT !.dirty = FALSE]],
                   !.txn.loose = <<>>, !.txn.free = <<>>,
                   !.txn.old = 2..(s.txn.next - 1) \ Reachable(s)]

\* Place cursor c: not open, open, or moved by one call (a key: to that key).
Closed == -2
Opened == -1
AtLast == 0
Placed(s, c, how) ==
    LET t == [CursorSet0(s, c, NewCursor) EXCEPT !.rc = "ok"]
    IN CASE how = Closed -> s
         [] how = Opened -> t
         [] how = AtLast -> CursorLast(t, c)
         [] OTHER -> CursorSet(t, c, how, FALSE)

Placements == [Cursors -> {Closed, Opened, AtLast} \cup Keys]
PlacedAll(s, how) == FoldLeft(LAMBDA x, c : Placed(x, c, how[c]), s, SetToSeq(Cursors))

\* The transaction begins with the tree and the cursors of s.
Begin(s) ==
    /\ pages = Pages(s)
    /\ db = s.db
    /\ txn = s.txn
    /\ cur = OpenCursors(s)
    /\ view = ViewOf(s)
    /\ ret = [op |-> "begin", c |-> NoCursor, key |-> NullKey, rc |-> "ok", item |-> NoItem]
    /\ ops = 0

Init ==
    \E load \in Loads, committed \in BOOLEAN, how \in Placements :
        Begin(PlacedAll(Inherited(Loaded(load), committed), how))

Next ==
    \/ \E k \in OpKeys : MdbGet(k)
    \/ \E k \in OpKeys, v \in DataSizes, mode \in {"none", "nooverwrite", "append"} :
           MdbPut(k, v, mode)
    \/ \E k \in OpKeys : MdbDel(k)
    \/ MdbDrop
    \/ \E c \in Cursors :
           \/ \E op \in {"first", "last", "next", "prev", "current"} : MdbCursorGet(c, op)
           \/ \E k \in OpKeys, op \in {"set", "range"} : MdbCursorSeek(c, op, k)
           \/ \E k \in OpKeys, v \in DataSizes, mode \in {"none", "nooverwrite", "append"} :
                  MdbCursorPut(c, k, v, mode)
           \/ \E v \in DataSizes : MdbCursorPutCurrent(c, v)
           \/ MdbCursorDel(c)
           \/ MdbCursorOpen(c)
           \/ MdbCursorClose(c)

Spec == Init /\ [][Next]_vars

----------------------------------------------------------------------------
(* Properties. *)

\* The keys below page p lie in lo..(hi - 1), in order, and every leaf is at
\* level depth; a page other than the root has the nodes mdb_rebalance keeps.
RECURSIVE Ordered(_, _, _, _, _)
Ordered(s, p, lo, hi, depth) ==
    LET n == NumKeys(s, p)
        Key(i) == IF i = 0 /\ ~Leaf(s, p) THEN lo ELSE IF i = n THEN hi ELSE Node(s, p, i).k
    IN /\ Leaf(s, p) <=> depth = 1
       /\ Bytes(Leaf(s, p), Nodes(s, p)) <= PMax
       /\ n >= IF Leaf(s, p) THEN 1 ELSE 2
       /\ ~Leaf(s, p) => Node(s, p, 0).k = NullKey
       /\ \A i \in 0..(n - 1) :
              /\ Key(i) >= lo /\ Key(i) < Key(i + 1)
              /\ ~Leaf(s, p) => Ordered(s, Node(s, p, i).v, Key(i), Key(i + 1), depth - 1)

\* The counters of MDB_db, which mdb_stat reports and mdb_drop0 relies on, are
\* those of the tree.
StatsExact ==
    LET s == State
        tree == Reachable(s)
        leafs == {p \in tree : Leaf(s, p)}
    IN /\ db.leafs = Cardinality(leafs)
       /\ db.branches = Cardinality(tree) - db.leafs
       /\ db.entries = Cardinality(UNION {{<<p, i>> : i \in 1..NumKeys(s, p)} : p \in leafs})
       /\ db.root = NoPage <=> db.depth = 0

\* The tree is a search tree of uniform depth whatever sequence of splits,
\* moves, merges and changes of the root the calls made; a branch page has at
\* least two children, no page overflows (mdb_page_split, mdb_rebalance), and
\* the counters that mdb_stat reports and mdb_drop0 relies on are the tree's.
TreeWellFormed ==
    /\ db.root # NoPage => Ordered(State, db.root, 1, 1 + Cardinality(Keys), db.depth)
    /\ StatsExact

\* Every page below mt_next_pgno is in the tree, loose, freed or was free
\* before, and in one place only: no call leaks a page or frees one twice,
\* mdb_drop0 included.
PagesAccounted ==
    LET s == State
        tree == Reachable(s)
        gone == txn.loose \o txn.free
    IN /\ Cardinality({gone[i] : i \in DOMAIN gone}) = Len(gone)
       /\ tree \cup {gone[i] : i \in DOMAIN gone} \cup txn.old = 2..(txn.next - 1)
       /\ tree \cap ({gone[i] : i \in DOMAIN gone} \cup txn.old) = {}
       /\ {gone[i] : i \in DOMAIN gone} \cap txn.old = {}

\* The stack of every initialised cursor is a path from the root to a leaf: the
\* fix-ups of all the splits, moves and merges left none pointing into a page
\* that moved.  Its index is a node of the leaf or one past the last.
CursorsOnPath ==
    \A c \in DOMAIN cur : cur[c].init =>
        LET s == State
            m == cur[c]
        IN /\ m.snum = db.depth /\ m.top = m.snum - 1
           /\ m.pg[0] = db.root
           /\ \A l \in 0..(m.top - 1) : /\ m.ki[l] < NumKeys(s, m.pg[l])
                                        /\ m.pg[l + 1] = Node(s, m.pg[l], m.ki[l]).v
           /\ Leaf(s, m.pg[m.top])
           /\ m.ki[m.top] <= NumKeys(s, m.pg[m.top])

\* No call fails inside: none finds a page too full for a node whose room was
\* checked (MDB_PAGE_FULL), an assertion broken or a sibling missing
\* (MDB_PROBLEM), so the transaction can be committed.
NoInternalError == ~txn.error

Abstract == INSTANCE OrderedMap WITH
    map <- view.map, pos <- view.pos

\* The tree with its cursors behaves as an ordered map whose cursors keep their
\* place: every call returns what it would there, whatever splits and merges
\* happened under the cursors (lmdb.h, mdb_cursor_get and mdb_cursor_op).
ImplementsOrderedMap == Abstract!Spec
=============================================================================
