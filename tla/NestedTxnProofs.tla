-------------------------- MODULE NestedTxnProofs --------------------------
(* Proofs about NestedTxn, for any nesting, any number of keys and pages and  *)
(* any length of the dirty list.                                              *)
EXTENDS NestedTxn, OrderLemmas, FiniteSetTheorems, FunctionTheorems, SequenceTheorems, TLAPS

\* Types.
Contents == Values \cup {Blank}
Page == [val : Contents, keep : BOOLEAN]
DirtyLists == UNION {[P -> Page] : P \in SUBSET Pages}
PgStates == {pg \in [head : SUBSET Pages, read : BOOLEAN] : pg.read = TRUE \/ pg.head = {}}
Roots == [Keys -> Pages \cup {NoPage}]
Txn == [root : Roots, dirty : DirtyLists, spill : SUBSET Pages, free : SUBSET Pages,
        loose : Seq(Pages), room : Nat, next : 2..MaxPg, spills : BOOLEAN,
        error : BOOLEAN, wrote : BOOLEAN, saved : PgStates]

TypeInv ==
    /\ txns \in Seq(Txn) /\ map \in [Pages -> Contents] /\ pgstate \in PgStates /\ ops \in Nat
    /\ db \in [root : Roots, next : 2..MaxPg, old : SUBSET Pages, recent : SUBSET Pages]

-----------------------------------------------------------------------------
(* A transaction above others: what it has to know of them are seven sets of  *)
(* pages.                                                                     *)

UsedBy(root) == {root[k] : k \in Keys} \ {NoPage}
Listed(t) == t.spill \cup DOMAIN t.dirty

\* The pages that the last of the transactions finds in memory, if those before
\* it find the pages mem there.
Memory(mem, t) == (mem \ Listed(t)) \cup (DOMAIN t.dirty \ t.spill)
MemoryOf(ts) == {p \in Pages : \E j \in 1..Len(ts) :
                    /\ p \in DOMAIN ts[j].dirty \ ts[j].spill
                    /\ \A l \in (j + 1)..Len(ts) : p \notin Listed(ts[l])}

\* Of the transactions ts above the committed roots: their freed and loose pages,
\* those they find in memory, list and have spilled, those they or the committed
\* state use, and those among them that are read from the map as committed.
Frame(root, ts) ==
    [free |-> {p \in Pages : \E j \in 1..Len(ts) : p \in ts[j].free},
     loose |-> {p \in Pages : \E j \in 1..Len(ts) : p \in Range(ts[j].loose)},
     mem |-> MemoryOf(ts),
     listed |-> {p \in Pages : \E j \in 1..Len(ts) : p \in Listed(ts[j])},
     spilled |-> {p \in Pages : \E j \in 1..Len(ts) : p \in ts[j].spill},
     used |-> {p \in Pages : \/ p \in UsedBy(root)
                             \/ \E j \in 1..Len(ts) : p \in UsedBy(ts[j].root)},
     clean |-> {p \in Pages : \/ p \in UsedBy(root)
                              \/ \E j \in 1..Len(ts) : /\ p \in UsedBy(ts[j].root)
                                                       /\ \A l \in 1..j : p \notin Listed(ts[l])}]
Frames == [free : SUBSET Pages, loose : SUBSET Pages, mem : SUBSET Pages, listed : SUBSET Pages,
           spilled : SUBSET Pages, used : SUBSET Pages, clean : SUBSET Pages]

\* The same with a transaction more.
Push(f, t) ==
    [free |-> f.free \cup t.free, loose |-> f.loose \cup Range(t.loose),
     mem |-> Memory(f.mem, t), listed |-> f.listed \cup Listed(t),
     spilled |-> f.spilled \cup t.spill, used |-> f.used \cup UsedBy(t.root),
     clean |-> f.clean \cup (UsedBy(t.root) \ (f.listed \cup Listed(t)))]

-----------------------------------------------------------------------------
(* The inductive invariant. *)

\* The pages of the freeDB of d that are still to be read, and those to be reused.
Unread(d, pg) == IF pg.read THEN {} ELSE d.old
Reusable(d, pg) == pg.head \cup Unread(d, pg)

\* Every page below next is in one place: used by one key, freed, loose,
\* reusable, in the record of the last commit, or just allocated.
Placed(d, root, free, loose, pg, next, new) ==
    /\ \A j, k \in Keys : root[j] # NoPage /\ root[j] = root[k] => j = k
    /\ UsedBy(root) \cup free \cup loose \cup Reusable(d, pg) \cup d.recent \cup new = 2..(next - 1)
    /\ UsedBy(root) \cap free = {}
    /\ (UsedBy(root) \cup free) \cap loose = {}
    /\ (UsedBy(root) \cup free \cup loose) \cap Reusable(d, pg) = {}
    /\ (UsedBy(root) \cup free \cup loose \cup Reusable(d, pg)) \cap d.recent = {}
    /\ (UsedBy(root) \cup free \cup loose \cup Reusable(d, pg) \cup d.recent) \cap new = {}
    /\ pg.head \cap Unread(d, pg) = {}

\* The lists of a transaction that has not failed.
ListsOK(f, t) ==
    /\ DOMAIN t.dirty \cap t.spill = {}
    /\ Range(t.loose) \subseteq DOMAIN t.dirty
    /\ \A i, j \in 1..Len(t.loose) : t.loose[i] = t.loose[j] => i = j
    /\ t.spill \cap f.spilled = {}
    /\ f.loose \cap Listed(t) = {}
    /\ t.room = MaxDirty - Cardinality(Memory(f.mem, t))

\* What makes it safe to write the pages of t: nobody below reads them from the
\* map unless he has listed them, and pages to be reused are in no list and used
\* by nobody.
Apart(d, f, t, pg) ==
    /\ (f.listed \cup Listed(t)) \cap f.clean = {}
    /\ (f.listed \cup Listed(t)) \cap Reusable(d, pg) = {}
    /\ f.listed \cup Listed(t) \subseteq 2..(t.next - 1)
    /\ f.used \cap Reusable(d, pg) = {}
    /\ f.used \subseteq 2..(t.next - 1)

Level(d, f, t, pg, new) ==
    /\ Placed(d, t.root, f.free \cup t.free, f.loose \cup Range(t.loose), pg, t.next, new)
    /\ ~t.error => ListsOK(f, t)
    /\ Apart(d, f, t, pg)

\* The environment of the i-th of the transactions ts when those above it are
\* gone, if it is pg now.
PgAt(ts, pg, i) == IF i = Len(ts) THEN pg ELSE ts[i + 1].saved
Levels(d, ts, pg) == \A i \in 1..Len(ts) :
    Level(d, Frame(d.root, SubSeq(ts, 1, i - 1)), ts[i], PgAt(ts, pg, i), {})

DbInv == Placed(db, db.root, {}, {}, NothingRead, db.next, {})
LevelInv == Levels(db, txns, pgstate)
ErrorInv == \A i \in 1..(Len(txns) - 1) : ~txns[i].error
IdleInv == txns = <<>> => pgstate = NothingRead

IInv == TypeInv /\ DbInv /\ LevelInv /\ ErrorInv /\ IdleInv

\* Pages are flagged only by a spill that failed.
KeepInv == \A i \in 1..Len(txns) : ~txns[i].error =>
               \A p \in DOMAIN txns[i].dirty : txns[i].dirty[p].keep = FALSE

-----------------------------------------------------------------------------
(* Sequences. *)

\* A sequence with one more element.
LEMMA Longer ==
    ASSUME NEW S, NEW b \in Seq(S), NEW t \in S
    PROVE  /\ Append(b, t) \in Seq(S) /\ Len(Append(b, t)) = Len(b) + 1 /\ Len(b) \in Nat
           /\ Append(b, t)[Len(b) + 1] = t
           /\ \A i \in 1..Len(b) : Append(b, t)[i] = b[i]
           /\ Front(Append(b, t)) = b /\ Last(Append(b, t)) = t
           /\ Append(b, t) # <<>>
           /\ \A i \in 0..Len(b) : SubSeq(Append(b, t), 1, i) = SubSeq(b, 1, i)
           /\ SubSeq(Append(b, t), 1, Len(b) + 1) = Append(b, t)
<1>1. PICK s : s = Append(b, t)
  OBVIOUS
<1>2. /\ s \in Seq(S) /\ Len(s) = Len(b) + 1 /\ Len(b) \in Nat /\ s[Len(b) + 1] = t /\ s # <<>>
      /\ \A i \in 1..Len(b) : s[i] = b[i]
  BY <1>1
<1>3. \A i \in 0..Len(b) : SubSeq(s, 1, i) = SubSeq(b, 1, i)
  <2> TAKE i \in 0..Len(b)
  <2>1. /\ SubSeq(s, 1, i) \in Seq(S) /\ SubSeq(b, 1, i) \in Seq(S)
        /\ Len(SubSeq(s, 1, i)) = i /\ Len(SubSeq(b, 1, i)) = i
    BY <1>2
  <2>2. \A j \in 1..i : SubSeq(s, 1, i)[j] = SubSeq(b, 1, i)[j]
    BY <1>2
  <2> QED BY <2>1, <2>2, SeqEqual
<1>4. SubSeq(b, 1, Len(b)) = b
  OBVIOUS
<1>5. Front(s) = b /\ Last(s) = t
  BY <1>2, <1>3, <1>4 DEF Front, Last
<1>6. SubSeq(s, 1, Len(b) + 1) = s
  BY <1>2
<1> QED BY <1>1, <1>2, <1>3, <1>5, <1>6

-----------------------------------------------------------------------------
(* Finding a page. *)

\* A list of dirty pages is a function from its pages.
LEMMA DirtyList ==
    ASSUME NEW d \in DirtyLists
    PROVE  DOMAIN d \subseteq Pages /\ \A p \in DOMAIN d : d[p] \in Page
BY DEF DirtyLists

\* And conversely.
LEMMA IsDirtyList ==
    ASSUME NEW P \in SUBSET Pages, NEW d, d = [p \in P |-> d[p]], \A p \in P : d[p] \in Page
    PROVE  d \in DirtyLists
<1>1. d \in [P -> Page]
  OBVIOUS
<1> QED BY <1>1 DEF DirtyLists

\* Where mdb_page_get finds a page.
LEMMA GetIs ==
    ASSUME NEW b \in Seq(Txn), NEW m, NEW p,
           NEW g, g = PageGet(b, m, p)
    PROVE  /\ g.at \in 0..Len(b)
           /\ g.at = 0 => /\ \A i \in 1..Len(b) : p \notin Listed(b[i])
                          /\ ~g.dirty /\ g.page = [val |-> m[p], keep |-> FALSE]
           /\ g.at # 0 => /\ p \in Listed(b[g.at])
                          /\ \A i \in (g.at + 1)..Len(b) : p \notin Listed(b[i])
                          /\ IF p \in b[g.at].spill
                             THEN ~g.dirty /\ g.page = [val |-> m[p], keep |-> FALSE]
                             ELSE g.dirty /\ g.page = b[g.at].dirty[p]
           /\ g = [at |-> g.at, dirty |-> g.dirty, page |-> g.page] /\ g.dirty \in BOOLEAN
<1>1. PICK hits : hits = {i \in 1..Len(b) : p \in b[i].spill \cup DOMAIN b[i].dirty}
  OBVIOUS
<1>2. PICK at : at = IF hits = {} THEN 0 ELSE Max(hits)
  OBVIOUS
<1>3. g = IF at = 0 \/ p \in b[at].spill
          THEN [at |-> at, dirty |-> FALSE, page |-> [val |-> m[p], keep |-> FALSE]]
          ELSE [at |-> at, dirty |-> TRUE, page |-> b[at].dirty[p]]
  BY <1>1, <1>2 DEF PageGet
<1>4. g.at = at /\ g.dirty \in BOOLEAN /\ g = [at |-> g.at, dirty |-> g.dirty, page |-> g.page]
  <2>1. \E d \in BOOLEAN : \E pg : g = [at |-> at, dirty |-> d, page |-> pg]
    BY <1>3, Zenon
  <2> QED BY <2>1
<1>5. Len(b) \in Nat /\ hits \subseteq 0..Len(b)
  BY <1>1
<1>6. CASE hits = {}
  <2>1. at = 0 /\ \A i \in 1..Len(b) : p \notin Listed(b[i])
    BY <1>1, <1>2, <1>6 DEF Listed
  <2> QED BY <1>3, <1>4, <1>5, <2>1
<1>7. CASE hits # {}
  <2>1. at \in hits /\ \A i \in hits : i <= at
    BY <1>2, <1>5, <1>7, MaxIsGreatest
  <2>2. at \in 1..Len(b) /\ p \in Listed(b[at])
    BY <1>1, <2>1 DEF Listed
  <2>3. \A i \in (at + 1)..Len(b) : p \notin Listed(b[i])
    <3> SUFFICES ASSUME NEW i \in (at + 1)..Len(b), p \in Listed(b[i]) PROVE FALSE
      OBVIOUS
    <3>1. i \in hits
      BY <1>1, <1>5, <2>2 DEF Listed
    <3> QED BY <1>5, <2>1, <2>2, <3>1
  <2>4. at # 0
    BY <2>2
  <2>5. IF p \in b[at].spill THEN ~g.dirty /\ g.page = [val |-> m[p], keep |-> FALSE]
                             ELSE g.dirty /\ g.page = b[at].dirty[p]
    BY <1>3, <2>4
  <2> QED BY <1>4, <1>5, <2>2, <2>3, <2>4, <2>5
<1> QED BY <1>6, <1>7

\* The same for a transaction above others.
LEMMA GetTop ==
    ASSUME NEW b \in Seq(Txn), NEW t \in Txn, NEW m, NEW p,
           NEW g, NEW h, g = PageGet(Append(b, t), m, p), h = PageGet(b, m, p)
    PROVE  g = IF p \in t.spill
               THEN [at |-> Len(b) + 1, dirty |-> FALSE, page |-> [val |-> m[p], keep |-> FALSE]]
               ELSE IF p \in DOMAIN t.dirty
               THEN [at |-> Len(b) + 1, dirty |-> TRUE, page |-> t.dirty[p]]
               ELSE h
<1>1. PICK s : s = Append(b, t)
  OBVIOUS
<1>2. /\ s \in Seq(Txn) /\ Len(s) = Len(b) + 1 /\ Len(b) \in Nat /\ s[Len(b) + 1] = t
      /\ \A i \in 1..Len(b) : s[i] = b[i]
  BY <1>1, Longer
<1>3. g = PageGet(s, m, p)
  BY <1>1
<1>4. /\ g.at \in 0..Len(s)
      /\ g.at = 0 => /\ \A i \in 1..Len(s) : p \notin Listed(s[i])
                     /\ ~g.dirty /\ g.page = [val |-> m[p], keep |-> FALSE]
      /\ g.at # 0 => /\ p \in Listed(s[g.at])
                     /\ \A i \in (g.at + 1)..Len(s) : p \notin Listed(s[i])
                     /\ IF p \in s[g.at].spill
                        THEN ~g.dirty /\ g.page = [val |-> m[p], keep |-> FALSE]
                        ELSE g.dirty /\ g.page = s[g.at].dirty[p]
      /\ g = [at |-> g.at, dirty |-> g.dirty, page |-> g.page] /\ g.dirty \in BOOLEAN
  <2>1. s \in Seq(Txn)
    BY <1>2
  <2> QED BY <1>3, <2>1, GetIs
<1>5. /\ h.at \in 0..Len(b)
      /\ h.at = 0 => /\ \A i \in 1..Len(b) : p \notin Listed(b[i])
                     /\ ~h.dirty /\ h.page = [val |-> m[p], keep |-> FALSE]
      /\ h.at # 0 => /\ p \in Listed(b[h.at])
                     /\ \A i \in (h.at + 1)..Len(b) : p \notin Listed(b[i])
                     /\ IF p \in b[h.at].spill
                        THEN ~h.dirty /\ h.page = [val |-> m[p], keep |-> FALSE]
                        ELSE h.dirty /\ h.page = b[h.at].dirty[p]
      /\ h = [at |-> h.at, dirty |-> h.dirty, page |-> h.page] /\ h.dirty \in BOOLEAN
  BY GetIs
<1>6. CASE p \in Listed(t)
  <2>1. g.at = Len(b) + 1
    <3>1. g.at # 0
      BY <1>2, <1>4, <1>6
    <3>2. ~(g.at \in 1..Len(b))
      <4> SUFFICES ASSUME g.at \in 1..Len(b) PROVE FALSE
        OBVIOUS
      <4>1. Len(b) + 1 \in (g.at + 1)..Len(s)
        BY <1>2
      <4> QED BY <1>2, <1>4, <1>6, <3>1, <4>1
    <3> QED BY <1>2, <1>4, <3>1, <3>2
  <2>2. Len(b) + 1 # 0
    BY <1>2
  <2>3. IF p \in t.spill THEN ~g.dirty /\ g.page = [val |-> m[p], keep |-> FALSE]
                         ELSE g.dirty /\ g.page = t.dirty[p]
    BY <1>2, <1>4, <2>1, <2>2
  <2>4. p \in t.spill \/ p \in DOMAIN t.dirty
    BY <1>6 DEF Listed
  <2> QED BY <1>1, <1>3, <1>4, <2>1, <2>3, <2>4
<1>7. CASE p \notin Listed(t)
  <2>1. g.at # Len(b) + 1
    <3>1. Len(b) + 1 # 0
      BY <1>2
    <3> QED BY <1>2, <1>4, <1>7, <3>1
  <2>2. g.at \in 0..Len(b)
    BY <1>2, <1>4, <2>1
  <2>3. g.at = h.at
    <3>1. CASE g.at = 0
      <4>1. h.at \notin 1..Len(b)
        BY <1>2, <1>4, <1>5, <3>1
      <4> QED BY <1>2, <1>5, <3>1, <4>1
    <3>2. CASE h.at = 0
      <4>1. g.at \notin 1..Len(b)
        BY <1>2, <1>4, <1>5, <3>2
      <4> QED BY <1>2, <2>2, <3>2, <4>1
    <3>3. CASE g.at # 0 /\ h.at # 0
      <4>1. PICK x, y : x = g.at /\ y = h.at
        OBVIOUS
      <4>2. x \in 1..Len(b) /\ y \in 1..Len(b)
        BY <1>2, <1>5, <2>2, <3>3, <4>1
      <4>3. p \in Listed(b[x]) /\ \A i \in (x + 1)..Len(b) : p \notin Listed(b[i])
        <5>1. \A i \in (x + 1)..Len(b) : i \in (x + 1)..Len(s) /\ i \in 1..Len(b)
          BY <1>2, <4>2
        <5> QED BY <1>2, <1>4, <3>3, <4>1, <4>2, <5>1
      <4>4. p \in Listed(b[y]) /\ \A i \in (y + 1)..Len(b) : p \notin Listed(b[i])
        BY <1>5, <3>3, <4>1
      <4>5. ~(y \in (x + 1)..Len(b)) /\ ~(x \in (y + 1)..Len(b))
        BY <4>3, <4>4
      <4>6. x = y
        BY <1>2, <4>2, <4>5
      <4> QED BY <4>1, <4>6
    <3> QED BY <3>1, <3>2, <3>3
  <2>4. g.dirty = h.dirty /\ g.page = h.page
    <3>1. CASE h.at = 0
      BY <1>4, <1>5, <2>3, <3>1
    <3>2. CASE h.at # 0
      <4>1. s[h.at] = b[h.at]
        BY <1>2, <1>5, <3>2
      <4> QED BY <1>4, <1>5, <2>3, <3>2, <4>1
    <3> QED BY <3>1, <3>2
  <2>5. g = h
    BY <1>4, <1>5, <2>3, <2>4
  <2>6. p \notin t.spill /\ p \notin DOMAIN t.dirty
    BY <1>7 DEF Listed
  <2> QED BY <1>1, <1>3, <2>5, <2>6
<1> QED BY <1>6, <1>7

\* What a transaction finds in memory, when one is put above the others.
LEMMA MemoryPush ==
    ASSUME NEW b \in Seq(Txn), NEW t \in Txn
    PROVE  MemoryOf(Append(b, t)) = Memory(MemoryOf(b), t)
<1>1. PICK s : s = Append(b, t)
  OBVIOUS
<1>2. /\ Len(s) = Len(b) + 1 /\ Len(b) \in Nat /\ s[Len(b) + 1] = t
      /\ \A i \in 1..Len(b) : s[i] = b[i]
  BY <1>1, Longer
<1>3. DOMAIN t.dirty \subseteq Pages
  BY DirtyList DEF Txn
<1>4. ASSUME NEW p \in Pages PROVE p \in MemoryOf(s) <=> p \in Memory(MemoryOf(b), t)
  <2> DEFINE At(x, j) == /\ p \in DOMAIN x[j].dirty \ x[j].spill
                         /\ \A l \in (j + 1)..Len(x) : p \notin Listed(x[l])
  <2>1. /\ p \in MemoryOf(s) <=> \E j \in 1..Len(s) : At(s, j)
        /\ p \in MemoryOf(b) <=> \E j \in 1..Len(b) : At(b, j)
    BY DEF MemoryOf
  <2>2. At(s, Len(b) + 1) <=> p \in DOMAIN t.dirty \ t.spill
    BY <1>2
  <2>3. ASSUME NEW j \in 1..Len(b) PROVE At(s, j) <=> At(b, j) /\ p \notin Listed(t)
    <3>1. s[j] = b[j]
      BY <1>2
    <3>2. \A l \in (j + 1)..Len(b) : l \in 1..Len(b) /\ l \in (j + 1)..Len(s)
      BY <1>2
    <3>3. Len(b) + 1 \in (j + 1)..Len(s)
      BY <1>2
    <3>4. \A l \in (j + 1)..Len(s) : l = Len(b) + 1 \/ l \in (j + 1)..Len(b)
      BY <1>2
    <3>5. ASSUME At(s, j) PROVE At(b, j) /\ p \notin Listed(t)
      BY <1>2, <3>1, <3>2, <3>3, <3>5
    <3>6. ASSUME At(b, j), p \notin Listed(t) PROVE At(s, j)
      BY <1>2, <3>1, <3>2, <3>4, <3>6
    <3> QED BY <3>5, <3>6
  <2>4. \A j \in 1..Len(s) : j = Len(b) + 1 \/ j \in 1..Len(b)
    BY <1>2
  <2>5. Len(b) + 1 \in 1..Len(s) /\ \A j \in 1..Len(b) : j \in 1..Len(s)
    BY <1>2
  <2> HIDE DEF At
  <2>6. p \in MemoryOf(s) <=> (p \in DOMAIN t.dirty \ t.spill) \/ (p \in MemoryOf(b) /\ p \notin Listed(t))
    BY <2>1, <2>2, <2>3, <2>4, <2>5
  <2> QED BY <2>6 DEF Memory
<1>5. MemoryOf(s) \subseteq Pages /\ Memory(MemoryOf(b), t) \subseteq Pages
  BY <1>3 DEF MemoryOf, Memory
<1> QED BY <1>1, <1>4, <1>5

\* What a transaction lists and uses are pages.
LEMMA TxnPages ==
    ASSUME NEW t \in Txn
    PROVE  /\ t.free \subseteq Pages /\ t.spill \subseteq Pages /\ Range(t.loose) \subseteq Pages
           /\ DOMAIN t.dirty \subseteq Pages /\ Listed(t) \subseteq Pages /\ UsedBy(t.root) \subseteq Pages
<1>1. t.free \subseteq Pages /\ t.spill \subseteq Pages /\ t.loose \in Seq(Pages) /\ t.root \in Roots
  BY DEF Txn
<1>2. DOMAIN t.dirty \subseteq Pages
  BY DirtyList DEF Txn
<1>3. Range(t.loose) \subseteq Pages
  BY <1>1 DEF Range
<1>4. UsedBy(t.root) \subseteq Pages
  BY <1>1 DEF UsedBy, Roots
<1> QED BY <1>1, <1>2, <1>3, <1>4 DEF Listed

\* A frame consists of sets of pages.
LEMMA FrameType ==
    ASSUME NEW root, NEW ts \in Seq(Txn)
    PROVE  /\ Frame(root, ts) \in Frames
           /\ Frame(root, ts).clean \subseteq Frame(root, ts).used
           /\ Frame(root, ts).mem \subseteq Frame(root, ts).listed
<1>1. Frame(root, ts) \in Frames
  BY DEF Frame, Frames, MemoryOf
<1>2. Frame(root, ts).clean \subseteq Frame(root, ts).used
  BY DEF Frame
<1>3. Frame(root, ts).mem \subseteq Frame(root, ts).listed
  BY DEF Frame, MemoryOf, Listed
<1> QED BY <1>1, <1>2, <1>3

\* The frame above one more transaction.
LEMMA FramePush ==
    ASSUME NEW root, NEW b \in Seq(Txn), NEW t \in Txn
    PROVE  Frame(root, Append(b, t)) = Push(Frame(root, b), t)
<1>1. PICK s, n : s = Append(b, t) /\ n = Len(b)
  OBVIOUS
<1>2. Len(s) = n + 1 /\ n \in Nat /\ s[n + 1] = t /\ \A i \in 1..n : s[i] = b[i]
  BY <1>1, Longer
<1>3. /\ \A i \in 1..(n + 1) : i = n + 1 \/ i \in 1..n
      /\ n + 1 \in 1..(n + 1) /\ \A i \in 1..n : i \in 1..(n + 1)
  BY <1>2
<1>4. /\ t.free \subseteq Pages /\ t.spill \subseteq Pages /\ Range(t.loose) \subseteq Pages
      /\ Listed(t) \subseteq Pages /\ UsedBy(t.root) \subseteq Pages
  BY TxnPages
<1>5. PICK f, g : f = Frame(root, b) /\ g = Frame(root, s)
  OBVIOUS
<1>6. g.free = f.free \cup t.free
  <2>1. \A p : p \in g.free <=> p \in Pages /\ \E j \in 1..(n + 1) : p \in s[j].free
    BY <1>2, <1>5 DEF Frame
  <2>2. \A p : p \in f.free <=> p \in Pages /\ \E j \in 1..n : p \in b[j].free
    BY <1>1, <1>5 DEF Frame
  <2>3. \A p : p \in g.free <=> p \in f.free \/ p \in t.free
    BY <1>2, <1>3, <1>4, <2>1, <2>2
  <2> QED BY <2>3
<1>7. g.loose = f.loose \cup Range(t.loose)
  <2>1. \A p : p \in g.loose <=> p \in Pages /\ \E j \in 1..(n + 1) : p \in Range(s[j].loose)
    BY <1>2, <1>5 DEF Frame
  <2>2. \A p : p \in f.loose <=> p \in Pages /\ \E j \in 1..n : p \in Range(b[j].loose)
    BY <1>1, <1>5 DEF Frame
  <2>3. \A p : p \in g.loose <=> p \in f.loose \/ p \in Range(t.loose)
    BY <1>2, <1>3, <1>4, <2>1, <2>2
  <2> QED BY <2>3
<1>8. g.listed = f.listed \cup Listed(t)
  <2>1. \A p : p \in g.listed <=> p \in Pages /\ \E j \in 1..(n + 1) : p \in Listed(s[j])
    BY <1>2, <1>5 DEF Frame
  <2>2. \A p : p \in f.listed <=> p \in Pages /\ \E j \in 1..n : p \in Listed(b[j])
    BY <1>1, <1>5 DEF Frame
  <2>3. \A p : p \in g.listed <=> p \in f.listed \/ p \in Listed(t)
    BY <1>2, <1>3, <1>4, <2>1, <2>2
  <2> QED BY <2>3
<1>9. g.spilled = f.spilled \cup t.spill
  <2>1. \A p : p \in g.spilled <=> p \in Pages /\ \E j \in 1..(n + 1) : p \in s[j].spill
    BY <1>2, <1>5 DEF Frame
  <2>2. \A p : p \in f.spilled <=> p \in Pages /\ \E j \in 1..n : p \in b[j].spill
    BY <1>1, <1>5 DEF Frame
  <2>3. \A p : p \in g.spilled <=> p \in f.spilled \/ p \in t.spill
    BY <1>2, <1>3, <1>4, <2>1, <2>2
  <2> QED BY <2>3
<1>10. g.used = f.used \cup UsedBy(t.root)
  <2>1. \A p : p \in g.used <=> p \in Pages /\ (p \in UsedBy(root) \/ \E j \in 1..(n + 1) : p \in UsedBy(s[j].root))
    BY <1>2, <1>5 DEF Frame
  <2>2. \A p : p \in f.used <=> p \in Pages /\ (p \in UsedBy(root) \/ \E j \in 1..n : p \in UsedBy(b[j].root))
    BY <1>1, <1>5 DEF Frame
  <2>3. \A p : p \in g.used <=> p \in f.used \/ p \in UsedBy(t.root)
    BY <1>2, <1>3, <1>4, <2>1, <2>2
  <2> QED BY <2>3
<1>11. g.clean = f.clean \cup (UsedBy(t.root) \ (f.listed \cup Listed(t)))
  <2> DEFINE C(x, p, j) == p \in UsedBy(x[j].root) /\ \A l \in 1..j : p \notin Listed(x[l])
  <2>1. \A p : p \in g.clean <=> p \in Pages /\ (p \in UsedBy(root) \/ \E j \in 1..(n + 1) : C(s, p, j))
    BY <1>2, <1>5 DEF Frame
  <2>2. \A p : p \in f.clean <=> p \in Pages /\ (p \in UsedBy(root) \/ \E j \in 1..n : C(b, p, j))
    BY <1>1, <1>5 DEF Frame
  <2>3. ASSUME NEW p, NEW j \in 1..n PROVE C(s, p, j) <=> C(b, p, j)
    <3>1. \A l \in 1..j : l \in 1..n
      BY <1>2
    <3> QED BY <1>2, <3>1
  <2>4. \A p : p \in g.listed <=> p \in Pages /\ \E j \in 1..(n + 1) : p \in Listed(s[j])
    BY <1>2, <1>5 DEF Frame
  <2>5. \A p \in Pages : C(s, p, n + 1) <=> p \in UsedBy(t.root) /\ p \notin g.listed
    BY <1>2, <2>4
  <2> HIDE DEF C
  <2>6. \A p : p \in g.clean <=> p \in f.clean \/ (p \in UsedBy(t.root) /\ p \notin g.listed)
    BY <1>3, <1>4, <2>1, <2>2, <2>3, <2>5
  <2> QED BY <1>8, <2>6
<1>12. g.mem = Memory(f.mem, t)
  <2>1. g.mem = MemoryOf(s) /\ f.mem = MemoryOf(b)
    BY <1>5 DEF Frame
  <2> QED BY <1>1, <2>1, MemoryPush
<1>13. g = [free |-> g.free, loose |-> g.loose, mem |-> g.mem, listed |-> g.listed,
            spilled |-> g.spilled, used |-> g.used, clean |-> g.clean]
  BY <1>5 DEF Frame
<1> QED BY <1>1, <1>5, <1>6, <1>7, <1>8, <1>9, <1>10, <1>11, <1>12, <1>13 DEF Push

\* Nothing is below the outermost transaction but the committed state.
LEMMA FrameEmpty ==
    ASSUME NEW root \in Roots
    PROVE  Frame(root, <<>>) = [free |-> {}, loose |-> {}, mem |-> {}, listed |-> {}, spilled |-> {},
                                used |-> UsedBy(root), clean |-> UsedBy(root)]
<1>1. Len(<<>>) = 0 /\ 1..0 = {}
  OBVIOUS
<1>2. UsedBy(root) \subseteq Pages
  BY DEF UsedBy, Roots
<1>3. PICK e : e = <<>>
  OBVIOUS
<1>4. 1..Len(e) = {}
  BY <1>1, <1>3
<1>5. PICK f : f = Frame(root, e)
  OBVIOUS
<1>6. /\ f.free = {} /\ f.loose = {} /\ f.mem = {} /\ f.listed = {} /\ f.spilled = {}
      /\ f.used = UsedBy(root) /\ f.clean = UsedBy(root)
  BY <1>2, <1>4, <1>5 DEF Frame, MemoryOf
<1>7. f = [free |-> f.free, loose |-> f.loose, mem |-> f.mem, listed |-> f.listed,
           spilled |-> f.spilled, used |-> f.used, clean |-> f.clean]
  BY <1>5 DEF Frame
<1> QED BY <1>3, <1>5, <1>6, <1>7

\* What mdb_page_get finds, in terms of the frame.
LEMMA GetInFrame ==
    ASSUME NEW root, NEW b \in Seq(Txn), NEW m \in [Pages -> Contents], NEW p \in Pages,
           NEW g, g = PageGet(b, m, p)
    PROVE  /\ g.dirty <=> p \in Frame(root, b).mem
           /\ g.at = 0 <=> p \notin Frame(root, b).listed
           /\ g.page \in Page
           /\ g.at \in 0..Len(b)
<1>1. PICK n : n = Len(b)
  OBVIOUS
<1>2. /\ g.at \in 0..n
      /\ g.at = 0 => /\ \A i \in 1..n : p \notin Listed(b[i])
                     /\ ~g.dirty /\ g.page = [val |-> m[p], keep |-> FALSE]
      /\ g.at # 0 => /\ p \in Listed(b[g.at])
                     /\ \A i \in (g.at + 1)..n : p \notin Listed(b[i])
                     /\ IF p \in b[g.at].spill
                        THEN ~g.dirty /\ g.page = [val |-> m[p], keep |-> FALSE]
                        ELSE g.dirty /\ g.page = b[g.at].dirty[p]
      /\ g.dirty \in BOOLEAN /\ n \in Nat
  BY <1>1, GetIs
<1>3. \A i \in 1..n : b[i] \in Txn
  BY <1>1
<1>4. g.at = 0 <=> p \notin Frame(root, b).listed
  <2>1. p \in Frame(root, b).listed <=> \E j \in 1..n : p \in Listed(b[j])
    BY <1>1 DEF Frame
  <2>2. g.at # 0 => g.at \in 1..n
    BY <1>2
  <2> QED BY <1>2, <2>1, <2>2
<1>5. g.dirty <=> p \in Frame(root, b).mem
  <2>1. p \in Frame(root, b).mem <=> \E j \in 1..n : /\ p \in DOMAIN b[j].dirty \ b[j].spill
                                                     /\ \A l \in (j + 1)..n : p \notin Listed(b[l])
    BY <1>1 DEF Frame, MemoryOf
  <2>2. CASE g.at = 0
    BY <1>2, <2>1, <2>2 DEF Listed
  <2>3. CASE g.at # 0
    <3>1. PICK a : a = g.at
      OBVIOUS
    <3>2. a \in 1..n /\ p \in Listed(b[a]) /\ \A i \in (a + 1)..n : p \notin Listed(b[i])
      BY <1>2, <2>3, <3>1
    <3>3. g.dirty <=> p \notin b[a].spill
      BY <1>2, <2>3, <3>1
    <3>4. p \notin b[a].spill => p \in DOMAIN b[a].dirty \ b[a].spill
      BY <3>2 DEF Listed
    <3>5. ASSUME NEW j \in 1..n, p \in DOMAIN b[j].dirty \ b[j].spill,
                 \A l \in (j + 1)..n : p \notin Listed(b[l])
          PROVE  j = a
      <4>1. p \in Listed(b[j])
        BY <3>5 DEF Listed
      <4>2. ~(j \in (a + 1)..n) /\ ~(a \in (j + 1)..n)
        BY <3>2, <3>5, <4>1
      <4> QED BY <1>2, <3>2, <4>2
    <3>6. ASSUME p \in Frame(root, b).mem PROVE p \notin b[a].spill
      BY <2>1, <3>5, <3>6
    <3> QED BY <2>1, <3>2, <3>3, <3>4, <3>6
  <2> QED BY <2>2, <2>3
<1>6. g.page \in Page
  <2>1. [val |-> m[p], keep |-> FALSE] \in Page
    BY DEF Page
  <2>2. ASSUME g.at # 0, p \notin b[g.at].spill PROVE g.page \in Page
    <3>1. g.at \in 1..n /\ g.page = b[g.at].dirty[p] /\ p \in Listed(b[g.at])
      BY <1>2, <2>2
    <3>2. p \in DOMAIN b[g.at].dirty
      BY <2>2, <3>1 DEF Listed
    <3>3. b[g.at].dirty \in DirtyLists
      BY <1>3, <3>1 DEF Txn
    <3> QED BY <3>1, <3>2, <3>3, DirtyList
  <2> QED BY <1>2, <2>1, <2>2
<1> QED BY <1>1, <1>2, <1>4, <1>5, <1>6

-----------------------------------------------------------------------------
(* Steps of a transaction that keep its lists and pages in order. *)

DbType == [root : Roots, next : 2..MaxPg, old : SUBSET Pages, recent : SUBSET Pages]

\* The pages in use when a key gets another page, or none.
LEMMA UsedByAfter ==
    ASSUME NEW root \in Roots, NEW k \in Keys, NEW p \in Pages \cup {NoPage},
           \A i, j \in Keys : root[i] # NoPage /\ root[i] = root[j] => i = j
    PROVE  /\ [root EXCEPT ![k] = p] \in Roots
           /\ UsedBy([root EXCEPT ![k] = p]) = (UsedBy(root) \ {root[k]}) \cup ({p} \ {NoPage})
           /\ p \notin UsedBy(root) =>
                 \A i, j \in Keys : /\ [root EXCEPT ![k] = p][i] # NoPage
                                    /\ [root EXCEPT ![k] = p][i] = [root EXCEPT ![k] = p][j]
                                    => i = j
<1>1. PICK r : r = [root EXCEPT ![k] = p]
  OBVIOUS
<1>2. r \in Roots /\ r[k] = p /\ \A i \in Keys : i # k => r[i] = root[i]
  BY <1>1 DEF Roots
<1>3. \A x : x \in UsedBy(root) <=> x # NoPage /\ \E i \in Keys : x = root[i]
  BY DEF UsedBy
<1>4. \A x : x \in UsedBy(r) <=> x # NoPage /\ \E i \in Keys : x = r[i]
  BY DEF UsedBy
<1>5. \A x : x \in UsedBy(r) <=> x \in (UsedBy(root) \ {root[k]}) \cup ({p} \ {NoPage})
  BY <1>2, <1>3, <1>4
<1>6. p \notin UsedBy(root) => \A i, j \in Keys : r[i] # NoPage /\ r[i] = r[j] => i = j
  BY <1>2, <1>3
<1> QED BY <1>1, <1>2, <1>5, <1>6

\* The old record is read: its pages were reusable already.
LEMMA LevelRead ==
    ASSUME NEW d \in DbType, NEW f \in Frames, NEW t \in Txn, NEW pg \in PgStates,
           Level(d, f, t, pg, {}), ~pg.read, pg.head = {}
    PROVE  Level(d, f, t, [head |-> d.old, read |-> TRUE], {})
<1>1. PICK g : g = [head |-> d.old, read |-> TRUE]
  OBVIOUS
<1>2. g.head = d.old /\ g.read
  BY <1>1
<1>3. Unread(d, g) = {} /\ Reusable(d, g) = Reusable(d, pg)
  BY <1>2 DEF Unread, Reusable
<1>4. PICK R : R = Reusable(d, pg)
  OBVIOUS
<1> QED BY <1>1, <1>3, <1>4 DEF Level, Placed, Apart

\* A reusable page is taken.
LEMMA LevelTake ==
    ASSUME NEW d \in DbType, NEW f \in Frames, NEW t \in Txn, NEW pg \in PgStates,
           Level(d, f, t, pg, {}), NEW p \in pg.head, f.clean \subseteq f.used,
           NEW g \in PgStates, g = [pg EXCEPT !.head = @ \ {p}]
    PROVE  /\ Level(d, f, t, g, {p})
           /\ p \notin f.listed \cup Listed(t) \cup f.clean \cup f.loose /\ p \in 2..(t.next - 1)
           /\ p \notin Reusable(d, g)
<1>1. g.head = pg.head \ {p} /\ g.read = pg.read
  BY DEF PgStates
<1>2. Unread(d, g) = Unread(d, pg) /\ p \notin Unread(d, pg)
  BY <1>1 DEF Unread, Level, Placed
<1>3. Reusable(d, g) = Reusable(d, pg) \ {p} /\ p \in Reusable(d, pg)
  BY <1>1, <1>2 DEF Reusable
<1>4. PICK U, R, S, E : U = UsedBy(t.root) /\ R = Reusable(d, pg) /\ S = Reusable(d, g) /\ E = Unread(d, pg)
  OBVIOUS
<1>5. PICK F, O, L : F = f.free \cup t.free /\ O = f.loose \cup Range(t.loose) /\ L = f.listed \cup Listed(t)
  OBVIOUS
<1>6. /\ U \cup F \cup O \cup R \cup d.recent = 2..(t.next - 1)
      /\ U \cap F = {} /\ (U \cup F) \cap O = {} /\ (U \cup F \cup O) \cap R = {}
      /\ (U \cup F \cup O \cup R) \cap d.recent = {} /\ pg.head \cap E = {}
      /\ \A j, k \in Keys : t.root[j] # NoPage /\ t.root[j] = t.root[k] => j = k
      /\ L \cap f.clean = {} /\ L \cap R = {} /\ L \subseteq 2..(t.next - 1)
      /\ f.used \cap R = {} /\ f.used \subseteq 2..(t.next - 1)
  BY <1>4, <1>5 DEF Level, Placed, Apart
<1>7. S = R \ {p} /\ p \in R /\ g.head \cap E = {}
  BY <1>1, <1>3, <1>4, <1>6
<1>8. Placed(d, t.root, F, O, g, t.next, {p})
  <2>1. U \cup F \cup O \cup S \cup d.recent \cup {p} = 2..(t.next - 1)
    BY <1>6, <1>7
  <2>2. (U \cup F \cup O) \cap S = {} /\ (U \cup F \cup O \cup S) \cap d.recent = {}
    BY <1>6, <1>7
  <2>3. (U \cup F \cup O \cup S \cup d.recent) \cap {p} = {}
    BY <1>6, <1>7
  <2> QED BY <1>2, <1>4, <1>6, <1>7, <2>1, <2>2, <2>3 DEF Placed
<1>9. Apart(d, f, t, g)
  BY <1>4, <1>5, <1>6, <1>7 DEF Apart
<1>10. p \notin L /\ p \notin f.clean /\ p \notin O /\ p \in 2..(t.next - 1) /\ p \notin S
  BY <1>6, <1>7
<1>11. ~t.error => ListsOK(f, t)
  BY DEF Level
<1> QED BY <1>4, <1>5, <1>8, <1>9, <1>10, <1>11 DEF Level

\* The page after the last one is taken.
LEMMA LevelGrow ==
    ASSUME NEW d \in DbType, NEW f \in Frames, NEW t \in Txn, NEW pg \in PgStates,
           Level(d, f, t, pg, {}), f.clean \subseteq f.used, f.loose \subseteq Pages,
           NEW u \in Txn, u = [t EXCEPT !.next = @ + 1]
    PROVE  /\ Level(d, f, u, pg, {t.next})
           /\ t.next \notin f.listed \cup Listed(t) \cup f.clean \cup f.loose
           /\ t.next \notin Reusable(d, pg) /\ t.next \in 2..(u.next - 1)
<1>1. /\ u.next = t.next + 1 /\ u.root = t.root /\ u.free = t.free /\ u.loose = t.loose
      /\ u.spill = t.spill /\ u.dirty = t.dirty /\ u.error = t.error /\ u.room = t.room
  BY DEF Txn
<1>2. t.next \in Nat /\ t.next >= 2
  BY DEF Txn
<1>3. PICK n : n = t.next
  OBVIOUS
<1>4. n \notin 2..(n - 1) /\ 2..(u.next - 1) = (2..(n - 1)) \cup {n} /\ n \in 2..(u.next - 1)
  BY <1>1, <1>2, <1>3
<1>5. PICK U, R, E, N : U = UsedBy(t.root) /\ R = Reusable(d, pg) /\ E = Unread(d, pg) /\ N = 2..(n - 1)
  OBVIOUS
<1>6. PICK F, O, L : F = f.free \cup t.free /\ O = f.loose \cup Range(t.loose) /\ L = f.listed \cup Listed(t)
  OBVIOUS
<1>7. /\ U \cup F \cup O \cup R \cup d.recent = N
      /\ U \cap F = {} /\ (U \cup F) \cap O = {} /\ (U \cup F \cup O) \cap R = {}
      /\ (U \cup F \cup O \cup R) \cap d.recent = {} /\ pg.head \cap E = {}
      /\ \A j, k \in Keys : t.root[j] # NoPage /\ t.root[j] = t.root[k] => j = k
      /\ L \cap f.clean = {} /\ L \cap R = {} /\ L \subseteq N
      /\ f.used \cap R = {} /\ f.used \subseteq N
  BY <1>3, <1>5, <1>6 DEF Level, Placed, Apart
<1>8. n \notin N /\ 2..(u.next - 1) = N \cup {n}
  BY <1>4, <1>5
<1>9. Placed(d, u.root, F, O, pg, u.next, {n})
  <2>1. U \cup F \cup O \cup R \cup d.recent \cup {n} = 2..(u.next - 1)
    BY <1>7, <1>8
  <2>2. (U \cup F \cup O \cup R \cup d.recent) \cap {n} = {}
    BY <1>7, <1>8
  <2> QED BY <1>1, <1>5, <1>7, <2>1, <2>2 DEF Placed
<1>10. Listed(u) = Listed(t) /\ (ListsOK(f, t) => ListsOK(f, u))
  BY <1>1 DEF Listed, ListsOK, Memory
<1>11. Apart(d, f, u, pg)
  BY <1>5, <1>6, <1>7, <1>8, <1>10 DEF Apart
<1>12. n \notin L /\ n \notin f.clean /\ n \notin O /\ n \notin R
  BY <1>7, <1>8
<1>13. ~u.error => ListsOK(f, u)
  BY <1>1, <1>10 DEF Level
<1> QED BY <1>1, <1>3, <1>4, <1>5, <1>6, <1>9, <1>11, <1>12, <1>13 DEF Level

\* The pages are finitely many.
LEMMA PagesFinite ==
    ASSUME NEW S, S \subseteq Pages
    PROVE  IsFiniteSet(S) /\ Cardinality(S) \in Nat
<1>1. IsFiniteSet(Pages)
  <2>1. MaxPg - 1 \in Int /\ 2 \in Int
    BY ConstantsAssumption
  <2> QED BY <2>1, FS_Interval DEF Pages
<1> QED BY <1>1, FS_Subset, FS_CardinalityType

\* One element more or less.
LEMMA OneMore ==
    ASSUME NEW S, S \subseteq Pages, NEW p \in Pages
    PROVE  /\ p \notin S => Cardinality(S \cup {p}) = Cardinality(S) + 1
           /\ p \in S => Cardinality(S \ {p}) = Cardinality(S) - 1
<1>1. IsFiniteSet(S)
  BY PagesFinite
<1> QED BY <1>1, FS_AddElement, FS_RemoveElement

\* A page gets a place in the dirty list.
LEMMA LevelInsert ==
    ASSUME NEW d \in DbType, NEW f \in Frames, NEW t \in Txn, NEW pg \in PgStates, NEW new,
           Level(d, f, t, pg, new), ~t.error, NEW p \in Pages,
           p \notin Memory(f.mem, t), p \notin f.loose, p \notin f.clean,
           p \notin Reusable(d, pg), p \in 2..(t.next - 1),
           NEW u \in Txn, DOMAIN u.dirty = DOMAIN t.dirty \cup {p}, u.spill = t.spill \ {p},
           u.room = t.room - 1, u.root = t.root, u.free = t.free, u.loose = t.loose,
           u.next = t.next, u.error = t.error
    PROVE  Level(d, f, u, pg, new)
<1>1. Listed(u) = Listed(t) \cup {p}
  BY DEF Listed
<1>2. Apart(d, f, u, pg)
  <2>1. PICK L, R : L = f.listed \cup Listed(t) /\ R = Reusable(d, pg)
    OBVIOUS
  <2>2. f.listed \cup Listed(u) = L \cup {p}
    BY <1>1, <2>1
  <2>3. L \cap f.clean = {} /\ L \cap R = {} /\ L \subseteq 2..(t.next - 1)
    BY <2>1 DEF Level, Apart
  <2>4. (L \cup {p}) \cap f.clean = {} /\ (L \cup {p}) \cap R = {} /\ L \cup {p} \subseteq 2..(t.next - 1)
    BY <2>1, <2>3
  <2>5. f.used \cap R = {} /\ f.used \subseteq 2..(t.next - 1)
    BY <2>1 DEF Level, Apart
  <2> QED BY <2>1, <2>2, <2>4, <2>5 DEF Apart
<1>3. ListsOK(f, t)
  BY DEF Level
<1>4. ListsOK(f, u)
  <2>1. Memory(f.mem, u) = Memory(f.mem, t) \cup {p}
    BY <1>1, <1>3 DEF Memory, Listed, ListsOK
  <2>2. Memory(f.mem, t) \subseteq Pages
    BY TxnPages DEF Memory, Frames
  <2>3. Cardinality(Memory(f.mem, u)) = Cardinality(Memory(f.mem, t)) + 1
    BY <2>1, <2>2, OneMore
  <2>4. Cardinality(Memory(f.mem, t)) \in Nat /\ MaxDirty \in Nat
    BY <2>2, PagesFinite, ConstantsAssumption
  <2>5. t.room = MaxDirty - Cardinality(Memory(f.mem, t))
    BY <1>3 DEF ListsOK
  <2>6. u.room = MaxDirty - Cardinality(Memory(f.mem, u))
    BY <2>3, <2>4, <2>5
  <2>7. /\ DOMAIN t.dirty \cap t.spill = {} /\ Range(t.loose) \subseteq DOMAIN t.dirty
        /\ t.spill \cap f.spilled = {} /\ f.loose \cap Listed(t) = {}
        /\ \A i, j \in 1..Len(t.loose) : t.loose[i] = t.loose[j] => i = j
    BY <1>3 DEF ListsOK
  <2>8. DOMAIN u.dirty \cap u.spill = {} /\ Range(u.loose) \subseteq DOMAIN u.dirty
    BY <2>7
  <2>9. u.spill \cap f.spilled = {} /\ f.loose \cap Listed(u) = {}
    BY <1>1, <2>7
  <2> QED BY <2>6, <2>7, <2>8, <2>9 DEF ListsOK
<1>5. Placed(d, u.root, f.free \cup u.free, f.loose \cup Range(u.loose), pg, u.next, new)
  BY DEF Level
<1> QED BY <1>2, <1>4, <1>5 DEF Level

\* A page that is dirty below is copied: it is in memory as before.
LEMMA LevelCopy ==
    ASSUME NEW d \in DbType, NEW f \in Frames, NEW t \in Txn, NEW pg \in PgStates, NEW new,
           Level(d, f, t, pg, new), ~t.error, NEW p \in Pages,
           p \in f.mem, f.mem \subseteq f.listed, p \notin f.loose, p \notin t.spill,
           NEW u \in Txn, DOMAIN u.dirty = DOMAIN t.dirty \cup {p}, u.spill = t.spill,
           u.room = t.room, u.root = t.root, u.free = t.free, u.loose = t.loose,
           u.next = t.next, u.error = t.error
    PROVE  Level(d, f, u, pg, new)
<1>1. Listed(u) = Listed(t) \cup {p}
  BY DEF Listed
<1>2. Apart(d, f, u, pg)
  <2>1. f.listed \cup Listed(u) = f.listed \cup Listed(t)
    BY <1>1
  <2>2. Apart(d, f, t, pg)
    BY DEF Level
  <2> QED BY <2>1, <2>2 DEF Apart
<1>3. ListsOK(f, t)
  BY DEF Level
<1>4. ListsOK(f, u)
  <2>1. Memory(f.mem, u) = Memory(f.mem, t)
    BY <1>1, <1>3 DEF Memory, Listed, ListsOK
  <2>7. /\ DOMAIN t.dirty \cap t.spill = {} /\ Range(t.loose) \subseteq DOMAIN t.dirty
        /\ t.spill \cap f.spilled = {} /\ f.loose \cap Listed(t) = {}
        /\ \A i, j \in 1..Len(t.loose) : t.loose[i] = t.loose[j] => i = j
        /\ t.room = MaxDirty - Cardinality(Memory(f.mem, t))
    BY <1>3 DEF ListsOK
  <2>8. DOMAIN u.dirty \cap u.spill = {} /\ Range(u.loose) \subseteq DOMAIN u.dirty
    BY <2>7
  <2>9. f.loose \cap Listed(u) = {}
    BY <1>1, <2>7
  <2> QED BY <2>1, <2>7, <2>8, <2>9 DEF ListsOK
<1>5. Placed(d, u.root, f.free \cup u.free, f.loose \cup Range(u.loose), pg, u.next, new)
  BY DEF Level
<1> QED BY <1>2, <1>4, <1>5 DEF Level

\* The first and the other elements of a list without repetition.
LEMMA HeadTail ==
    ASSUME NEW S, NEW s \in Seq(S), s # <<>>
    PROVE  /\ Head(s) \in Range(s) /\ Tail(s) \in Seq(S)
           /\ (\A i, j \in 1..Len(s) : s[i] = s[j] => i = j) =>
                /\ \A i, j \in 1..Len(Tail(s)) : Tail(s)[i] = Tail(s)[j] => i = j
                /\ Range(Tail(s)) = Range(s) \ {Head(s)}
<1>1. PICK r, n : r = Tail(s) /\ n = Len(s)
  OBVIOUS
<1>2. /\ n \in Nat /\ n >= 1 /\ r \in Seq(S) /\ Len(r) = n - 1 /\ Head(s) = s[1]
      /\ \A i \in 1..(n - 1) : r[i] = s[i + 1]
  BY <1>1
<1>3. \A x : x \in Range(s) <=> \E i \in 1..n : s[i] = x
  BY <1>1 DEF Range
<1>4. \A x : x \in Range(r) <=> \E i \in 1..(n - 1) : r[i] = x
  BY <1>2 DEF Range
<1>5. Head(s) \in Range(s)
  BY <1>2, <1>3
<1>6. ASSUME \A i, j \in 1..n : s[i] = s[j] => i = j
      PROVE  /\ \A i, j \in 1..(n - 1) : r[i] = r[j] => i = j
             /\ Range(r) = Range(s) \ {Head(s)}
  <2>1. \A i \in 1..(n - 1) : i + 1 \in 1..n /\ i + 1 # 1
    BY <1>2
  <2>2. \A i, j \in 1..(n - 1) : r[i] = r[j] => i = j
    <3> TAKE i, j \in 1..(n - 1)
    <3>1. r[i] = r[j] => i + 1 = j + 1
      BY <1>2, <1>6, <2>1
    <3> QED BY <1>2, <3>1
  <2>3. \A i \in 1..n : i = 1 \/ (i - 1 \in 1..(n - 1) /\ s[i] = r[i - 1])
    <3> TAKE i \in 1..n
    <3>1. i # 1 => i - 1 \in 1..(n - 1) /\ (i - 1) + 1 = i
      BY <1>2
    <3> QED BY <1>2, <3>1
  <2>4. ASSUME NEW x \in Range(r) PROVE x \in Range(s) \ {Head(s)}
    <3>1. PICK i \in 1..(n - 1) : r[i] = x
      BY <1>4
    <3>2. s[i + 1] = x /\ i + 1 \in 1..n /\ i + 1 # 1 /\ 1 \in 1..n
      BY <1>2, <2>1, <3>1
    <3> QED BY <1>2, <1>3, <1>6, <3>2
  <2>5. ASSUME NEW x \in Range(s) \ {Head(s)} PROVE x \in Range(r)
    <3>1. PICK i \in 1..n : s[i] = x
      BY <1>3
    <3> QED BY <1>2, <1>4, <2>3, <3>1
  <2> QED BY <2>2, <2>4, <2>5
<1> QED BY <1>1, <1>2, <1>5, <1>6

\* A loose page is used again.
LEMMA LevelReuse ==
    ASSUME NEW d \in DbType, NEW f \in Frames, NEW t \in Txn, NEW pg \in PgStates,
           Level(d, f, t, pg, {}), ~t.error, t.loose # <<>>,
           NEW u \in Txn, u = [t EXCEPT !.loose = Tail(@)]
    PROVE  /\ Level(d, f, u, pg, {Head(t.loose)})
           /\ Head(t.loose) \in DOMAIN t.dirty
<1>1. PICK p, s : p = Head(t.loose) /\ s = t.loose
  OBVIOUS
<1>2. /\ u.loose = Tail(s) /\ u.next = t.next /\ u.root = t.root /\ u.free = t.free
      /\ u.spill = t.spill /\ u.dirty = t.dirty /\ u.error = t.error /\ u.room = t.room
  BY <1>1 DEF Txn
<1>3. s \in Seq(Pages) /\ s # <<>>
  BY <1>1 DEF Txn
<1>4. ListsOK(f, t)
  BY DEF Level
<1>5. \A i, j \in 1..Len(s) : s[i] = s[j] => i = j
  BY <1>1, <1>4 DEF ListsOK
<1>6. /\ p \in Range(s) /\ Range(u.loose) = Range(s) \ {p}
      /\ \A i, j \in 1..Len(u.loose) : u.loose[i] = u.loose[j] => i = j
  <2>1. /\ Head(s) \in Range(s)
        /\ (\A i, j \in 1..Len(s) : s[i] = s[j] => i = j) =>
             /\ \A i, j \in 1..Len(Tail(s)) : Tail(s)[i] = Tail(s)[j] => i = j
             /\ Range(Tail(s)) = Range(s) \ {Head(s)}
    BY <1>3, HeadTail
  <2>2. /\ \A i, j \in 1..Len(Tail(s)) : Tail(s)[i] = Tail(s)[j] => i = j
        /\ Range(Tail(s)) = Range(s) \ {Head(s)}
    BY <1>5, <2>1
  <2> QED BY <1>1, <1>2, <2>1, <2>2
<1>7. /\ DOMAIN t.dirty \cap t.spill = {} /\ Range(s) \subseteq DOMAIN t.dirty
      /\ t.spill \cap f.spilled = {} /\ f.loose \cap Listed(t) = {}
      /\ t.room = MaxDirty - Cardinality(Memory(f.mem, t))
  BY <1>1, <1>4 DEF ListsOK
<1>8. Listed(u) = Listed(t) /\ Memory(f.mem, u) = Memory(f.mem, t)
  BY <1>2 DEF Listed, Memory
<1>9. ListsOK(f, u)
  <2>1. Range(u.loose) \subseteq DOMAIN u.dirty
    BY <1>2, <1>6, <1>7
  <2> QED BY <1>2, <1>6, <1>7, <1>8, <2>1 DEF ListsOK
<1>10. Apart(d, f, u, pg)
  BY <1>2, <1>8 DEF Level, Apart
<1>11. Placed(d, u.root, f.free \cup u.free, f.loose \cup Range(u.loose), pg, u.next, {p})
  <2>1. PICK U, R, E, N : U = UsedBy(t.root) /\ R = Reusable(d, pg) /\ E = Unread(d, pg) /\ N = 2..(t.next - 1)
    OBVIOUS
  <2>2. PICK F, O, V : F = f.free \cup t.free /\ O = f.loose \cup Range(s) /\ V = f.loose \cup Range(u.loose)
    OBVIOUS
  <2>3. p \notin f.loose
    BY <1>6, <1>7 DEF Listed
  <2>4. V = O \ {p} /\ p \in O
    BY <1>6, <2>2, <2>3
  <2>5. /\ U \cup F \cup O \cup R \cup d.recent = N
        /\ U \cap F = {} /\ (U \cup F) \cap O = {} /\ (U \cup F \cup O) \cap R = {}
        /\ (U \cup F \cup O \cup R) \cap d.recent = {} /\ pg.head \cap E = {}
        /\ \A j, k \in Keys : t.root[j] # NoPage /\ t.root[j] = t.root[k] => j = k
    BY <1>1, <2>1, <2>2 DEF Level, Placed
  <2>6. U \cup F \cup V \cup R \cup d.recent \cup {p} = N
    BY <2>4, <2>5
  <2>7. (U \cup F) \cap V = {} /\ (U \cup F \cup V) \cap R = {} /\ (U \cup F \cup V \cup R) \cap d.recent = {}
    BY <2>4, <2>5
  <2>8. (U \cup F \cup V \cup R \cup d.recent) \cap {p} = {}
    BY <2>4, <2>5
  <2>9. Placed(d, t.root, F, V, pg, t.next, {p})
    BY <2>1, <2>5, <2>6, <2>7, <2>8 DEF Placed
  <2> QED BY <1>2, <2>2, <2>9
<1> QED BY <1>1, <1>6, <1>7, <1>9, <1>10, <1>11 DEF Level

\* Only roots and freed pages differ.
SameLists(t, u) == /\ u.dirty = t.dirty /\ u.spill = t.spill /\ u.room = t.room /\ u.loose = t.loose
                   /\ u.next = t.next /\ u.error = t.error

\* Roots and freed pages do not matter to the lists.
LEMMA LevelPlaced ==
    ASSUME NEW d, NEW f, NEW t, NEW u, NEW pg, NEW old, NEW new,
           Level(d, f, t, pg, old),
           SameLists(t, u),
           Placed(d, u.root, f.free \cup u.free, f.loose \cup Range(t.loose), pg, t.next, new)
    PROVE  Level(d, f, u, pg, new)
<1> USE DEF SameLists
<1>1. Listed(u) = Listed(t) /\ Memory(f.mem, u) = Memory(f.mem, t)
  BY DEF Listed, Memory
<1>2. ListsOK(f, t) => ListsOK(f, u)
  BY <1>1 DEF ListsOK
<1>3. Apart(d, f, u, pg)
  BY <1>1 DEF Level, Apart
<1> QED BY <1>2, <1>3 DEF Level

\* A key without a page gets the new one.
LEMMA LevelAssign ==
    ASSUME NEW d \in DbType, NEW f \in Frames, NEW t \in Txn, NEW pg \in PgStates,
           NEW p \in Pages, NEW k \in Keys,
           Level(d, f, t, pg, {p}), t.root[k] = NoPage, NoPage \notin Pages,
           NEW u \in Txn, u = [t EXCEPT !.root[k] = p]
    PROVE  Level(d, f, u, pg, {})
<1>1. /\ u.root = [t.root EXCEPT ![k] = p] /\ u.free = t.free /\ u.loose = t.loose /\ u.next = t.next
      /\ u.spill = t.spill /\ u.dirty = t.dirty /\ u.error = t.error /\ u.room = t.room
  BY DEF Txn
<1>2. PICK U, V : U = UsedBy(t.root) /\ V = UsedBy(u.root)
  OBVIOUS
<1>3. PICK F, O, R, E, N : /\ F = f.free \cup t.free /\ O = f.loose \cup Range(t.loose)
                           /\ R = Reusable(d, pg) /\ E = Unread(d, pg) /\ N = 2..(t.next - 1)
  OBVIOUS
<1>4. /\ U \cup F \cup O \cup R \cup d.recent \cup {p} = N
      /\ U \cap F = {} /\ (U \cup F) \cap O = {} /\ (U \cup F \cup O) \cap R = {}
      /\ (U \cup F \cup O \cup R) \cap d.recent = {} /\ pg.head \cap E = {}
      /\ (U \cup F \cup O \cup R \cup d.recent) \cap {p} = {}
      /\ \A i, j \in Keys : t.root[i] # NoPage /\ t.root[i] = t.root[j] => i = j
  BY <1>2, <1>3 DEF Level, Placed
<1>5. t.root \in Roots
  BY DEF Txn
<1>6. p \notin U
  BY <1>4
<1>7. /\ V = (U \ {NoPage}) \cup ({p} \ {NoPage})
      /\ \A i, j \in Keys : u.root[i] # NoPage /\ u.root[i] = u.root[j] => i = j
  <2>1. p \in Pages \cup {NoPage}
    OBVIOUS
  <2> QED BY <1>1, <1>2, <1>4, <1>5, <1>6, <2>1, UsedByAfter
<1>8. V = U \cup {p}
  BY <1>2, <1>7 DEF UsedBy
<1>9. Placed(d, u.root, F, O, pg, t.next, {})
  <2>1. V \cup F \cup O \cup R \cup d.recent \cup {} = N /\ V \cap F = {} /\ (V \cup F) \cap O = {}
    BY <1>4, <1>8
  <2>2. (V \cup F \cup O) \cap R = {} /\ (V \cup F \cup O \cup R) \cap d.recent = {}
    BY <1>4, <1>8
  <2>3. (V \cup F \cup O \cup R \cup d.recent) \cap {} = {}
    OBVIOUS
  <2> QED BY <1>2, <1>3, <1>4, <1>7, <2>1, <2>2, <2>3 DEF Placed
<1>10. Placed(d, u.root, f.free \cup u.free, f.loose \cup Range(t.loose), pg, t.next, {})
  BY <1>1, <1>3, <1>9
<1>11. SameLists(t, u)
  BY <1>1 DEF SameLists
<1> QED BY <1>10, <1>11, LevelPlaced

\* A key gets the new page, and its old one is freed.
LEMMA LevelSwap ==
    ASSUME NEW d \in DbType, NEW f \in Frames, NEW t \in Txn, NEW pg \in PgStates,
           NEW p \in Pages, NEW k \in Keys,
           Level(d, f, t, pg, {p}), NEW q \in Pages, q = t.root[k], NoPage \notin Pages,
           NEW u \in Txn, u.root = [t.root EXCEPT ![k] = p], u.free = t.free \cup {q}, SameLists(t, u)
    PROVE  Level(d, f, u, pg, {})
<1>2. PICK U, V : U = UsedBy(t.root) /\ V = UsedBy(u.root)
  OBVIOUS
<1>3. PICK F, G, O, R, E, N : /\ F = f.free \cup t.free /\ O = f.loose \cup Range(t.loose)
                              /\ R = Reusable(d, pg) /\ E = Unread(d, pg) /\ N = 2..(t.next - 1)
                              /\ G = f.free \cup u.free
  OBVIOUS
<1>4. /\ U \cup F \cup O \cup R \cup d.recent \cup {p} = N
      /\ U \cap F = {} /\ (U \cup F) \cap O = {} /\ (U \cup F \cup O) \cap R = {}
      /\ (U \cup F \cup O \cup R) \cap d.recent = {} /\ pg.head \cap E = {}
      /\ (U \cup F \cup O \cup R \cup d.recent) \cap {p} = {}
      /\ \A i, j \in Keys : t.root[i] # NoPage /\ t.root[i] = t.root[j] => i = j
  BY <1>2, <1>3 DEF Level, Placed
<1>5. t.root \in Roots
  BY DEF Txn
<1>6. p \notin U /\ q \in U
  BY <1>2, <1>4 DEF UsedBy
<1>7. /\ V = (U \ {q}) \cup ({p} \ {NoPage})
      /\ \A i, j \in Keys : u.root[i] # NoPage /\ u.root[i] = u.root[j] => i = j
  <2>1. p \in Pages \cup {NoPage}
    OBVIOUS
  <2> QED BY <1>2, <1>4, <1>5, <1>6, <2>1, UsedByAfter
<1>8. V = (U \ {q}) \cup {p} /\ G = F \cup {q}
  BY <1>3, <1>7
<1>9. Placed(d, u.root, G, O, pg, t.next, {})
  <2>1. V \cup G \cup O \cup R \cup d.recent \cup {} = N /\ V \cap G = {} /\ (V \cup G) \cap O = {}
    BY <1>4, <1>6, <1>8
  <2>2. (V \cup G \cup O) \cap R = {} /\ (V \cup G \cup O \cup R) \cap d.recent = {}
    BY <1>4, <1>6, <1>8
  <2>3. (V \cup G \cup O \cup R \cup d.recent) \cap {} = {}
    OBVIOUS
  <2> QED BY <1>2, <1>3, <1>4, <1>7, <2>1, <2>2, <2>3 DEF Placed
<1>10. Placed(d, u.root, f.free \cup u.free, f.loose \cup Range(t.loose), pg, t.next, {})
  BY <1>3, <1>9
<1> QED BY <1>10, LevelPlaced

\* The page of a key is freed.
LEMMA LevelFree ==
    ASSUME NEW d \in DbType, NEW f \in Frames, NEW t \in Txn, NEW pg \in PgStates, NEW k \in Keys,
           Level(d, f, t, pg, {}), NEW q \in Pages, q = t.root[k], NoPage \notin Pages,
           NEW u \in Txn, u.root = [t.root EXCEPT ![k] = NoPage], u.free = t.free \cup {q}, SameLists(t, u)
    PROVE  Level(d, f, u, pg, {})
<1>2. PICK U, V : U = UsedBy(t.root) /\ V = UsedBy(u.root)
  OBVIOUS
<1>3. PICK F, G, O, R, E, N : /\ F = f.free \cup t.free /\ O = f.loose \cup Range(t.loose)
                              /\ R = Reusable(d, pg) /\ E = Unread(d, pg) /\ N = 2..(t.next - 1)
                              /\ G = f.free \cup u.free
  OBVIOUS
<1>4. /\ U \cup F \cup O \cup R \cup d.recent \cup {} = N
      /\ U \cap F = {} /\ (U \cup F) \cap O = {} /\ (U \cup F \cup O) \cap R = {}
      /\ (U \cup F \cup O \cup R) \cap d.recent = {} /\ pg.head \cap E = {}
      /\ \A i, j \in Keys : t.root[i] # NoPage /\ t.root[i] = t.root[j] => i = j
  BY <1>2, <1>3 DEF Level, Placed
<1>5. t.root \in Roots
  BY DEF Txn
<1>6. NoPage \notin U /\ q \in U
  BY <1>2, <1>4 DEF UsedBy
<1>7. /\ V = (U \ {q}) \cup ({NoPage} \ {NoPage})
      /\ \A i, j \in Keys : u.root[i] # NoPage /\ u.root[i] = u.root[j] => i = j
  <2>1. NoPage \in Pages \cup {NoPage}
    OBVIOUS
  <2> QED BY <1>2, <1>4, <1>5, <1>6, <2>1, UsedByAfter
<1>8. V = U \ {q} /\ G = F \cup {q}
  BY <1>3, <1>7
<1>9. Placed(d, u.root, G, O, pg, t.next, {})
  <2>1. V \cup G \cup O \cup R \cup d.recent \cup {} = N /\ V \cap G = {} /\ (V \cup G) \cap O = {}
    BY <1>4, <1>6, <1>8
  <2>2. (V \cup G \cup O) \cap R = {} /\ (V \cup G \cup O \cup R) \cap d.recent = {}
    BY <1>4, <1>6, <1>8
  <2>3. (V \cup G \cup O \cup R \cup d.recent) \cap {} = {}
    OBVIOUS
  <2> QED BY <1>2, <1>3, <1>4, <1>7, <2>1, <2>2, <2>3 DEF Placed
<1>10. Placed(d, u.root, f.free \cup u.free, f.loose \cup Range(t.loose), pg, t.next, {})
  BY <1>3, <1>9
<1> QED BY <1>10, LevelPlaced

\* The pages of all keys are freed.
LEMMA LevelFreeAll ==
    ASSUME NEW d \in DbType, NEW f \in Frames, NEW t \in Txn, NEW pg \in PgStates,
           Level(d, f, t, pg, {}), NEW u \in Txn,
           \A k \in Keys : u.root[k] = NoPage, u.free = t.free \cup UsedBy(t.root), SameLists(t, u)
    PROVE  Level(d, f, u, pg, {})
<1>2. PICK U, V : U = UsedBy(t.root) /\ V = UsedBy(u.root)
  OBVIOUS
<1>3. PICK F, G, O, R, E, N : /\ F = f.free \cup t.free /\ O = f.loose \cup Range(t.loose)
                              /\ R = Reusable(d, pg) /\ E = Unread(d, pg) /\ N = 2..(t.next - 1)
                              /\ G = f.free \cup u.free
  OBVIOUS
<1>4. /\ U \cup F \cup O \cup R \cup d.recent \cup {} = N
      /\ U \cap F = {} /\ (U \cup F) \cap O = {} /\ (U \cup F \cup O) \cap R = {}
      /\ (U \cup F \cup O \cup R) \cap d.recent = {} /\ pg.head \cap E = {}
  BY <1>2, <1>3 DEF Level, Placed
<1>7. V = {}
  BY <1>2 DEF UsedBy
<1>8. G = F \cup U
  BY <1>2, <1>3
<1>9. Placed(d, u.root, G, O, pg, t.next, {})
  <2>1. V \cup G \cup O \cup R \cup d.recent \cup {} = N /\ V \cap G = {} /\ (V \cup G) \cap O = {}
    BY <1>4, <1>7, <1>8
  <2>2. (V \cup G \cup O) \cap R = {} /\ (V \cup G \cup O \cup R) \cap d.recent = {}
    BY <1>4, <1>7, <1>8
  <2>3. (V \cup G \cup O \cup R \cup d.recent) \cap {} = {}
    OBVIOUS
  <2> QED BY <1>2, <1>3, <1>4, <1>7, <2>1, <2>2, <2>3 DEF Placed
<1>10. Placed(d, u.root, f.free \cup u.free, f.loose \cup Range(t.loose), pg, t.next, {})
  BY <1>3, <1>9
<1> QED BY <1>10, LevelPlaced

\* The elements of a sequence.
LEMMA SeqRange ==
    ASSUME NEW S, NEW s \in Seq(S)
    PROVE  \A x : x \in Range(s) <=> \E i \in 1..Len(s) : s[i] = x
<1>1. DOMAIN s = 1..Len(s)
  OBVIOUS
<1> QED BY <1>1 DEF Range

\* A sequence with an element in front.
LEMMA InFront ==
    ASSUME NEW S, NEW s \in Seq(S), NEW p \in S
    PROVE  /\ <<p>> \o s \in Seq(S) /\ Range(<<p>> \o s) = Range(s) \cup {p}
           /\ (p \notin Range(s) /\ \A i, j \in 1..Len(s) : s[i] = s[j] => i = j) =>
                \A i, j \in 1..Len(<<p>> \o s) : (<<p>> \o s)[i] = (<<p>> \o s)[j] => i = j
<1>1. PICK r, n : r = <<p>> \o s /\ n = Len(s)
  OBVIOUS
<1>2. /\ n \in Nat /\ r \in Seq(S) /\ Len(r) = n + 1 /\ r[1] = p
      /\ \A i \in 1..n : r[i + 1] = s[i]
  BY <1>1
<1>3. \A x : x \in Range(s) <=> \E i \in 1..n : s[i] = x
  BY <1>1, SeqRange
<1>4. \A x : x \in Range(r) <=> \E i \in 1..(n + 1) : r[i] = x
  <2>1. r \in Seq(S)
    BY <1>2
  <2> QED BY <1>2, <2>1, SeqRange
<1>5. \A i \in 1..(n + 1) : i = 1 \/ (i - 1 \in 1..n /\ r[i] = s[i - 1])
  <2> TAKE i \in 1..(n + 1)
  <2>1. i # 1 => i - 1 \in 1..n /\ (i - 1) + 1 = i
    BY <1>2
  <2> QED BY <1>2, <2>1
<1>6. 1 \in 1..(n + 1) /\ \A i \in 1..n : i + 1 \in 1..(n + 1)
  BY <1>2
<1>7. \A x : x \in Range(r) <=> x \in Range(s) \cup {p}
  BY <1>2, <1>3, <1>4, <1>5, <1>6
<1>8. ASSUME p \notin Range(s), \A i, j \in 1..n : s[i] = s[j] => i = j
      PROVE  \A i, j \in 1..(n + 1) : r[i] = r[j] => i = j
  <2> SUFFICES ASSUME NEW i \in 1..(n + 1), NEW j \in 1..(n + 1), r[i] = r[j] PROVE i = j
    OBVIOUS
  <2>1. CASE i = 1 /\ j = 1
    BY <2>1
  <2>2. CASE i = 1 /\ j # 1
    BY <1>2, <1>3, <1>5, <1>8, <2>2
  <2>3. CASE i # 1 /\ j = 1
    BY <1>2, <1>3, <1>5, <1>8, <2>3, ZenonT(40)
  <2>4. CASE i # 1 /\ j # 1
    <3>1. i - 1 = j - 1
      BY <1>5, <1>8, <2>4
    <3> QED BY <1>2, <3>1
  <2> QED BY <2>1, <2>2, <2>3, <2>4
<1> QED BY <1>1, <1>2, <1>7, <1>8

\* Only roots and loose pages differ.
SameButLoose(t, u) == /\ u.free = t.free /\ u.next = t.next /\ u.spill = t.spill /\ u.dirty = t.dirty
                      /\ u.error = t.error /\ u.room = t.room

\* A page that the transaction dirtied becomes loose.
LEMMA LevelLoose ==
    ASSUME NEW d \in DbType, NEW f \in Frames, NEW t \in Txn, NEW pg \in PgStates, NEW k \in Keys,
           Level(d, f, t, pg, {}), ~t.error, NEW q \in DOMAIN t.dirty, q = t.root[k], NoPage \notin Pages,
           NEW u \in Txn, u.root = [t.root EXCEPT ![k] = NoPage], u.loose = <<q>> \o t.loose,
           SameButLoose(t, u)
    PROVE  Level(d, f, u, pg, {})
<1> USE DEF SameButLoose
<1>1. PICK s : s = t.loose
  OBVIOUS
<1>2. PICK U, V : U = UsedBy(t.root) /\ V = UsedBy(u.root)
  OBVIOUS
<1>3. PICK F, O, P, R, E, N : /\ F = f.free \cup t.free /\ O = f.loose \cup Range(s)
                              /\ R = Reusable(d, pg) /\ E = Unread(d, pg) /\ N = 2..(t.next - 1)
                              /\ P = f.loose \cup Range(u.loose)
  OBVIOUS
<1>4. /\ U \cup F \cup O \cup R \cup d.recent \cup {} = N
      /\ U \cap F = {} /\ (U \cup F) \cap O = {} /\ (U \cup F \cup O) \cap R = {}
      /\ (U \cup F \cup O \cup R) \cap d.recent = {} /\ pg.head \cap E = {}
      /\ \A i, j \in Keys : t.root[i] # NoPage /\ t.root[i] = t.root[j] => i = j
  BY <1>1, <1>2, <1>3 DEF Level, Placed
<1>5. t.root \in Roots /\ s \in Seq(Pages)
  BY <1>1 DEF Txn
<1>6. NoPage \notin U /\ q \in U /\ q \in Pages
  BY <1>1, <1>2, <1>4, TxnPages DEF UsedBy
<1>7. /\ V = (U \ {q}) \cup ({NoPage} \ {NoPage})
      /\ \A i, j \in Keys : u.root[i] # NoPage /\ u.root[i] = u.root[j] => i = j
  <2>1. NoPage \in Pages \cup {NoPage}
    OBVIOUS
  <2> QED BY <1>1, <1>2, <1>4, <1>5, <1>6, <2>1, UsedByAfter
<1>8. ListsOK(f, t)
  BY DEF Level
<1>9. /\ \A i, j \in 1..Len(s) : s[i] = s[j] => i = j
      /\ DOMAIN t.dirty \cap t.spill = {} /\ Range(s) \subseteq DOMAIN t.dirty
      /\ t.spill \cap f.spilled = {} /\ f.loose \cap Listed(t) = {}
      /\ t.room = MaxDirty - Cardinality(Memory(f.mem, t))
  BY <1>1, <1>8 DEF ListsOK
<1>10. /\ Range(u.loose) = Range(s) \cup {q}
       /\ \A i, j \in 1..Len(u.loose) : u.loose[i] = u.loose[j] => i = j
  <2>1. q \notin Range(s)
    BY <1>3, <1>4, <1>6
  <2>2. /\ Range(<<q>> \o s) = Range(s) \cup {q}
        /\ (q \notin Range(s) /\ \A i, j \in 1..Len(s) : s[i] = s[j] => i = j) =>
             \A i, j \in 1..Len(<<q>> \o s) : (<<q>> \o s)[i] = (<<q>> \o s)[j] => i = j
    <3>1. s \in Seq(Pages) /\ q \in Pages
      BY <1>5, <1>6
    <3>2. Range(<<q>> \o s) = Range(s) \cup {q}
      BY <3>1, InFront
    <3>3. (q \notin Range(s) /\ \A i, j \in 1..Len(s) : s[i] = s[j] => i = j) =>
             \A i, j \in 1..Len(<<q>> \o s) : (<<q>> \o s)[i] = (<<q>> \o s)[j] => i = j
      BY <3>1, InFront
    <3> QED BY <3>2, <3>3
  <2>3. \A i, j \in 1..Len(<<q>> \o s) : (<<q>> \o s)[i] = (<<q>> \o s)[j] => i = j
    BY <1>9, <2>1, <2>2
  <2>4. u.loose = <<q>> \o s
    BY <1>1
  <2> QED BY <2>2, <2>3, <2>4
<1>11. V = U \ {q} /\ P = O \cup {q}
  BY <1>1, <1>3, <1>7, <1>10
<1>12. Placed(d, u.root, F, P, pg, t.next, {})
  <2>1. V \cup F \cup P \cup R \cup d.recent \cup {} = N /\ V \cap F = {} /\ (V \cup F) \cap P = {}
    BY <1>4, <1>6, <1>11
  <2>2. (V \cup F \cup P) \cap R = {} /\ (V \cup F \cup P \cup R) \cap d.recent = {}
    BY <1>4, <1>6, <1>11
  <2>3. (V \cup F \cup P \cup R \cup d.recent) \cap {} = {}
    OBVIOUS
  <2> QED BY <1>2, <1>3, <1>4, <1>7, <2>1, <2>2, <2>3 DEF Placed
<1>13. Listed(u) = Listed(t) /\ Memory(f.mem, u) = Memory(f.mem, t)
  BY DEF Listed, Memory
<1>14. ListsOK(f, u)
  <2>1. Range(u.loose) \subseteq DOMAIN u.dirty
    BY <1>1, <1>9, <1>10
  <2> QED BY <1>9, <1>10, <1>13, <2>1 DEF ListsOK
<1>15. Apart(d, f, u, pg)
  BY <1>13 DEF Level, Apart
<1> QED BY <1>3, <1>12, <1>14, <1>15 DEF Level

\* The page q of k is taken out of all lists.
BackOf(t, u, k, q) ==
    /\ q = t.root[k] /\ u.root = [t.root EXCEPT ![k] = NoPage]
    /\ DOMAIN u.dirty = DOMAIN t.dirty \ {q} /\ u.spill = t.spill \ {q}
    /\ u.room = IF q \in DOMAIN t.dirty THEN t.room + 1 ELSE t.room
    /\ u.loose = t.loose /\ u.free = t.free /\ u.next = t.next /\ u.error = t.error

\* The outermost transaction gives a page of its own back to the reclaimed ones.
LEMMA LevelBack ==
    ASSUME NEW d \in DbType, NEW f \in Frames, NEW t \in Txn, NEW pg \in PgStates, NEW k \in Keys,
           f = Frame(d.root, <<>>), Level(d, f, t, pg, {}), ~t.error, pg.read,
           NEW q \in Listed(t), NoPage \notin Pages, NEW u \in Txn, BackOf(t, u, k, q),
           NEW g \in PgStates, g.head = pg.head \cup {q}, g.read = pg.read
    PROVE  Level(d, f, u, g, {})
<1> USE DEF BackOf
<1>1. PICK s : s = t.loose
  OBVIOUS
<1>2. PICK U, V : U = UsedBy(t.root) /\ V = UsedBy(u.root)
  OBVIOUS
<1>3. PICK F, O, R, E, N, W : /\ F = f.free \cup t.free /\ O = f.loose \cup Range(s)
                              /\ R = Reusable(d, pg) /\ E = Unread(d, pg) /\ N = 2..(t.next - 1)
                              /\ W = Reusable(d, g)
  OBVIOUS
<1>4. /\ U \cup F \cup O \cup R \cup d.recent \cup {} = N
      /\ U \cap F = {} /\ (U \cup F) \cap O = {} /\ (U \cup F \cup O) \cap R = {}
      /\ (U \cup F \cup O \cup R) \cap d.recent = {} /\ pg.head \cap E = {}
      /\ \A i, j \in Keys : t.root[i] # NoPage /\ t.root[i] = t.root[j] => i = j
  BY <1>1, <1>2, <1>3 DEF Level, Placed
<1>5. t.root \in Roots /\ d.root \in Roots
  BY DEF Txn, DbType
<1>6. NoPage \notin U /\ q \in U /\ q \in Pages
  BY <1>1, <1>2, <1>4, TxnPages DEF UsedBy
<1>7. /\ V = (U \ {q}) \cup ({NoPage} \ {NoPage})
      /\ \A i, j \in Keys : u.root[i] # NoPage /\ u.root[i] = u.root[j] => i = j
  <2>1. NoPage \in Pages \cup {NoPage}
    OBVIOUS
  <2> QED BY <1>1, <1>2, <1>4, <1>5, <1>6, <2>1, UsedByAfter
<1>8. Unread(d, g) = {} /\ E = {}
  BY <1>3 DEF Unread
<1>9. W = R \cup {q} /\ g.head \cap Unread(d, g) = {}
  BY <1>3, <1>8 DEF Reusable
<1>10. V = U \ {q}
  BY <1>7
<1>11. Placed(d, u.root, F, O, g, t.next, {})
  <2>1. V \cup F \cup O \cup W \cup d.recent \cup {} = N /\ V \cap F = {} /\ (V \cup F) \cap O = {}
    BY <1>4, <1>6, <1>9, <1>10
  <2>2. (V \cup F \cup O) \cap W = {} /\ (V \cup F \cup O \cup W) \cap d.recent = {}
    BY <1>4, <1>6, <1>9, <1>10
  <2>3. (V \cup F \cup O \cup W \cup d.recent) \cap {} = {}
    OBVIOUS
  <2> QED BY <1>2, <1>3, <1>7, <1>9, <2>1, <2>2, <2>3 DEF Placed
<1>12. /\ f.free = {} /\ f.loose = {} /\ f.mem = {} /\ f.listed = {} /\ f.spilled = {}
       /\ f.used = f.clean
  BY <1>5, FrameEmpty
<1>13. Listed(u) = Listed(t) \ {q}
  BY DEF Listed
<1>14. Apart(d, f, u, g)
  <2>1. PICK L, M : L = Listed(t) /\ M = Listed(u)
    OBVIOUS
  <2>2. L \cap f.clean = {} /\ L \cap R = {} /\ L \subseteq N /\ f.used \cap R = {} /\ f.used \subseteq N
    BY <1>3, <1>12, <2>1 DEF Level, Apart
  <2>3. q \in L /\ M = L \ {q}
    BY <1>13, <2>1
  <2>4. M \cap f.clean = {} /\ M \cap W = {} /\ M \subseteq N /\ f.used \cap W = {}
    BY <1>9, <1>12, <2>2, <2>3
  <2> QED BY <1>3, <1>12, <2>1, <2>2, <2>4 DEF Apart
<1>15. ListsOK(f, t)
  BY DEF Level
<1>16. /\ \A i, j \in 1..Len(s) : s[i] = s[j] => i = j
       /\ DOMAIN t.dirty \cap t.spill = {} /\ Range(s) \subseteq DOMAIN t.dirty
       /\ t.room = MaxDirty - Cardinality(Memory(f.mem, t))
  BY <1>1, <1>15 DEF ListsOK
<1>17. Memory(f.mem, t) = DOMAIN t.dirty /\ Memory(f.mem, u) = DOMAIN t.dirty \ {q}
  BY <1>12, <1>16 DEF Memory
<1>18. u.room = MaxDirty - Cardinality(Memory(f.mem, u))
  <2>1. DOMAIN t.dirty \subseteq Pages
    BY TxnPages
  <2>2. Cardinality(DOMAIN t.dirty) \in Nat /\ MaxDirty \in Nat
    BY <2>1, PagesFinite, ConstantsAssumption
  <2>3. CASE q \in DOMAIN t.dirty
    <3>1. Cardinality(DOMAIN t.dirty \ {q}) = Cardinality(DOMAIN t.dirty) - 1
      BY <1>6, <2>1, <2>3, OneMore
    <3>2. PICK c : c = Cardinality(DOMAIN t.dirty)
      OBVIOUS
    <3>3. u.room = t.room + 1 /\ t.room = MaxDirty - c
      BY <1>16, <1>17, <2>3, <3>2
    <3>4. Cardinality(Memory(f.mem, u)) = c - 1
      BY <1>17, <3>1, <3>2
    <3> QED BY <2>2, <3>2, <3>3, <3>4
  <2>4. CASE q \notin DOMAIN t.dirty
    <3>1. DOMAIN t.dirty \ {q} = DOMAIN t.dirty
      BY <2>4
    <3> QED BY <1>16, <1>17, <2>4, <3>1
  <2> QED BY <2>3, <2>4
<1>19. ListsOK(f, u)
  <2>1. q \notin Range(s)
    BY <1>3, <1>4, <1>6
  <2>2. Range(u.loose) \subseteq DOMAIN u.dirty /\ DOMAIN u.dirty \cap u.spill = {}
    BY <1>1, <1>16, <2>1
  <2>3. u.spill \cap f.spilled = {} /\ f.loose \cap Listed(u) = {}
    BY <1>12
  <2> QED BY <1>1, <1>16, <1>18, <2>2, <2>3 DEF ListsOK
<1>20. Placed(d, u.root, f.free \cup u.free, f.loose \cup Range(u.loose), g, u.next, {})
  BY <1>1, <1>3, <1>11
<1> QED BY <1>14, <1>19, <1>20 DEF Level

\* Pages are spilled.
LEMMA LevelSpill ==
    ASSUME NEW d \in DbType, NEW f \in Frames, NEW t \in Txn, NEW pg \in PgStates,
           Level(d, f, t, pg, {}), ~t.error, NEW out,
           out \subseteq DOMAIN t.dirty, out \cap Range(t.loose) = {}, out \cap f.spilled = {},
           NEW u \in Txn, DOMAIN u.dirty = DOMAIN t.dirty \ out, u.spill = t.spill \cup out,
           u.room = t.room + Cardinality(out), u.root = t.root,
           u.loose = t.loose, u.free = t.free, u.next = t.next, u.error = t.error
    PROVE  Level(d, f, u, pg, {})
<1>1. Listed(u) = Listed(t)
  BY DEF Listed
<1>2. Apart(d, f, u, pg)
  BY <1>1 DEF Level, Apart
<1>3. ListsOK(f, t)
  BY DEF Level
<1>4. /\ \A i, j \in 1..Len(t.loose) : t.loose[i] = t.loose[j] => i = j
      /\ DOMAIN t.dirty \cap t.spill = {} /\ Range(t.loose) \subseteq DOMAIN t.dirty
      /\ t.spill \cap f.spilled = {} /\ f.loose \cap Listed(t) = {}
      /\ t.room = MaxDirty - Cardinality(Memory(f.mem, t))
  BY <1>3 DEF ListsOK
<1>5. Memory(f.mem, u) = Memory(f.mem, t) \ out /\ out \subseteq Memory(f.mem, t)
  BY <1>1, <1>4 DEF Memory, Listed
<1>6. Memory(f.mem, t) \subseteq Pages
  BY TxnPages DEF Memory, Frames
<1>7. IsFiniteSet(Memory(f.mem, t)) /\ Cardinality(Memory(f.mem, t)) \in Nat /\ Cardinality(out) \in Nat
  BY <1>5, <1>6, PagesFinite
<1>8. Cardinality(Memory(f.mem, u)) = Cardinality(Memory(f.mem, t)) - Cardinality(out)
  <2>1. Memory(f.mem, t) \cap out = out
    BY <1>5
  <2>2. Cardinality(Memory(f.mem, t) \ out) = Cardinality(Memory(f.mem, t)) - Cardinality(Memory(f.mem, t) \cap out)
    BY <1>7, FS_Difference
  <2> QED BY <1>5, <2>1, <2>2
<1>9. MaxDirty \in Nat
  BY ConstantsAssumption
<1>10. u.room = MaxDirty - Cardinality(Memory(f.mem, u))
  BY <1>4, <1>7, <1>8, <1>9
<1>11. ListsOK(f, u)
  <2>1. Range(u.loose) \subseteq DOMAIN u.dirty /\ DOMAIN u.dirty \cap u.spill = {}
    BY <1>4
  <2>2. u.spill \cap f.spilled = {} /\ f.loose \cap Listed(u) = {}
    BY <1>1, <1>4
  <2> QED BY <1>4, <1>10, <2>1, <2>2 DEF ListsOK
<1>12. Placed(d, u.root, f.free \cup u.free, f.loose \cup Range(u.loose), pg, u.next, {})
  BY DEF Level
<1> QED BY <1>2, <1>11, <1>12 DEF Level

\* A transaction that has failed need not have its lists in order.
LEMMA LevelFailed ==
    ASSUME NEW d, NEW f, NEW t, NEW pg, NEW new, Level(d, f, t, pg, new), NEW u,
           Listed(u) = Listed(t), u.error = TRUE, u.root = t.root, u.loose = t.loose,
           u.free = t.free, u.next = t.next
    PROVE  Level(d, f, u, pg, new)
BY DEF Level, Apart

\* Flags and contents do not matter.
LEMMA LevelSame ==
    ASSUME NEW d, NEW f, NEW t, NEW pg, NEW new, NEW u,
           DOMAIN u.dirty = DOMAIN t.dirty, u.spill = t.spill, u.error = t.error, u.root = t.root,
           u.loose = t.loose, u.free = t.free, u.next = t.next, u.room = t.room
    PROVE  Level(d, f, u, pg, new) <=> Level(d, f, t, pg, new)
<1>1. Listed(u) = Listed(t) /\ Memory(f.mem, u) = Memory(f.mem, t)
  BY DEF Listed, Memory
<1>2. ListsOK(f, u) <=> ListsOK(f, t)
  BY <1>1 DEF ListsOK
<1>3. Apart(d, f, u, pg) <=> Apart(d, f, t, pg)
  BY <1>1 DEF Apart
<1> QED BY <1>2, <1>3 DEF Level

\* A transaction begins above the committed state.
LEMMA LevelBegin ==
    ASSUME NEW d \in DbType, NEW t \in Txn,
           Placed(d, d.root, {}, {}, NothingRead, d.next, {}),
           t.root = d.root, DOMAIN t.dirty = {}, t.spill = {}, t.free = {}, t.loose = <<>>,
           t.room = MaxDirty, t.next = d.next
    PROVE  Level(d, Frame(d.root, <<>>), t, NothingRead, {})
<1>1. PICK f : f = Frame(d.root, <<>>)
  OBVIOUS
<1>2. /\ f.free = {} /\ f.loose = {} /\ f.mem = {} /\ f.listed = {} /\ f.spilled = {}
      /\ f.used = UsedBy(d.root) /\ f.clean = UsedBy(d.root)
  BY <1>1, FrameEmpty DEF DbType
<1>3. Range(t.loose) = {} /\ Len(t.loose) = 0
  BY DEF Range
<1>4. Listed(t) = {} /\ Memory(f.mem, t) = {}
  BY <1>2 DEF Listed, Memory
<1>5. Placed(d, t.root, f.free \cup t.free, f.loose \cup Range(t.loose), NothingRead, t.next, {})
  BY <1>2, <1>3
<1>6. ListsOK(f, t)
  <2>1. Cardinality({}) = 0 /\ MaxDirty \in Nat
    BY FS_EmptySet, ConstantsAssumption
  <2>2. t.room = MaxDirty - Cardinality(Memory(f.mem, t))
    BY <1>4, <2>1
  <2> QED BY <1>2, <1>3, <1>4, <2>2 DEF ListsOK
<1>7. Apart(d, f, t, NothingRead)
  BY <1>2, <1>4 DEF Apart, Placed
<1> QED BY <1>1, <1>5, <1>6, <1>7 DEF Level

\* A nested transaction begins above its parent.
LEMMA LevelNested ==
    ASSUME NEW d \in DbType, NEW f \in Frames, NEW p \in Txn, NEW pg \in PgStates,
           Level(d, f, p, pg, {}), ~p.error, f.clean \subseteq f.used,
           NEW t \in Txn, t.root = p.root, DOMAIN t.dirty = {}, t.spill = {}, t.free = {},
           t.loose = <<>>, t.room = p.room, t.next = p.next
    PROVE  Level(d, Push(f, p), t, pg, {})
<1>1. PICK g : g = Push(f, p)
  OBVIOUS
<1>2. /\ g.free = f.free \cup p.free /\ g.loose = f.loose \cup Range(p.loose)
      /\ g.mem = Memory(f.mem, p) /\ g.listed = f.listed \cup Listed(p)
      /\ g.spilled = f.spilled \cup p.spill /\ g.used = f.used \cup UsedBy(p.root)
      /\ g.clean = f.clean \cup (UsedBy(p.root) \ g.listed)
  BY <1>1 DEF Push
<1>3. Range(t.loose) = {} /\ Len(t.loose) = 0
  BY DEF Range
<1>4. Listed(t) = {} /\ Memory(g.mem, t) = g.mem
  BY <1>2 DEF Listed, Memory
<1>5. Placed(d, t.root, g.free \cup t.free, g.loose \cup Range(t.loose), pg, t.next, {})
  <2>1. g.free \cup t.free = f.free \cup p.free /\ g.loose \cup Range(t.loose) = f.loose \cup Range(p.loose)
    BY <1>2, <1>3
  <2> QED BY <2>1 DEF Level
<1>6. ListsOK(g, t)
  <2>1. t.room = MaxDirty - Cardinality(Memory(g.mem, t))
    BY <1>2, <1>4 DEF Level, ListsOK
  <2> QED BY <1>3, <1>4, <2>1 DEF ListsOK
<1>7. Apart(d, g, t, pg)
  <2>1. g.listed \cup Listed(t) = g.listed
    BY <1>4
  <2>2. /\ g.listed \cap f.clean = {} /\ g.listed \cap Reusable(d, pg) = {}
        /\ g.listed \subseteq 2..(p.next - 1)
        /\ f.used \cap Reusable(d, pg) = {} /\ f.used \subseteq 2..(p.next - 1)
    BY <1>2 DEF Level, Apart
  <2>3. UsedBy(p.root) \cap Reusable(d, pg) = {} /\ UsedBy(p.root) \subseteq 2..(p.next - 1)
    BY DEF Level, Placed
  <2>4. g.listed \cap g.clean = {} /\ g.used \cap Reusable(d, pg) = {} /\ g.used \subseteq 2..(p.next - 1)
    BY <1>2, <2>2, <2>3
  <2> QED BY <2>1, <2>2, <2>4 DEF Apart
<1> QED BY <1>1, <1>5, <1>6, <1>7 DEF Level

\* Two lists one after the other.
LEMMA Joined ==
    ASSUME NEW S, NEW s \in Seq(S), NEW r \in Seq(S)
    PROVE  /\ s \o r \in Seq(S) /\ Range(s \o r) = Range(s) \cup Range(r)
           /\ (/\ Range(s) \cap Range(r) = {}
               /\ \A i, j \in 1..Len(s) : s[i] = s[j] => i = j
               /\ \A i, j \in 1..Len(r) : r[i] = r[j] => i = j) =>
                \A i, j \in 1..Len(s \o r) : (s \o r)[i] = (s \o r)[j] => i = j
<1>1. PICK q, m, n : q = s \o r /\ m = Len(s) /\ n = Len(r)
  OBVIOUS
<1>2. /\ m \in Nat /\ n \in Nat /\ q \in Seq(S) /\ Len(q) = m + n
      /\ \A i \in 1..m : q[i] = s[i]
  BY <1>1
<1>3. \A i \in 1..n : q[m + i] = r[i]
  BY <1>1
<1>4. \A x : x \in Range(s) <=> \E i \in 1..m : s[i] = x
  BY <1>1, SeqRange
<1>5. \A x : x \in Range(r) <=> \E i \in 1..n : r[i] = x
  BY <1>1, SeqRange
<1>6. \A x : x \in Range(q) <=> \E i \in 1..(m + n) : q[i] = x
  <2>1. q \in Seq(S)
    BY <1>2
  <2> QED BY <1>2, <2>1, SeqRange
<1>7. \A i \in 1..(m + n) : i \in 1..m \/ (i - m \in 1..n /\ q[i] = r[i - m] /\ i \notin 1..m)
  <2> TAKE i \in 1..(m + n)
  <2>1. i \notin 1..m => i - m \in 1..n /\ m + (i - m) = i
    BY <1>2
  <2> QED BY <1>3, <2>1
<1>8. (\A i \in 1..m : i \in 1..(m + n)) /\ (\A i \in 1..n : m + i \in 1..(m + n))
  BY <1>2
<1>9. \A x : x \in Range(q) <=> x \in Range(s) \cup Range(r)
  BY <1>2, <1>3, <1>4, <1>5, <1>6, <1>7, <1>8, ZenonT(40)
<1>10. ASSUME Range(s) \cap Range(r) = {}, \A i, j \in 1..m : s[i] = s[j] => i = j,
              \A i, j \in 1..n : r[i] = r[j] => i = j
       PROVE  \A i, j \in 1..(m + n) : q[i] = q[j] => i = j
  <2> SUFFICES ASSUME NEW i \in 1..(m + n), NEW j \in 1..(m + n), q[i] = q[j] PROVE i = j
    OBVIOUS
  <2>1. CASE i \in 1..m /\ j \in 1..m
    BY <1>2, <1>10, <2>1
  <2>2. CASE i \in 1..m /\ j \notin 1..m
    <3>1. q[i] \in Range(s) /\ q[j] \in Range(r)
      BY <1>2, <1>4, <1>5, <1>7, <2>2
    <3> QED BY <1>10, <3>1
  <2>3. CASE i \notin 1..m /\ j \in 1..m
    <3>1. q[i] \in Range(r) /\ q[j] \in Range(s)
      BY <1>2, <1>4, <1>5, <1>7, <2>3
    <3> QED BY <1>10, <3>1
  <2>4. CASE i \notin 1..m /\ j \notin 1..m
    <3>1. i - m = j - m
      BY <1>7, <1>10, <2>4
    <3> QED BY <1>2, <3>1
  <2> QED BY <2>1, <2>2, <2>3, <2>4
<1> QED BY <1>1, <1>2, <1>9, <1>10

\* The fields of a merged transaction.
LEMMA MergedFields ==
    ASSUME NEW p \in Txn, NEW c \in Txn
    PROVE  /\ Merged(p, c) \in Txn
           /\ Merged(p, c).free = p.free \cup c.free /\ Merged(p, c).next = c.next
           /\ Merged(p, c).root = c.root /\ Merged(p, c).room = c.room
           /\ Merged(p, c).spill = (p.spill \ DOMAIN c.dirty) \cup c.spill
           /\ Merged(p, c).dirty = MergedDirty(p, c)
           /\ DOMAIN MergedDirty(p, c) = DOMAIN c.dirty \cup (DOMAIN p.dirty \ c.spill)
           /\ Merged(p, c).loose = p.loose \o c.loose
           /\ Merged(p, c).saved = p.saved
<1>1. PICK d : d = MergedDirty(p, c)
  OBVIOUS
<1>2. PICK P : P = DOMAIN c.dirty \cup (DOMAIN p.dirty \ c.spill)
  OBVIOUS
<1>3. d = [q \in P |-> IF q \in DOMAIN c.dirty THEN c.dirty[q] ELSE p.dirty[q]]
  BY <1>1, <1>2 DEF MergedDirty
<1>4. d \in DirtyLists /\ DOMAIN d = P
  <2>1. p.dirty \in DirtyLists /\ c.dirty \in DirtyLists
    BY DEF Txn
  <2>2. /\ DOMAIN p.dirty \subseteq Pages /\ \A q \in DOMAIN p.dirty : p.dirty[q] \in Page
        /\ DOMAIN c.dirty \subseteq Pages /\ \A q \in DOMAIN c.dirty : c.dirty[q] \in Page
    BY <2>1, DirtyList
  <2>3. P \in SUBSET Pages /\ \A q \in P : d[q] \in Page
    BY <1>2, <1>3, <2>2
  <2>4. d = [q \in P |-> d[q]] /\ DOMAIN d = P
    BY <1>3
  <2> QED BY <2>3, <2>4, IsDirtyList
<1>5. PICK s : s = p.loose \o c.loose
  OBVIOUS
<1>6. s \in Seq(Pages)
  BY <1>5 DEF Txn
<1>7. PICK u : u = Merged(p, c)
  OBVIOUS
<1>8. u = [p EXCEPT !.free = @ \cup c.free, !.next = c.next, !.root = c.root,
              !.spills = c.spills, !.wrote = @ \/ c.wrote, !.room = c.room,
              !.spill = (@ \ DOMAIN c.dirty) \cup c.spill,
              !.dirty = d, !.loose = s]
  BY <1>1, <1>5, <1>7 DEF Merged
<1>9. /\ u \in Txn /\ u.free = p.free \cup c.free /\ u.next = c.next /\ u.root = c.root /\ u.room = c.room
      /\ u.spill = (p.spill \ DOMAIN c.dirty) \cup c.spill /\ u.dirty = d /\ u.loose = s
      /\ u.saved = p.saved
  BY <1>4, <1>6, <1>8 DEF Txn
<1> QED BY <1>1, <1>2, <1>4, <1>5, <1>7, <1>9

\* A child is merged into its parent.
LEMMA LevelMerged ==
    ASSUME NEW d \in DbType, NEW f \in Frames, NEW p \in Txn, NEW c \in Txn, NEW pg \in PgStates,
           NEW was, Level(d, f, p, was, {}), Level(d, Push(f, p), c, pg, {}), ~p.error, ~c.error
    PROVE  Level(d, f, Merged(p, c), pg, {})
<1>0. /\ Merged(p, c).free = p.free \cup c.free /\ Merged(p, c).next = c.next
      /\ Merged(p, c).root = c.root /\ Merged(p, c).room = c.room
      /\ Merged(p, c).spill = (p.spill \ DOMAIN c.dirty) \cup c.spill
      /\ Merged(p, c).dirty = MergedDirty(p, c)
      /\ DOMAIN MergedDirty(p, c) = DOMAIN c.dirty \cup (DOMAIN p.dirty \ c.spill)
      /\ Merged(p, c).loose = p.loose \o c.loose
  BY MergedFields, ZenonT(40)
<1>1. PICK u, g, A, B, P, C : /\ u = Merged(p, c) /\ g = Push(f, p) /\ A = DOMAIN p.dirty /\ B = DOMAIN c.dirty
                              /\ P = p.spill /\ C = c.spill
  OBVIOUS
<1>2. /\ u.free = p.free \cup c.free /\ u.next = c.next /\ u.root = c.root /\ u.room = c.room
      /\ u.spill = (P \ B) \cup C /\ DOMAIN u.dirty = B \cup (A \ C)
      /\ u.loose = p.loose \o c.loose
  BY <1>0, <1>1
<1>3. /\ g.free = f.free \cup p.free /\ g.loose = f.loose \cup Range(p.loose)
      /\ g.mem = Memory(f.mem, p) /\ g.listed = f.listed \cup Listed(p)
      /\ g.spilled = f.spilled \cup p.spill /\ g.used = f.used \cup UsedBy(p.root)
      /\ g.clean = f.clean \cup (UsedBy(p.root) \ g.listed)
  BY <1>1 DEF Push
<1>4. ListsOK(f, p) /\ ListsOK(g, c)
  BY <1>1 DEF Level
<1>5. /\ A \cap P = {} /\ Range(p.loose) \subseteq A /\ P \cap f.spilled = {} /\ f.loose \cap (P \cup A) = {}
      /\ B \cap C = {} /\ Range(c.loose) \subseteq B /\ C \cap g.spilled = {} /\ g.loose \cap (C \cup B) = {}
      /\ \A i, j \in 1..Len(p.loose) : p.loose[i] = p.loose[j] => i = j
      /\ \A i, j \in 1..Len(c.loose) : c.loose[i] = c.loose[j] => i = j
      /\ c.room = MaxDirty - Cardinality(Memory(g.mem, c))
  BY <1>1, <1>4 DEF ListsOK, Listed
<1>6. p.loose \in Seq(Pages) /\ c.loose \in Seq(Pages)
  BY DEF Txn
<1>7. /\ Range(u.loose) = Range(p.loose) \cup Range(c.loose)
      /\ \A i, j \in 1..Len(u.loose) : u.loose[i] = u.loose[j] => i = j
  <2>1. PICK x, y : x = p.loose /\ y = c.loose
    OBVIOUS
  <2>2. x \in Seq(Pages) /\ y \in Seq(Pages)
    BY <1>6, <2>1
  <2>3. /\ Range(x \o y) = Range(x) \cup Range(y)
        /\ (/\ Range(x) \cap Range(y) = {}
            /\ \A i, j \in 1..Len(x) : x[i] = x[j] => i = j
            /\ \A i, j \in 1..Len(y) : y[i] = y[j] => i = j) =>
              \A i, j \in 1..Len(x \o y) : (x \o y)[i] = (x \o y)[j] => i = j
    BY <2>2, Joined, SMTT(30)
  <2>4. Range(x) \cap Range(y) = {}
    BY <1>3, <1>5, <2>1
  <2>5. \A i, j \in 1..Len(x \o y) : (x \o y)[i] = (x \o y)[j] => i = j
    BY <1>5, <2>1, <2>3, <2>4
  <2> QED BY <1>2, <2>1, <2>3, <2>5
<1>8. Listed(u) = Listed(p) \cup Listed(c)
  BY <1>1, <1>2 DEF Listed
<1>9. Memory(f.mem, u) = Memory(g.mem, c)
  <2>1. Memory(f.mem, u) = (f.mem \ (P \cup A \cup C \cup B)) \cup ((B \cup (A \ C)) \ ((P \ B) \cup C))
    BY <1>1, <1>2, <1>8 DEF Memory, Listed
  <2>2. Memory(g.mem, c) = (((f.mem \ (P \cup A)) \cup (A \ P)) \ (C \cup B)) \cup (B \ C)
    BY <1>1, <1>3 DEF Memory, Listed
  <2>3. (f.mem \ (P \cup A \cup C \cup B)) \cup ((B \cup (A \ C)) \ ((P \ B) \cup C))
           = (((f.mem \ (P \cup A)) \cup (A \ P)) \ (C \cup B)) \cup (B \ C)
    BY <1>5
  <2> QED BY <2>1, <2>2, <2>3
<1>10. ListsOK(f, u)
  <2>1. DOMAIN u.dirty \cap u.spill = {} /\ Range(u.loose) \subseteq DOMAIN u.dirty
    BY <1>2, <1>3, <1>5, <1>7
  <2>2. u.spill \cap f.spilled = {}
    BY <1>1, <1>2, <1>3, <1>5
  <2>3. f.loose \cap Listed(u) = {}
    BY <1>1, <1>3, <1>5, <1>8 DEF Listed
  <2> QED BY <1>2, <1>5, <1>7, <1>9, <2>1, <2>2, <2>3 DEF ListsOK
<1>11. Placed(d, u.root, f.free \cup u.free, f.loose \cup Range(u.loose), pg, u.next, {})
  <2>1. f.free \cup u.free = g.free \cup c.free
    BY <1>2, <1>3
  <2>2. f.loose \cup Range(u.loose) = g.loose \cup Range(c.loose)
    BY <1>3, <1>7
  <2> QED BY <1>1, <1>2, <2>1, <2>2 DEF Level
<1>12. Apart(d, f, u, pg)
  <2>1. f.listed \cup Listed(u) = g.listed \cup Listed(c)
    BY <1>3, <1>8
  <2>2. Apart(d, g, c, pg)
    BY <1>1 DEF Level
  <2>3. f.clean \subseteq g.clean /\ f.used \subseteq g.used
    BY <1>3
  <2> QED BY <1>2, <2>1, <2>2, <2>3 DEF Apart
<1> QED BY <1>1, <1>10, <1>11, <1>12 DEF Level

-----------------------------------------------------------------------------
(* The operations on the innermost transaction. *)

Records == [below : Seq(Txn), t : Txn, map : [Pages -> Contents], pg : PgStates,
            np : Pages \cup {NoPage}]

\* The record of an operation in a transaction above the frame f.
Sound(w, f, new) == w \in Records /\ f = Frame(db.root, w.below) /\ Level(db, f, w.t, w.pg, new)

\* What no operation changes once the pages are spilled.
Kept(w, r) == r.below = w.below /\ r.map = w.map /\ r.t.saved = w.t.saved

\* No page has number NoPage.
LEMMA NoPageApart == NoPage \notin Pages /\ Pages \subseteq Nat
<1>1. MaxPg \in Nat /\ NoPage \notin Nat
  BY ConstantsAssumption
<1>2. Pages \subseteq Nat
  BY <1>1 DEF Pages
<1> QED BY <1>1, <1>2

\* A dirty list with a page more, or with another content for it.
IsInsert(e, d, p, page) ==
    /\ e \in DirtyLists /\ DOMAIN e = DOMAIN d \cup {p} /\ e[p] = page
    /\ \A q \in DOMAIN d : q # p => e[q] = d[q]

\* Putting a page into a dirty list.
LEMMA Inserted ==
    ASSUME NEW d \in DirtyLists, NEW p \in Pages, NEW page \in Page,
           NEW e, e = Insert(d, p, page)
    PROVE  IsInsert(e, d, p, page)
<1>1. PICK P : P = DOMAIN d \cup {p}
  OBVIOUS
<1>2. e = [q \in P |-> IF q = p THEN page ELSE d[q]]
  BY <1>1 DEF Insert
<1>3. DOMAIN d \subseteq Pages /\ \A q \in DOMAIN d : d[q] \in Page
  BY DirtyList
<1>4. P \in SUBSET Pages /\ e = [q \in P |-> e[q]] /\ \A q \in P : e[q] \in Page
  BY <1>1, <1>2, <1>3
<1>5. e \in DirtyLists
  BY <1>4, IsDirtyList
<1>6. DOMAIN e = P /\ e[p] = page /\ \A q \in DOMAIN d : q # p => e[q] = d[q]
  BY <1>1, <1>2
<1> QED BY <1>1, <1>5, <1>6 DEF IsInsert

\* The effect of mdb_page_dirty.
LEMMA PageDirtyIs ==
    ASSUME NEW w \in Records, NEW p \in Pages, NEW page \in Page, w.t.room # 0,
           NEW r, r = PageDirty(w, p, page)
    PROVE  /\ r \in Records /\ r.below = w.below /\ r.map = w.map /\ r.pg = w.pg /\ r.np = p
           /\ r.t.dirty = Insert(w.t.dirty, p, page) /\ r.t.room = w.t.room - 1
           /\ r.t.root = w.t.root /\ r.t.spill = w.t.spill /\ r.t.free = w.t.free
           /\ r.t.loose = w.t.loose /\ r.t.next = w.t.next /\ r.t.spills = w.t.spills
           /\ r.t.error = w.t.error /\ r.t.wrote = w.t.wrote /\ r.t.saved = w.t.saved
<1>1. w.t \in Txn /\ w.t.room \in Nat /\ w.t.dirty \in DirtyLists
  BY DEF Records, Txn
<1>2. PICK e : e = Insert(w.t.dirty, p, page)
  OBVIOUS
<1>3. e \in DirtyLists
  BY <1>1, <1>2, Inserted DEF IsInsert
<1>4. PICK u : u = [w.t EXCEPT !.dirty = e, !.room = @ - 1]
  OBVIOUS
<1>5. r = [w EXCEPT !.t = u, !.np = p]
  BY <1>2, <1>4 DEF PageDirty, Records, Txn
<1>6. w.t.room - 1 \in Nat
  BY <1>1
<1>7. /\ u \in Txn /\ u.dirty = e /\ u.room = w.t.room - 1
      /\ u.root = w.t.root /\ u.spill = w.t.spill /\ u.free = w.t.free
      /\ u.loose = w.t.loose /\ u.next = w.t.next /\ u.spills = w.t.spills
      /\ u.error = w.t.error /\ u.wrote = w.t.wrote /\ u.saved = w.t.saved
  BY <1>1, <1>3, <1>4, <1>6 DEF Txn
<1>8. /\ r \in Records /\ r.below = w.below /\ r.map = w.map /\ r.pg = w.pg /\ r.np = p /\ r.t = u
  BY <1>5, <1>7 DEF Records
<1> QED BY <1>2, <1>7, <1>8

\* The effect of a failure.
LEMMA FailIs ==
    ASSUME NEW w \in Records, NEW r, r = Fail(w)
    PROVE  /\ r \in Records /\ r.below = w.below /\ r.map = w.map /\ r.pg = w.pg
           /\ r.t.dirty = w.t.dirty /\ r.t.room = w.t.room
           /\ r.t.root = w.t.root /\ r.t.spill = w.t.spill /\ r.t.free = w.t.free
           /\ r.t.loose = w.t.loose /\ r.t.next = w.t.next /\ r.t.spills = w.t.spills
           /\ r.t.error = TRUE /\ r.t.wrote = w.t.wrote /\ r.t.saved = w.t.saved
<1>1. w.t \in Txn
  BY DEF Records
<1>2. PICK u : u = [w.t EXCEPT !.error = TRUE]
  OBVIOUS
<1>3. r = [w EXCEPT !.t = u, !.np = NoPage]
  BY <1>2 DEF Fail, Records
<1>4. /\ u \in Txn /\ u.dirty = w.t.dirty /\ u.room = w.t.room
      /\ u.root = w.t.root /\ u.spill = w.t.spill /\ u.free = w.t.free
      /\ u.loose = w.t.loose /\ u.next = w.t.next /\ u.spills = w.t.spills
      /\ u.error = TRUE /\ u.wrote = w.t.wrote /\ u.saved = w.t.saved
  BY <1>1, <1>2 DEF Txn
<1>5. r \in Records /\ r.below = w.below /\ r.map = w.map /\ r.pg = w.pg /\ r.t = u
  BY <1>3, <1>4 DEF Records
<1> QED BY <1>4, <1>5

\* A failure leaves the pages where they are.
LEMMA FailSound ==
    ASSUME NEW w, NEW f, Sound(w, f, {}), NEW r, r = Fail(w)
    PROVE  Sound(r, f, {}) /\ Kept(w, r) /\ r.t.error
<1>1. w \in Records
  BY DEF Sound
<1>2. /\ r \in Records /\ r.below = w.below /\ r.map = w.map /\ r.pg = w.pg
      /\ r.t.dirty = w.t.dirty /\ r.t.root = w.t.root /\ r.t.spill = w.t.spill /\ r.t.free = w.t.free
      /\ r.t.loose = w.t.loose /\ r.t.next = w.t.next /\ r.t.error = TRUE /\ r.t.saved = w.t.saved
  BY <1>1, FailIs, ZenonT(40)
<1>3. Listed(r.t) = Listed(w.t)
  BY <1>2 DEF Listed
<1>4. Level(db, f, w.t, w.pg, {})
  BY DEF Sound
<1>5. Level(db, f, r.t, r.pg, {})
  BY <1>2, <1>3, <1>4, LevelFailed
<1> QED BY <1>2, <1>5 DEF Sound, Kept

\* What an allocation leaves alone, and where the new page is.
Allocated(w, a) ==
    /\ a.np \in Pages /\ a.t.error = FALSE /\ a.t.root = w.t.root /\ a.t.free = w.t.free
    /\ a.t.spill = w.t.spill /\ DOMAIN a.t.dirty = DOMAIN w.t.dirty \cup {a.np}
    /\ \A q \in DOMAIN w.t.dirty : q # a.np => a.t.dirty[q] = w.t.dirty[q]
    /\ a.np \notin UsedBy(w.t.root)
    /\ a.t.spills = w.t.spills
    /\ (\A q \in DOMAIN w.t.dirty : w.t.dirty[q].keep = FALSE) => a.t.dirty[a.np].keep = FALSE

\* A loose page is used again.
LEMMA AllocLoose ==
    ASSUME db \in DbType, NEW w, NEW f, Sound(w, f, {}), ~w.t.error, w.t.loose # <<>>,
           NEW a, a = [w EXCEPT !.np = Head(w.t.loose), !.t.loose = Tail(@)]
    PROVE  Sound(a, f, {a.np}) /\ Kept(w, a) /\ Allocated(w, a)
<1>1. w \in Records /\ w.t \in Txn /\ w.t.loose \in Seq(Pages) /\ w.pg \in PgStates
  BY DEF Sound, Records, Txn
<1>2. PICK u, p : u = [w.t EXCEPT !.loose = Tail(@)] /\ p = Head(w.t.loose)
  OBVIOUS
<1>3. Tail(w.t.loose) \in Seq(Pages) /\ p \in Pages
  BY <1>1, <1>2
<1>4. /\ u \in Txn /\ u.dirty = w.t.dirty /\ u.root = w.t.root /\ u.spill = w.t.spill /\ u.free = w.t.free
      /\ u.saved = w.t.saved
  BY <1>1, <1>2, <1>3 DEF Txn
<1>5. u.error = w.t.error /\ u.spills = w.t.spills
  BY <1>1, <1>2 DEF Txn
<1>6. a = [w EXCEPT !.np = p, !.t = u]
  BY <1>1, <1>2 DEF Records
<1>7. a \in Records /\ a.below = w.below /\ a.map = w.map /\ a.pg = w.pg /\ a.np = p /\ a.t = u
  BY <1>1, <1>3, <1>4, <1>6 DEF Records
<1>8. f = Frame(db.root, w.below) /\ f \in Frames /\ Level(db, f, w.t, w.pg, {})
  BY <1>1, FrameType DEF Sound, Records
<1>9. Level(db, f, u, w.pg, {p}) /\ p \in DOMAIN w.t.dirty
  BY <1>1, <1>2, <1>4, <1>8, LevelReuse
<1>10. Sound(a, f, {a.np})
  BY <1>7, <1>8, <1>9 DEF Sound
<1>11. Kept(w, a)
  BY <1>4, <1>7 DEF Kept
<1>12. p \notin UsedBy(u.root)
  BY <1>9 DEF Level, Placed
<1>13. DOMAIN a.t.dirty = DOMAIN w.t.dirty \cup {a.np} /\ \A q \in DOMAIN w.t.dirty : a.t.dirty[q] = w.t.dirty[q]
  BY <1>4, <1>7, <1>9
<1>14. a.t.error = FALSE
  <2>1. w.t.error \in BOOLEAN
    BY <1>1 DEF Txn
  <2> QED BY <1>5, <1>7, <2>1
<1>15. (\A q \in DOMAIN w.t.dirty : w.t.dirty[q].keep = FALSE) => a.t.dirty[a.np].keep = FALSE
  BY <1>4, <1>7, <1>9
<1>16. Allocated(w, a)
  BY <1>3, <1>4, <1>5, <1>7, <1>12, <1>13, <1>14, <1>15 DEF Allocated
<1> QED BY <1>10, <1>11, <1>16

\* A new page is dirtied.
LEMMA AllocDirty ==
    ASSUME db \in DbType, NEW w, NEW f, NEW v, NEW p \in Pages, NEW page \in Page, page.keep = FALSE,
           Sound(w, f, {p}), ~w.t.error, w.t.room # 0,
           p \notin f.listed \cup Listed(w.t) \cup f.clean \cup f.loose,
           p \notin Reusable(db, w.pg), p \in 2..(w.t.next - 1),
           NEW a, a = PageDirty(w, p, page),
           v.below = w.below, v.map = w.map, v.t.saved = w.t.saved, v.t.root = w.t.root,
           v.t.free = w.t.free, v.t.spill = w.t.spill, v.t.dirty = w.t.dirty, v.t.spills = w.t.spills
    PROVE  Sound(a, f, {a.np}) /\ Kept(v, a) /\ Allocated(v, a)
<1>1. w \in Records /\ w.t \in Txn /\ w.pg \in PgStates /\ w.t.dirty \in DirtyLists
  BY DEF Sound, Records, Txn
<1>2. /\ a \in Records /\ a.below = w.below /\ a.map = w.map /\ a.pg = w.pg /\ a.np = p
      /\ a.t.dirty = Insert(w.t.dirty, p, page) /\ a.t.room = w.t.room - 1
      /\ a.t.root = w.t.root /\ a.t.spill = w.t.spill /\ a.t.free = w.t.free
      /\ a.t.loose = w.t.loose /\ a.t.next = w.t.next /\ a.t.saved = w.t.saved
  BY <1>1, PageDirtyIs
<1>3. a.t.error = w.t.error /\ a.t.spills = w.t.spills
  BY <1>1, PageDirtyIs
<1>4. /\ DOMAIN a.t.dirty = DOMAIN w.t.dirty \cup {p} /\ a.t.dirty[p] = page
      /\ \A q \in DOMAIN w.t.dirty : q # p => a.t.dirty[q] = w.t.dirty[q]
  <2>1. IsInsert(a.t.dirty, w.t.dirty, p, page)
    BY <1>1, <1>2, Inserted
  <2> QED BY <2>1 DEF IsInsert
<1>5. f = Frame(db.root, w.below) /\ f \in Frames /\ f.mem \subseteq f.listed /\ Level(db, f, w.t, w.pg, {p})
  BY <1>1, FrameType DEF Sound, Records
<1>6. a.t \in Txn
  BY <1>2 DEF Records
<1>7. p \notin Memory(f.mem, w.t) /\ a.t.spill = w.t.spill \ {p}
  BY <1>2, <1>5 DEF Memory, Listed
<1>8. Level(db, f, a.t, w.pg, {p})
  <2>1. p \notin f.loose /\ p \notin f.clean
    OBVIOUS
  <2> QED BY <1>1, <1>2, <1>3, <1>4, <1>5, <1>6, <1>7, <2>1, LevelInsert
<1>9. Sound(a, f, {a.np})
  BY <1>2, <1>5, <1>8 DEF Sound
<1>10. Kept(v, a)
  BY <1>2 DEF Kept
<1>11. p \notin UsedBy(w.t.root)
  BY <1>5 DEF Level, Placed
<1>12. a.t.error = FALSE
  <2>1. w.t.error \in BOOLEAN
    BY <1>1 DEF Txn
  <2> QED BY <1>3, <2>1
<1>13. Allocated(v, a)
  BY <1>2, <1>3, <1>4, <1>11, <1>12 DEF Allocated
<1> QED BY <1>9, <1>10, <1>13

\* mdb_page_alloc.
LEMMA PageAllocSound ==
    ASSUME db \in DbType, NEW w, NEW f, Sound(w, f, {}), ~w.t.error,
           NEW a, a = PageAlloc(w)
    PROVE  /\ Kept(w, a)
           /\ \/ Sound(a, f, {}) /\ a.t.error /\ a.t.dirty = w.t.dirty
              \/ Sound(a, f, {a.np}) /\ Allocated(w, a)
<1>1. w \in Records /\ w.t \in Txn /\ w.pg \in PgStates
  BY DEF Sound, Records
<1>2. PICK pg : pg = IF w.pg.head = {} /\ ~w.pg.read /\ db.old # {}
                     THEN [head |-> db.old, read |-> TRUE] ELSE w.pg
  OBVIOUS
<1>3. PICK p, new : p = (IF pg.head # {} THEN Min(pg.head) ELSE w.t.next) /\ new = [val |-> Blank, keep |-> FALSE]
  OBVIOUS
<1>4. a = IF w.t.loose # <<>>
          THEN [w EXCEPT !.np = Head(w.t.loose), !.t.loose = Tail(@)]
          ELSE IF w.t.room = 0 \/ (pg.head = {} /\ w.t.next + 1 >= MaxPg)
          THEN Fail(w)
          ELSE IF pg.head # {}
          THEN PageDirty([w EXCEPT !.pg = [pg EXCEPT !.head = @ \ {p}]], p, new)
          ELSE PageDirty([w EXCEPT !.t.next = @ + 1], p, new)
  BY <1>2, <1>3 DEF PageAlloc
<1>5. new \in Page /\ new.keep = FALSE
  BY <1>3 DEF Page, Contents
<1>6. pg \in PgStates /\ Level(db, f, w.t, pg, {})
  <2>1. db.old \in SUBSET Pages
    BY DEF DbType
  <2>2. Level(db, f, w.t, w.pg, {}) /\ f \in Frames
    BY <1>1, FrameType DEF Sound, Records
  <2>3. CASE w.pg.head = {} /\ ~w.pg.read /\ db.old # {}
    <3>1. pg = [head |-> db.old, read |-> TRUE]
      BY <1>2, <2>3
    <3>2. pg \in PgStates
      BY <2>1, <3>1 DEF PgStates
    <3>3. Level(db, f, w.t, [head |-> db.old, read |-> TRUE], {})
      BY <1>1, <2>2, <2>3, LevelRead
    <3> QED BY <3>1, <3>2, <3>3
  <2>4. CASE ~(w.pg.head = {} /\ ~w.pg.read /\ db.old # {})
    <3>1. pg = w.pg
      BY <1>2, <2>4
    <3> QED BY <1>1, <2>2, <3>1
  <2> QED BY <2>3, <2>4
<1>7. f = Frame(db.root, w.below) /\ f \in Frames /\ f.clean \subseteq f.used
  BY <1>1, FrameType DEF Sound, Records
<1>8. CASE w.t.loose # <<>>
  BY <1>4, <1>8, AllocLoose
<1>9. CASE w.t.loose = <<>> /\ (w.t.room = 0 \/ (pg.head = {} /\ w.t.next + 1 >= MaxPg))
  <2>1. a = Fail(w)
    BY <1>4, <1>9
  <2>2. a.t.dirty = w.t.dirty
    BY <1>1, <2>1, FailIs, ZenonT(40)
  <2> QED BY <2>1, <2>2, FailSound
<1>10. CASE w.t.loose = <<>> /\ w.t.room # 0 /\ pg.head # {}
  <2>1. PICK g : g = [pg EXCEPT !.head = @ \ {p}]
    OBVIOUS
  <2>2. PICK v : v = [w EXCEPT !.pg = g]
    OBVIOUS
  <2>3. a = PageDirty(v, p, new)
    BY <1>4, <1>10, <2>1, <2>2
  <2>4. p \in pg.head /\ p \in Pages
    <3>1. pg.head \subseteq Pages /\ pg.head \subseteq Nat
      BY <1>6, NoPageApart DEF PgStates
    <3> QED BY <1>3, <1>10, <3>1, MinIsLeast
  <2>5. g \in PgStates
    BY <1>6, <2>1 DEF PgStates
  <2>6. /\ Level(db, f, w.t, g, {p})
        /\ p \notin f.listed \cup Listed(w.t) \cup f.clean \cup f.loose /\ p \in 2..(w.t.next - 1)
        /\ p \notin Reusable(db, g)
    BY <1>1, <1>6, <1>7, <2>1, <2>4, <2>5, LevelTake
  <2>7. v \in Records /\ v.below = w.below /\ v.t = w.t /\ v.map = w.map /\ v.pg = g
    BY <1>1, <2>2, <2>5 DEF Records
  <2>8. Sound(v, f, {p})
    BY <1>7, <2>6, <2>7 DEF Sound
  <2> QED
    <3>1. Sound(a, f, {a.np}) /\ Kept(w, a) /\ Allocated(w, a)
      BY <1>5, <1>10, <2>3, <2>4, <2>6, <2>7, <2>8, AllocDirty
    <3> QED BY <3>1
<1>11. CASE w.t.loose = <<>> /\ w.t.room # 0 /\ pg.head = {} /\ ~(w.t.next + 1 >= MaxPg)
  <2>1. PICK u : u = [w.t EXCEPT !.next = @ + 1]
    OBVIOUS
  <2>2. PICK v : v = [w EXCEPT !.t = u, !.pg = w.pg]
    OBVIOUS
  <2>3. v = [w EXCEPT !.t.next = @ + 1] /\ p = w.t.next
    BY <1>1, <1>3, <1>11, <2>1, <2>2 DEF Records
  <2>4. a = PageDirty(v, p, new)
    BY <1>4, <1>11, <2>3
  <2>5. w.t.next \in 2..MaxPg /\ MaxPg \in Nat
    BY <1>1, ConstantsAssumption DEF Txn
  <2>6. p \in Pages /\ p + 1 \in 2..MaxPg
    BY <1>11, <2>3, <2>5 DEF Pages
  <2>7. /\ u \in Txn /\ u.dirty = w.t.dirty /\ u.root = w.t.root /\ u.spill = w.t.spill /\ u.free = w.t.free
        /\ u.saved = w.t.saved /\ u.next = p + 1 /\ u.room = w.t.room
    BY <1>1, <2>1, <2>3, <2>6 DEF Txn
  <2>8. u.error = w.t.error /\ u.spills = w.t.spills
    BY <1>1, <2>1 DEF Txn
  <2>9. v \in Records /\ v.below = w.below /\ v.t = u /\ v.map = w.map /\ v.pg = w.pg
    BY <1>1, <2>2, <2>7 DEF Records
  <2>10. Level(db, f, w.t, w.pg, {}) /\ f.loose \subseteq Pages
    BY <1>7 DEF Sound, Frames
  <2>11. /\ Level(db, f, u, w.pg, {w.t.next})
         /\ w.t.next \notin f.listed \cup Listed(w.t) \cup f.clean \cup f.loose
         /\ w.t.next \notin Reusable(db, w.pg) /\ w.t.next \in 2..(u.next - 1)
    BY <1>1, <1>7, <2>1, <2>7, <2>10, LevelGrow
  <2>12. Sound(v, f, {p})
    BY <1>7, <2>3, <2>9, <2>11 DEF Sound
  <2>13. Listed(v.t) = Listed(w.t)
    BY <2>7, <2>9 DEF Listed
  <2>14. /\ p \notin f.listed \cup Listed(v.t) \cup f.clean \cup f.loose
         /\ p \notin Reusable(db, v.pg) /\ p \in 2..(v.t.next - 1)
    BY <2>3, <2>9, <2>11, <2>13
  <2>15. ~v.t.error /\ v.t.room # 0
    BY <1>11, <2>7, <2>8, <2>9
  <2> QED
    <3>1. Sound(a, f, {a.np}) /\ Kept(w, a) /\ Allocated(w, a)
      <4>1. /\ w.below = v.below /\ w.map = v.map /\ w.t.saved = v.t.saved /\ w.t.root = v.t.root
            /\ w.t.free = v.t.free /\ w.t.spill = v.t.spill /\ w.t.dirty = v.t.dirty
        BY <2>7, <2>9
      <4>2. w.t.spills = v.t.spills
        BY <2>8, <2>9
      <4> QED BY <1>5, <2>4, <2>6, <2>12, <2>14, <2>15, <4>1, <4>2, AllocDirty
    <3> QED BY <3>1
<1> QED BY <1>8, <1>9, <1>10, <1>11

\* No page of the lists is flagged with P_KEEP.
Unflagged(ts) == \A i \in 1..Len(ts) : \A q \in DOMAIN ts[i].dirty : ts[i].dirty[q].keep = FALSE
Clear(w) == Unflagged(w.below) /\ \A q \in DOMAIN w.t.dirty : w.t.dirty[q].keep = FALSE

\* A page is in the same lists, with the same content.
SameAt(t, u, q) == /\ q \in u.spill <=> q \in t.spill
                   /\ q \in DOMAIN u.dirty <=> q \in DOMAIN t.dirty
                   /\ q \in DOMAIN t.dirty => u.dirty[q] = t.dirty[q]
Untouched(t, u, k) == \A j \in Keys : j # k =>
    /\ u.root[j] = t.root[j]
    /\ t.root[j] # NoPage => SameAt(t, u, t.root[j])

\* From w to r: the page of k may have changed and no other page in use, unless
\* the transaction has failed.
Step(w, r, f, k) ==
    /\ Sound(r, f, {}) /\ Kept(w, r) /\ (Clear(w) => Clear(r))
    /\ ~r.t.error => Untouched(w.t, r.t, k)

\* Where the innermost transaction finds a page.
Found(w, f, p, found) ==
    /\ found.dirty <=> p \in Memory(f.mem, w.t)
    /\ found.at = Len(w.below) + 1 <=> p \in Listed(w.t)
    /\ found.at = 0 <=> p \notin f.listed \cup Listed(w.t)
    /\ found.page \in Page /\ found.at \in Nat
    /\ Clear(w) => found.page.keep = FALSE

\* What mdb_page_get finds for the innermost transaction.
LEMMA LookupIs ==
    ASSUME NEW w \in Records, NEW f, f = Frame(db.root, w.below), NEW p \in Pages,
           NEW found, found = Lookup(w, p)
    PROVE  Found(w, f, p, found)
<1>1. w.below \in Seq(Txn) /\ w.t \in Txn /\ w.map \in [Pages -> Contents] /\ Len(w.below) \in Nat
  BY DEF Records
<1>2. PICK b, t, m, s : b = w.below /\ t = w.t /\ m = w.map /\ s = Append(b, t)
  OBVIOUS
<1>3. b \in Seq(Txn) /\ t \in Txn /\ m \in [Pages -> Contents] /\ Len(b) \in Nat /\ s \in Seq(Txn)
  BY <1>1, <1>2
<1>4. found = PageGet(s, m, p)
  BY <1>2 DEF Lookup, Stack
<1>5. Frame(db.root, s) = Push(f, t)
  BY <1>2, <1>3, FramePush
<1>6. /\ found.dirty <=> p \in Frame(db.root, s).mem
      /\ found.at = 0 <=> p \notin Frame(db.root, s).listed
      /\ found.page \in Page /\ found.at \in 0..Len(s)
  BY <1>3, <1>4, GetInFrame
<1>7. Frame(db.root, s).mem = Memory(f.mem, t) /\ Frame(db.root, s).listed = f.listed \cup Listed(t)
  BY <1>5 DEF Push
<1>8. PICK h : h = PageGet(b, m, p)
  OBVIOUS
<1>9. found = IF p \in t.spill
              THEN [at |-> Len(b) + 1, dirty |-> FALSE, page |-> [val |-> m[p], keep |-> FALSE]]
              ELSE IF p \in DOMAIN t.dirty
              THEN [at |-> Len(b) + 1, dirty |-> TRUE, page |-> t.dirty[p]]
              ELSE h
  <2>1. found = PageGet(Append(b, t), m, p)
    BY <1>2, <1>4
  <2> QED BY <1>3, <1>8, <2>1, GetTop
<1>10. h.at \in 0..Len(b)
  BY <1>3, <1>8, GetInFrame
<1>11. found.at = Len(b) + 1 <=> p \in Listed(t)
  <2>1. CASE p \in t.spill
    BY <1>9, <2>1 DEF Listed
  <2>2. CASE p \notin t.spill /\ p \in DOMAIN t.dirty
    BY <1>9, <2>2 DEF Listed
  <2>3. CASE p \notin t.spill /\ p \notin DOMAIN t.dirty
    BY <1>3, <1>9, <1>10, <2>3 DEF Listed
  <2> QED BY <2>1, <2>2, <2>3
<1>12. ASSUME Clear(w) PROVE found.page.keep = FALSE
  <2>1. (\A q \in DOMAIN t.dirty : t.dirty[q].keep = FALSE) /\ Unflagged(b)
    BY <1>2, <1>12 DEF Clear
  <2>2. CASE p \in t.spill
    BY <1>9, <2>2
  <2>3. CASE p \notin t.spill /\ p \in DOMAIN t.dirty
    BY <1>9, <2>1, <2>3
  <2>4. CASE p \notin t.spill /\ p \notin DOMAIN t.dirty
    <3>1. found = h
      BY <1>9, <2>4
    <3>2. /\ h.at \in 0..Len(b)
          /\ h.at = 0 => h.page = [val |-> m[p], keep |-> FALSE]
          /\ h.at # 0 => /\ p \in Listed(b[h.at])
                         /\ IF p \in b[h.at].spill
                            THEN h.page = [val |-> m[p], keep |-> FALSE]
                            ELSE h.page = b[h.at].dirty[p]
      BY <1>3, <1>8, GetIs
    <3>3. CASE h.at = 0 \/ p \in b[h.at].spill
      BY <3>1, <3>2, <3>3
    <3>4. CASE h.at # 0 /\ p \notin b[h.at].spill
      <4>1. h.at \in 1..Len(b) /\ p \in DOMAIN b[h.at].dirty /\ h.page = b[h.at].dirty[p]
        BY <1>3, <3>2, <3>4 DEF Listed
      <4> QED BY <2>1, <3>1, <4>1 DEF Unflagged
    <3> QED BY <3>3, <3>4
  <2> QED BY <2>2, <2>3, <2>4
<1>13. found.at \in Nat
  BY <1>3, <1>6
<1> QED BY <1>2, <1>6, <1>7, <1>11, <1>12, <1>13 DEF Found

\* Copying a page of an ancestor.
LEMMA CopySound ==
    ASSUME db \in DbType, NEW w, NEW f, Sound(w, f, {}), ~w.t.error, NEW k \in Keys,
           w.t.root[k] \in Pages, Lookup(w, w.t.root[k]).dirty,
           Lookup(w, w.t.root[k]).at # Len(w.below) + 1,
           NEW r, r = CopyFromParent(w, w.t.root[k])
    PROVE  Step(w, r, f, k) /\ r.t.error = FALSE /\ r.t.root = w.t.root
<1>1. PICK p, found : p = w.t.root[k] /\ found = Lookup(w, p)
  OBVIOUS
<1>2. /\ w \in Records /\ w.t \in Txn /\ w.pg \in PgStates /\ w.t.dirty \in DirtyLists
      /\ f = Frame(db.root, w.below) /\ f \in Frames /\ f.mem \subseteq f.listed
      /\ Level(db, f, w.t, w.pg, {}) /\ p \in Pages
  BY <1>1, FrameType DEF Sound, Records, Txn
<1>3. /\ found.page \in Page /\ (Clear(w) => found.page.keep = FALSE)
      /\ p \in Memory(f.mem, w.t) /\ p \notin Listed(w.t)
  <2>1. Found(w, f, p, found)
    BY <1>1, <1>2, LookupIs
  <2> QED BY <1>1, <2>1 DEF Found
<1>4. PICK e, u : e = Insert(w.t.dirty, p, found.page) /\ u = [w.t EXCEPT !.dirty = e]
  OBVIOUS
<1>5. /\ e \in DirtyLists /\ DOMAIN e = DOMAIN w.t.dirty \cup {p} /\ e[p] = found.page
      /\ \A q \in DOMAIN w.t.dirty : q # p => e[q] = w.t.dirty[q]
  <2>1. IsInsert(e, w.t.dirty, p, found.page)
    BY <1>2, <1>3, <1>4, Inserted
  <2> QED BY <2>1 DEF IsInsert
<1>6. r = [w EXCEPT !.t = u]
  BY <1>1, <1>2, <1>4 DEF CopyFromParent, Records
<1>7. /\ u \in Txn /\ u.dirty = e /\ u.room = w.t.room /\ u.root = w.t.root /\ u.spill = w.t.spill
      /\ u.free = w.t.free /\ u.loose = w.t.loose /\ u.next = w.t.next /\ u.saved = w.t.saved
  BY <1>2, <1>4, <1>5 DEF Txn
<1>8. u.error = w.t.error /\ w.t.error \in BOOLEAN
  BY <1>2, <1>4 DEF Txn
<1>9. r \in Records /\ r.t = u /\ r.below = w.below /\ r.map = w.map /\ r.pg = w.pg
  BY <1>2, <1>6, <1>7 DEF Records
<1>10. p \in f.mem /\ p \notin w.t.spill
  BY <1>3 DEF Memory, Listed
<1>11. p \notin f.loose
  <2>1. p \in UsedBy(w.t.root)
    BY <1>1, <1>2, NoPageApart DEF UsedBy
  <2> QED BY <1>2, <2>1 DEF Level, Placed
<1>12. Level(db, f, u, w.pg, {})
  BY <1>2, <1>5, <1>7, <1>8, <1>10, <1>11, LevelCopy
<1>13. Sound(r, f, {}) /\ Kept(w, r)
  BY <1>2, <1>7, <1>9, <1>12 DEF Sound, Kept
<1>14. Clear(w) => Clear(r)
  BY <1>3, <1>5, <1>7, <1>9 DEF Clear
<1>15. Untouched(w.t, r.t, k)
  <2> SUFFICES ASSUME NEW j \in Keys, j # k, w.t.root[j] # NoPage PROVE SameAt(w.t, u, w.t.root[j])
    BY <1>7, <1>9 DEF Untouched
  <2>1. w.t.root[j] # p
    BY <1>1, <1>2 DEF Level, Placed
  <2> QED BY <1>5, <1>7, <2>1 DEF SameAt
<1>16. r.t.error = FALSE
  BY <1>8, <1>9
<1> QED BY <1>7, <1>9, <1>13, <1>14, <1>15, <1>16 DEF Step

\* Taking a spilled page back.
LEMMA UnspillSound ==
    ASSUME db \in DbType, NEW w, NEW f, Sound(w, f, {}), ~w.t.error, NEW k \in Keys,
           w.t.root[k] \in Pages, ~Lookup(w, w.t.root[k]).dirty,
           Lookup(w, w.t.root[k]).at # 0, w.t.room # 0,
           NEW r, r = Unspill(w, w.t.root[k])
    PROVE  Step(w, r, f, k) /\ r.t.error = FALSE /\ r.t.root = w.t.root
<1>1. PICK p, found : p = w.t.root[k] /\ found = Lookup(w, p)
  OBVIOUS
<1>2. /\ w \in Records /\ w.t \in Txn /\ w.pg \in PgStates /\ w.t.dirty \in DirtyLists
      /\ f = Frame(db.root, w.below) /\ f \in Frames /\ f.mem \subseteq f.listed
      /\ Level(db, f, w.t, w.pg, {}) /\ p \in Pages
  BY <1>1, FrameType DEF Sound, Records, Txn
<1>3. /\ found.page \in Page /\ (Clear(w) => found.page.keep = FALSE)
      /\ p \notin Memory(f.mem, w.t) /\ p \in f.listed \cup Listed(w.t)
  <2>1. Found(w, f, p, found)
    BY <1>1, <1>2, LookupIs
  <2> QED BY <1>1, <2>1 DEF Found
<1>4. PICK x : x = [w.t EXCEPT !.spill = @ \ {p}]
  OBVIOUS
<1>5. PICK v : v = [w EXCEPT !.t = x]
  OBVIOUS
<1>6. r = PageDirty(v, p, found.page)
  BY <1>1, <1>2, <1>4, <1>5 DEF Unspill, Records
<1>7. /\ x \in Txn /\ x.dirty = w.t.dirty /\ x.room = w.t.room /\ x.root = w.t.root /\ x.spill = w.t.spill \ {p}
      /\ x.free = w.t.free /\ x.loose = w.t.loose /\ x.next = w.t.next /\ x.saved = w.t.saved
  BY <1>2, <1>4 DEF Txn
<1>8. x.error = w.t.error /\ w.t.error \in BOOLEAN
  BY <1>2, <1>4 DEF Txn
<1>9. v \in Records /\ v.t = x /\ v.below = w.below /\ v.map = w.map /\ v.pg = w.pg
  BY <1>2, <1>5, <1>7 DEF Records
<1>10. PICK e : e = Insert(w.t.dirty, p, found.page)
  OBVIOUS
<1>11. /\ e \in DirtyLists /\ DOMAIN e = DOMAIN w.t.dirty \cup {p} /\ e[p] = found.page
       /\ \A q \in DOMAIN w.t.dirty : q # p => e[q] = w.t.dirty[q]
  <2>1. IsInsert(e, w.t.dirty, p, found.page)
    BY <1>2, <1>3, <1>10, Inserted
  <2> QED BY <2>1 DEF IsInsert
<1>12. /\ r \in Records /\ r.below = v.below /\ r.map = v.map /\ r.pg = v.pg
       /\ r.t.dirty = Insert(v.t.dirty, p, found.page) /\ r.t.room = v.t.room - 1
       /\ r.t.root = v.t.root /\ r.t.spill = v.t.spill /\ r.t.free = v.t.free
       /\ r.t.loose = v.t.loose /\ r.t.next = v.t.next /\ r.t.saved = v.t.saved
  <2>1. v.t.room # 0
    BY <1>7, <1>9
  <2> QED BY <1>2, <1>3, <1>6, <1>9, <2>1, PageDirtyIs
<1>13. r.t.error = w.t.error
  <2>1. v.t.room # 0
    BY <1>7, <1>9
  <2>2. r.t.error = v.t.error
    BY <1>2, <1>3, <1>6, <1>9, <2>1, PageDirtyIs
  <2> QED BY <1>8, <1>9, <2>2
<1>14. /\ r.t \in Txn /\ r.below = w.below /\ r.map = w.map /\ r.pg = w.pg
       /\ r.t.dirty = e /\ r.t.room = w.t.room - 1 /\ r.t.root = w.t.root /\ r.t.spill = w.t.spill \ {p}
       /\ r.t.free = w.t.free /\ r.t.loose = w.t.loose /\ r.t.next = w.t.next /\ r.t.saved = w.t.saved
  BY <1>7, <1>9, <1>10, <1>12 DEF Records
<1>15. p \notin f.loose /\ p \in 2..(w.t.next - 1) /\ p \notin Reusable(db, w.pg) /\ p \notin f.clean
  <2>1. p \in UsedBy(w.t.root)
    BY <1>1, <1>2, NoPageApart DEF UsedBy
  <2>2. p \notin f.loose /\ p \in 2..(w.t.next - 1) /\ p \notin Reusable(db, w.pg)
    BY <1>2, <2>1 DEF Level, Placed
  <2>3. p \notin f.clean
    BY <1>2, <1>3 DEF Level, Apart
  <2> QED BY <2>2, <2>3
<1>16. Level(db, f, r.t, w.pg, {})
  BY <1>2, <1>3, <1>11, <1>13, <1>14, <1>15, LevelInsert, SMTT(30)
<1>17. Sound(r, f, {}) /\ Kept(w, r)
  BY <1>2, <1>12, <1>14, <1>16 DEF Sound, Kept
<1>18. Clear(w) => Clear(r)
  BY <1>3, <1>11, <1>14, SMTT(30) DEF Clear
<1>19. Untouched(w.t, r.t, k)
  <2> SUFFICES ASSUME NEW j \in Keys, j # k, w.t.root[j] # NoPage PROVE SameAt(w.t, r.t, w.t.root[j])
    BY <1>14 DEF Untouched
  <2>1. w.t.root[j] # p
    BY <1>1, <1>2 DEF Level, Placed
  <2> QED BY <1>11, <1>14, <2>1 DEF SameAt
<1>20. r.t.error = FALSE
  BY <1>8, <1>13
<1> QED BY <1>14, <1>17, <1>18, <1>19, <1>20 DEF Step

\* An operation that does nothing.
LEMMA StepNone ==
    ASSUME NEW w, NEW f, Sound(w, f, {}), NEW k
    PROVE  Step(w, w, f, k)
BY DEF Step, Kept, Untouched, SameAt

\* One operation after another.
LEMMA StepTwice ==
    ASSUME NEW w, NEW r, NEW s, NEW f, NEW k, Step(w, r, f, k), Step(r, s, f, k),
           r.t.error = FALSE
    PROVE  Step(w, s, f, k)
<1>1. Sound(s, f, {}) /\ Kept(w, s) /\ (Clear(w) => Clear(s))
  BY DEF Step, Kept
<1>2. ASSUME ~s.t.error PROVE Untouched(w.t, s.t, k)
  <2>1. Untouched(w.t, r.t, k) /\ Untouched(r.t, s.t, k)
    BY <1>2 DEF Step
  <2> SUFFICES ASSUME NEW j \in Keys, j # k
               PROVE  /\ s.t.root[j] = w.t.root[j]
                      /\ w.t.root[j] # NoPage => SameAt(w.t, s.t, w.t.root[j])
    BY DEF Untouched
  <2>2. r.t.root[j] = w.t.root[j] /\ s.t.root[j] = r.t.root[j]
    BY <2>1 DEF Untouched
  <2>3. ASSUME w.t.root[j] # NoPage PROVE SameAt(w.t, s.t, w.t.root[j])
    <3>1. SameAt(w.t, r.t, w.t.root[j]) /\ SameAt(r.t, s.t, w.t.root[j])
      BY <2>1, <2>2, <2>3 DEF Untouched
    <3> QED BY <3>1 DEF SameAt
  <2> QED BY <2>2, <2>3
<1> QED BY <1>1, <1>2 DEF Step

\* A failure as a step.
LEMMA StepFail ==
    ASSUME NEW w, NEW f, Sound(w, f, {}), NEW k, NEW r, r = Fail(w)
    PROVE  Step(w, r, f, k) /\ r.t.error
<1>1. Sound(r, f, {}) /\ Kept(w, r) /\ r.t.error
  BY FailSound
<1>2. r.t.dirty = w.t.dirty /\ r.below = w.below
  BY FailIs DEF Sound
<1>3. Clear(w) => Clear(r)
  BY <1>2 DEF Clear
<1> QED BY <1>1, <1>3 DEF Step

\* mdb_page_new.
LEMMA PageNewSound ==
    ASSUME db \in DbType, NEW w, NEW f, Sound(w, f, {}), ~w.t.error, NEW k \in Keys,
           w.t.root[k] = NoPage, NEW r, r = PageNew(w, k)
    PROVE  Step(w, r, f, k)
<1>1. PICK a : a = PageAlloc(w)
  OBVIOUS
<1>2. r = IF a.t.error THEN a ELSE [a EXCEPT !.t.root[k] = a.np]
  BY <1>1 DEF PageNew
<1>3. /\ Kept(w, a)
      /\ \/ Sound(a, f, {}) /\ a.t.error /\ a.t.dirty = w.t.dirty
         \/ Sound(a, f, {a.np}) /\ Allocated(w, a)
  BY <1>1, PageAllocSound
<1>4. CASE Sound(a, f, {}) /\ a.t.error /\ a.t.dirty = w.t.dirty
  <2>1. r = a
    BY <1>2, <1>4
  <2>2. Clear(w) => Clear(a)
    BY <1>3, <1>4 DEF Clear, Kept
  <2> QED BY <1>3, <1>4, <2>1, <2>2 DEF Step
<1>5. CASE Sound(a, f, {a.np}) /\ Allocated(w, a)
  <2>1. PICK u, p : p = a.np /\ u = [a.t EXCEPT !.root[k] = p]
    OBVIOUS
  <2>2. /\ a \in Records /\ a.t \in Txn /\ a.pg \in PgStates /\ a.t.root \in Roots
        /\ f = Frame(db.root, a.below) /\ Level(db, f, a.t, a.pg, {p})
    BY <1>5, <2>1 DEF Sound, Records, Txn
  <2>3. f \in Frames
    BY <2>2, FrameType DEF Records
  <2>4. /\ p \in Pages /\ a.t.root = w.t.root /\ a.t.spill = w.t.spill
        /\ DOMAIN a.t.dirty = DOMAIN w.t.dirty \cup {p} /\ p \notin UsedBy(w.t.root)
        /\ \A q \in DOMAIN w.t.dirty : q # p => a.t.dirty[q] = w.t.dirty[q]
        /\ (\A q \in DOMAIN w.t.dirty : w.t.dirty[q].keep = FALSE) => a.t.dirty[p].keep = FALSE
    BY <1>5, <2>1 DEF Allocated
  <2>5. a.t.error = FALSE
    BY <1>5 DEF Allocated
  <2>6. r = [a EXCEPT !.t = u]
    BY <1>2, <2>1, <2>2, <2>5 DEF Records
  <2>7. /\ u \in Txn /\ u.root = [a.t.root EXCEPT ![k] = p] /\ u.spill = a.t.spill /\ u.dirty = a.t.dirty
        /\ u.saved = a.t.saved
    BY <2>1, <2>2, <2>4 DEF Txn, Roots
  <2>8. u.error = a.t.error
    BY <2>1, <2>2 DEF Txn
  <2>9. r \in Records /\ r.t = u /\ r.below = a.below /\ r.map = a.map /\ r.pg = a.pg
    BY <2>2, <2>6, <2>7 DEF Records
  <2>10. Level(db, f, u, a.pg, {})
    BY <2>1, <2>2, <2>3, <2>4, <2>7, NoPageApart, LevelAssign
  <2>11. Sound(r, f, {}) /\ Kept(w, r)
    BY <1>3, <2>2, <2>7, <2>9, <2>10 DEF Sound, Kept
  <2>12. Clear(w) => Clear(r)
    BY <1>3, <2>4, <2>7, <2>9 DEF Clear, Kept
  <2>13. Untouched(w.t, r.t, k)
    <3> SUFFICES ASSUME NEW j \in Keys, j # k
                 PROVE  /\ u.root[j] = w.t.root[j]
                        /\ w.t.root[j] # NoPage => SameAt(w.t, u, w.t.root[j])
      BY <2>9 DEF Untouched
    <3>1. u.root[j] = w.t.root[j]
      BY <2>2, <2>4, <2>7 DEF Roots
    <3>2. w.t.root[j] # NoPage => w.t.root[j] # p
      BY <2>4 DEF UsedBy
    <3> QED BY <2>4, <2>7, <3>1, <3>2 DEF SameAt
  <2> QED BY <2>11, <2>12, <2>13 DEF Step
<1> QED BY <1>3, <1>4, <1>5

\* mdb_page_touch.
LEMMA PageTouchSound ==
    ASSUME db \in DbType, NEW w, NEW f, Sound(w, f, {}), ~w.t.error, NEW k \in Keys,
           w.t.root[k] \in Pages, Len(w.below) + 1 = Len(txns), NEW r, r = PageTouch(w, k)
    PROVE  Step(w, r, f, k) /\ (~r.t.error => r.t.root[k] \in Pages)
<1>1. PICK p, found, a : p = w.t.root[k] /\ found = Lookup(w, p) /\ a = PageAlloc(w)
  OBVIOUS
<1>2. r = IF found.dirty
          THEN IF found.at = Len(txns) THEN w ELSE CopyFromParent(w, p)
          ELSE IF found.at > 0 /\ w.t.spills
          THEN IF w.t.room = 0 THEN Fail(w) ELSE Unspill(w, p)
          ELSE IF a.t.error THEN a
          ELSE [a EXCEPT !.t.dirty[a.np] = found.page, !.t.root[k] = a.np,
                         !.t.free = @ \cup {p}]
  BY <1>1 DEF PageTouch
<1>3. w \in Records /\ f = Frame(db.root, w.below)
  BY DEF Sound
<1>4. Found(w, f, p, found)
  BY <1>1, <1>3, LookupIs
<1>5. CASE found.dirty /\ found.at = Len(txns)
  <2>1. r = w
    BY <1>2, <1>5
  <2> QED BY <2>1, StepNone
<1>6. CASE found.dirty /\ found.at # Len(txns)
  <2>1. r = CopyFromParent(w, w.t.root[k])
    BY <1>1, <1>2, <1>6
  <2>2. Lookup(w, w.t.root[k]).dirty /\ Lookup(w, w.t.root[k]).at # Len(w.below) + 1
    BY <1>1, <1>6
  <2>3. Step(w, r, f, k) /\ r.t.error = FALSE /\ r.t.root = w.t.root
    BY <2>1, <2>2, CopySound, ZenonT(40)
  <2> QED BY <2>3
<1>7. CASE ~found.dirty /\ found.at > 0 /\ w.t.spills /\ w.t.room = 0
  <2>1. r = Fail(w)
    BY <1>2, <1>7
  <2> QED BY <2>1, StepFail
<1>8. CASE ~found.dirty /\ found.at > 0 /\ w.t.spills /\ w.t.room # 0
  <2>1. r = Unspill(w, w.t.root[k])
    BY <1>1, <1>2, <1>8
  <2>2. ~Lookup(w, w.t.root[k]).dirty /\ Lookup(w, w.t.root[k]).at # 0
    BY <1>1, <1>8
  <2>3. Step(w, r, f, k) /\ r.t.root = w.t.root
    BY <1>8, <2>1, <2>2, UnspillSound, ZenonT(40)
  <2> QED BY <2>3
<1>9. CASE ~found.dirty /\ ~(found.at > 0 /\ w.t.spills)
  <2>1. /\ Kept(w, a)
        /\ \/ Sound(a, f, {}) /\ a.t.error /\ a.t.dirty = w.t.dirty
           \/ Sound(a, f, {a.np}) /\ Allocated(w, a)
    BY <1>1, PageAllocSound
  <2>2. CASE Sound(a, f, {}) /\ a.t.error /\ a.t.dirty = w.t.dirty
    <3>1. r = a
      BY <1>2, <1>9, <2>2
    <3>2. Clear(w) => Clear(a)
      BY <2>1, <2>2 DEF Clear, Kept
    <3> QED BY <2>1, <2>2, <3>1, <3>2 DEF Step
  <2>3. CASE Sound(a, f, {a.np}) /\ Allocated(w, a)
    <3>1. PICK n, e, v, u : /\ n = a.np /\ e = [a.t.dirty EXCEPT ![n] = found.page]
                            /\ v = [a.t EXCEPT !.dirty = e]
                            /\ u = [v EXCEPT !.root[k] = n, !.free = @ \cup {p}]
      OBVIOUS
    <3>2. /\ a \in Records /\ a.t \in Txn /\ a.pg \in PgStates /\ a.t.root \in Roots
          /\ f = Frame(db.root, a.below) /\ Level(db, f, a.t, a.pg, {n}) /\ a.t.dirty \in DirtyLists
      BY <2>3, <3>1 DEF Sound, Records, Txn
    <3>3. f \in Frames
      BY <3>2, FrameType DEF Records
    <3>4. /\ n \in Pages /\ a.t.root = w.t.root /\ a.t.spill = w.t.spill
          /\ DOMAIN a.t.dirty = DOMAIN w.t.dirty \cup {n} /\ n \notin UsedBy(w.t.root)
          /\ \A q \in DOMAIN w.t.dirty : q # n => a.t.dirty[q] = w.t.dirty[q]
      BY <2>3, <3>1 DEF Allocated
    <3>5. a.t.error = FALSE
      BY <2>3 DEF Allocated
    <3>6. e \in DirtyLists /\ DOMAIN e = DOMAIN a.t.dirty /\ e[n] = found.page
          /\ \A q \in DOMAIN a.t.dirty : q # n => e[q] = a.t.dirty[q]
      <4>1. DOMAIN a.t.dirty \subseteq Pages /\ \A q \in DOMAIN a.t.dirty : a.t.dirty[q] \in Page
        BY <3>2, DirtyList
      <4>2. found.page \in Page
        BY <1>4 DEF Found
      <4>3. PICK P : P = DOMAIN a.t.dirty
        OBVIOUS
      <4>4. /\ e = [q \in P |-> e[q]] /\ DOMAIN e = P /\ e[n] = found.page
            /\ \A q \in P : q # n => e[q] = a.t.dirty[q]
        BY <3>1, <3>4, <4>3
      <4>5. P \in SUBSET Pages /\ \A q \in P : e[q] \in Page
        BY <4>1, <4>2, <4>3, <4>4
      <4>6. e \in DirtyLists
        BY <4>4, <4>5, IsDirtyList
      <4> QED BY <4>3, <4>4, <4>6
    <3>7. /\ v \in Txn /\ v.root = a.t.root /\ v.spill = a.t.spill /\ v.dirty = e /\ v.free = a.t.free
          /\ v.saved = a.t.saved /\ v.loose = a.t.loose /\ v.next = a.t.next /\ v.room = a.t.room
      BY <3>1, <3>2, <3>6 DEF Txn
    <3>8. v.error = a.t.error
      BY <3>1, <3>2 DEF Txn
    <3>9. /\ u \in Txn /\ u.root = [v.root EXCEPT ![k] = n] /\ u.spill = v.spill /\ u.dirty = v.dirty
          /\ u.free = v.free \cup {p} /\ u.saved = v.saved /\ u.loose = v.loose /\ u.next = v.next
          /\ u.room = v.room
      <4>1. [v.root EXCEPT ![k] = n] \in Roots /\ p \in Pages
        BY <1>1, <3>2, <3>4, <3>7 DEF Roots
      <4>2. PICK x : x = [v.root EXCEPT ![k] = n]
        OBVIOUS
      <4>3. u = [v EXCEPT !.root = x, !.free = @ \cup {p}]
        BY <3>1, <3>7, <4>2 DEF Txn
      <4>4. /\ u \in Txn /\ u.root = x /\ u.spill = v.spill /\ u.dirty = v.dirty
            /\ u.free = v.free \cup {p} /\ u.saved = v.saved /\ u.loose = v.loose /\ u.next = v.next
            /\ u.room = v.room
        BY <3>7, <4>1, <4>2, <4>3 DEF Txn
      <4> QED BY <4>2, <4>4
    <3>10. u.error = v.error
      BY <3>1, <3>7 DEF Txn
    <3>11. r = [a EXCEPT !.t = u]
      <4>1. r = [a EXCEPT !.t.dirty[n] = found.page, !.t.root[k] = n, !.t.free = @ \cup {p}]
        BY <1>2, <1>9, <3>1, <3>5
      <4>2. u = [a.t EXCEPT !.dirty[n] = found.page, !.root[k] = n, !.free = @ \cup {p}]
        BY <3>1, <3>2 DEF Txn
      <4> QED BY <3>2, <4>1, <4>2 DEF Records
    <3>12. r \in Records /\ r.t = u /\ r.below = a.below /\ r.map = a.map /\ r.pg = a.pg
      BY <3>2, <3>9, <3>11 DEF Records
    <3>13. Level(db, f, v, a.pg, {n})
      <4>1. DOMAIN v.dirty = DOMAIN a.t.dirty
        BY <3>6, <3>7
      <4> QED BY <3>2, <3>7, <3>8, <4>1, LevelSame
    <3>14. Level(db, f, u, a.pg, {})
      <4>1. v.root[k] = p /\ p \in Pages
        BY <1>1, <3>4, <3>7
      <4>2. /\ v \in Txn /\ u \in Txn /\ a.pg \in PgStates /\ n \in Pages /\ NoPage \notin Pages
        BY <3>2, <3>4, <3>7, <3>9, NoPageApart
      <4>3. /\ u.root = [v.root EXCEPT ![k] = n] /\ u.free = v.free \cup {p}
        BY <3>9, <4>1
      <4>4. SameLists(v, u)
        BY <3>9, <3>10 DEF SameLists
      <4> QED BY <3>3, <3>13, <4>1, <4>2, <4>3, <4>4, LevelSwap
    <3>15. Sound(r, f, {}) /\ Kept(w, r)
      BY <2>1, <3>2, <3>7, <3>9, <3>12, <3>14 DEF Sound, Kept
    <3>16. Clear(w) => Clear(r)
      <4>1. Clear(w) => found.page.keep = FALSE
        BY <1>4 DEF Found
      <4> QED BY <2>1, <3>4, <3>6, <3>7, <3>9, <3>12, <4>1 DEF Clear, Kept
    <3>17. Untouched(w.t, r.t, k)
      <4> SUFFICES ASSUME NEW j \in Keys, j # k
                   PROVE  /\ u.root[j] = w.t.root[j]
                          /\ w.t.root[j] # NoPage => SameAt(w.t, u, w.t.root[j])
        BY <3>12 DEF Untouched
      <4>1. u.root[j] = w.t.root[j]
        BY <3>2, <3>4, <3>7, <3>9 DEF Roots
      <4>2. w.t.root[j] # NoPage => w.t.root[j] # n
        BY <3>4 DEF UsedBy
      <4> QED BY <3>4, <3>6, <3>7, <3>9, <4>1, <4>2 DEF SameAt
    <3>18. r.t.root[k] \in Pages
      BY <3>2, <3>4, <3>7, <3>9, <3>12 DEF Roots
    <3> QED BY <3>15, <3>16, <3>17, <3>18 DEF Step
  <2> QED BY <2>1, <2>2, <2>3
<1> QED BY <1>4, <1>5, <1>6, <1>7, <1>8, <1>9 DEF Found

\* The page of k goes away and nothing else does.
LEMMA GoneUntouched ==
    ASSUME NEW t \in Txn, NEW u \in Txn, NEW k \in Keys, NEW q, q = t.root[k],
           \A i, j \in Keys : t.root[i] # NoPage /\ t.root[i] = t.root[j] => i = j,
           u.root = [t.root EXCEPT ![k] = NoPage],
           DOMAIN u.dirty \cup {q} = DOMAIN t.dirty \cup {q}, u.spill \cup {q} = t.spill \cup {q},
           \A p \in DOMAIN t.dirty : p # q => u.dirty[p] = t.dirty[p]
    PROVE  Untouched(t, u, k)
<1> SUFFICES ASSUME NEW j \in Keys, j # k
             PROVE  /\ u.root[j] = t.root[j]
                    /\ t.root[j] # NoPage => SameAt(t, u, t.root[j])
  BY DEF Untouched
<1>1. u.root[j] = t.root[j]
  BY DEF Txn, Roots
<1>2. ASSUME t.root[j] # NoPage PROVE SameAt(t, u, t.root[j])
  <2>1. PICK p : p = t.root[j]
    OBVIOUS
  <2>2. p # q
    BY <1>2, <2>1
  <2>3. (p \in u.spill <=> p \in t.spill) /\ (p \in DOMAIN u.dirty <=> p \in DOMAIN t.dirty)
    BY <2>2
  <2> QED BY <2>1, <2>2, <2>3 DEF SameAt
<1> QED BY <1>1, <1>2

\* mdb_page_loose.
LEMMA PageLooseSound ==
    ASSUME db \in DbType, NEW w, NEW f, Sound(w, f, {}), ~w.t.error, NEW k \in Keys,
           w.t.root[k] \in Pages, Len(w.below) + 1 = Len(txns), NEW r, r = PageLoose(w, k)
    PROVE  Step(w, r, f, k)
<1>1. PICK p, found, gone, s : /\ p = w.t.root[k] /\ found = Lookup(w, p)
                               /\ s = [w.t EXCEPT !.root[k] = NoPage] /\ gone = [w EXCEPT !.t = s]
  OBVIOUS
<1>2. /\ w \in Records /\ w.t \in Txn /\ w.pg \in PgStates /\ w.t.root \in Roots
      /\ f = Frame(db.root, w.below) /\ Level(db, f, w.t, w.pg, {}) /\ p \in Pages
  BY <1>1 DEF Sound, Records, Txn
<1>3. f \in Frames
  BY <1>2, FrameType DEF Records
<1>4. r = IF found.dirty /\ found.at = Len(txns)
          THEN [gone EXCEPT !.t.loose = <<p>> \o @]
          ELSE [gone EXCEPT !.t.free = @ \cup {p}]
  <2>1. gone = [w EXCEPT !.t.root[k] = NoPage]
    BY <1>1, <1>2 DEF Records
  <2> QED BY <1>1, <2>1 DEF PageLoose
<1>5. Found(w, f, p, found)
  BY <1>1, <1>2, LookupIs
<1>6. [w.t.root EXCEPT ![k] = NoPage] \in Roots
  BY <1>2 DEF Roots
<1>7. /\ s \in Txn /\ s.root = [w.t.root EXCEPT ![k] = NoPage] /\ s.dirty = w.t.dirty /\ s.spill = w.t.spill
      /\ s.free = w.t.free /\ s.loose = w.t.loose /\ s.next = w.t.next /\ s.room = w.t.room /\ s.saved = w.t.saved
  BY <1>1, <1>2, <1>6 DEF Txn
<1>8. s.error = w.t.error
  BY <1>1, <1>2 DEF Txn
<1>9. gone \in Records /\ gone.t = s /\ gone.below = w.below /\ gone.map = w.map /\ gone.pg = w.pg
  BY <1>1, <1>2, <1>7 DEF Records
<1>10. \A i, j \in Keys : w.t.root[i] # NoPage /\ w.t.root[i] = w.t.root[j] => i = j
  BY <1>2 DEF Level, Placed
<1>11. NoPage \notin Pages
  BY NoPageApart
<1>12. ASSUME NEW u \in Txn, r.t = u, Level(db, f, u, w.pg, {}), r \in Records, r.below = w.below,
              r.map = w.map, r.pg = w.pg, u.saved = w.t.saved, u.dirty = w.t.dirty, u.spill = w.t.spill,
              u.root = [w.t.root EXCEPT ![k] = NoPage]
       PROVE  Step(w, r, f, k)
  <2>1. Sound(r, f, {}) /\ Kept(w, r)
    BY <1>2, <1>12 DEF Sound, Kept
  <2>2. Clear(w) => Clear(r)
    BY <1>12 DEF Clear
  <2>3. Untouched(w.t, u, k)
    BY <1>1, <1>2, <1>10, <1>12, GoneUntouched
  <2> QED BY <1>12, <2>1, <2>2, <2>3 DEF Step
<1>13. CASE found.dirty /\ found.at = Len(txns)
  <2>1. PICK u, o : o = <<p>> \o s.loose /\ u = [s EXCEPT !.loose = o]
    OBVIOUS
  <2>2. r = [gone EXCEPT !.t = u]
    BY <1>4, <1>9, <1>13, <2>1 DEF Records
  <2>3. o \in Seq(Pages)
    BY <1>2, <1>7, <2>1 DEF Txn
  <2>4. /\ u \in Txn /\ u.root = s.root /\ u.dirty = s.dirty /\ u.spill = s.spill
        /\ u.free = s.free /\ u.loose = o /\ u.next = s.next /\ u.room = s.room /\ u.saved = s.saved
    BY <1>7, <2>1, <2>3 DEF Txn
  <2>5. u.error = s.error
    BY <1>7, <2>1 DEF Txn
  <2>6. r \in Records /\ r.t = u /\ r.below = w.below /\ r.map = w.map /\ r.pg = w.pg
    BY <1>9, <2>2, <2>4 DEF Records
  <2>7. p \in DOMAIN w.t.dirty
    BY <1>5, <1>13 DEF Found, Memory, Listed
  <2>8. SameButLoose(w.t, u)
    BY <1>7, <1>8, <2>4, <2>5 DEF SameButLoose
  <2>9. u.root = [w.t.root EXCEPT ![k] = NoPage] /\ u.loose = <<p>> \o w.t.loose
    BY <1>7, <2>1, <2>4
  <2>10. Level(db, f, u, w.pg, {})
    BY <1>1, <1>2, <1>3, <1>11, <2>4, <2>7, <2>8, <2>9, LevelLoose
  <2> QED BY <1>7, <1>12, <2>4, <2>6, <2>9, <2>10
<1>14. CASE ~(found.dirty /\ found.at = Len(txns))
  <2>1. PICK u : u = [s EXCEPT !.free = @ \cup {p}]
    OBVIOUS
  <2>2. r = [gone EXCEPT !.t = u]
    BY <1>4, <1>9, <1>14, <2>1 DEF Records
  <2>4. /\ u \in Txn /\ u.root = s.root /\ u.dirty = s.dirty /\ u.spill = s.spill
        /\ u.free = s.free \cup {p} /\ u.loose = s.loose /\ u.next = s.next /\ u.room = s.room /\ u.saved = s.saved
    BY <1>2, <1>7, <2>1 DEF Txn
  <2>5. u.error = s.error
    BY <1>7, <2>1 DEF Txn
  <2>6. r \in Records /\ r.t = u /\ r.below = w.below /\ r.map = w.map /\ r.pg = w.pg
    BY <1>9, <2>2, <2>4 DEF Records
  <2>8. SameLists(w.t, u)
    BY <1>7, <1>8, <2>4, <2>5 DEF SameLists
  <2>9. u.root = [w.t.root EXCEPT ![k] = NoPage] /\ u.free = w.t.free \cup {p}
    BY <1>7, <2>1, <2>4
  <2>10. Level(db, f, u, w.pg, {})
    BY <1>1, <1>2, <1>3, <1>11, <2>4, <2>8, <2>9, LevelFree, SMTT(30)
  <2> QED BY <1>7, <1>12, <2>4, <2>6, <2>9, <2>10
<1> QED BY <1>13, <1>14

\* mdb_ovpage_free.
LEMMA OvpageFreeSound ==
    ASSUME db \in DbType, NEW w, NEW f, Sound(w, f, {}), ~w.t.error, NEW k \in Keys,
           w.t.root[k] \in Pages, Len(w.below) + 1 = Len(txns), NEW r, r = OvpageFree(w, k)
    PROVE  Step(w, r, f, k) /\ r.t.error = FALSE /\ r.t.root[k] = NoPage
<1>1. PICK p, found, gone, s : /\ p = w.t.root[k] /\ found = Lookup(w, p)
                               /\ s = [w.t EXCEPT !.root[k] = NoPage] /\ gone = [w EXCEPT !.t = s]
  OBVIOUS
<1>2. /\ w \in Records /\ w.t \in Txn /\ w.pg \in PgStates /\ w.t.root \in Roots
      /\ f = Frame(db.root, w.below) /\ Level(db, f, w.t, w.pg, {}) /\ p \in Pages
  BY <1>1 DEF Sound, Records, Txn
<1>3. f \in Frames
  BY <1>2, FrameType DEF Records
<1>4. r = IF w.pg.read /\ Len(txns) = 1 /\ found.at = 1
          THEN [gone EXCEPT !.pg.head = @ \cup {p}, !.t.spill = @ \ {p},
                            !.t.dirty = Restrict(@, DOMAIN @ \ {p}),
                            !.t.room = IF found.dirty THEN @ + 1 ELSE @]
          ELSE [gone EXCEPT !.t.free = @ \cup {p}]
  <2>1. gone = [w EXCEPT !.t.root[k] = NoPage]
    BY <1>1, <1>2 DEF Records
  <2> QED BY <1>1, <2>1 DEF OvpageFree
<1>5. Found(w, f, p, found)
  BY <1>1, <1>2, LookupIs
<1>6. [w.t.root EXCEPT ![k] = NoPage] \in Roots /\ [w.t.root EXCEPT ![k] = NoPage][k] = NoPage
  BY <1>2 DEF Roots
<1>7. /\ s \in Txn /\ s.root = [w.t.root EXCEPT ![k] = NoPage] /\ s.dirty = w.t.dirty /\ s.spill = w.t.spill
      /\ s.free = w.t.free /\ s.loose = w.t.loose /\ s.next = w.t.next /\ s.room = w.t.room /\ s.saved = w.t.saved
  BY <1>1, <1>2, <1>6 DEF Txn
<1>8. s.error = w.t.error /\ w.t.error \in BOOLEAN
  BY <1>1, <1>2 DEF Txn
<1>9. gone \in Records /\ gone.t = s /\ gone.below = w.below /\ gone.map = w.map /\ gone.pg = w.pg
  BY <1>1, <1>2, <1>7 DEF Records
<1>10. \A i, j \in Keys : w.t.root[i] # NoPage /\ w.t.root[i] = w.t.root[j] => i = j
  BY <1>2 DEF Level, Placed
<1>11. NoPage \notin Pages
  BY NoPageApart
<1>12. CASE w.pg.read /\ Len(txns) = 1 /\ found.at = 1
  <2>1. PICK e, m, u, g : /\ e = Restrict(s.dirty, DOMAIN s.dirty \ {p})
                          /\ m = (IF found.dirty THEN s.room + 1 ELSE s.room)
                          /\ u = [s EXCEPT !.spill = @ \ {p}, !.dirty = e, !.room = m]
                          /\ g = [w.pg EXCEPT !.head = @ \cup {p}]
    OBVIOUS
  <2>2. r = [gone EXCEPT !.pg = g, !.t = u]
    <3>1. r = [gone EXCEPT !.pg.head = @ \cup {p}, !.t.spill = @ \ {p},
                           !.t.dirty = Restrict(@, DOMAIN @ \ {p}),
                           !.t.room = IF found.dirty THEN @ + 1 ELSE @]
      BY <1>4, <1>12
    <3>2. u = [s EXCEPT !.spill = @ \ {p}, !.dirty = Restrict(@, DOMAIN @ \ {p}),
                        !.room = IF found.dirty THEN @ + 1 ELSE @]
      BY <1>7, <2>1 DEF Txn
    <3>3. gone.t = s /\ gone.pg = w.pg /\ gone \in Records
      BY <1>9
    <3>4. r = [gone EXCEPT !.pg = [gone.pg EXCEPT !.head = @ \cup {p}],
                           !.t = [gone.t EXCEPT !.spill = @ \ {p}, !.dirty = Restrict(@, DOMAIN @ \ {p}),
                                                !.room = IF found.dirty THEN @ + 1 ELSE @]]
      BY <3>1, <3>3 DEF Records
    <3> QED BY <2>1, <3>2, <3>3, <3>4
  <2>3. e \in DirtyLists /\ DOMAIN e = DOMAIN w.t.dirty \ {p} /\ \A q \in DOMAIN e : e[q] = w.t.dirty[q]
    <3>1. PICK P : P = DOMAIN w.t.dirty \ {p}
      OBVIOUS
    <3>2. e = [q \in P |-> w.t.dirty[q]]
      BY <1>7, <2>1, <3>1 DEF Restrict
    <3>3. w.t.dirty \in DirtyLists
      BY <1>2 DEF Txn
    <3>4. DOMAIN w.t.dirty \subseteq Pages /\ \A q \in DOMAIN w.t.dirty : w.t.dirty[q] \in Page
      BY <3>3, DirtyList
    <3>5. P \in SUBSET Pages /\ e = [q \in P |-> e[q]] /\ \A q \in P : e[q] \in Page
      BY <3>1, <3>2, <3>4
    <3>6. e \in DirtyLists
      BY <3>5, IsDirtyList
    <3> QED BY <3>1, <3>2, <3>6
  <2>4. m \in Nat
    BY <1>7, <2>1 DEF Txn
  <2>5. /\ u \in Txn /\ u.root = s.root /\ u.dirty = e /\ u.spill = s.spill \ {p}
        /\ u.free = s.free /\ u.loose = s.loose /\ u.next = s.next /\ u.room = m /\ u.saved = s.saved
    BY <1>7, <2>1, <2>3, <2>4 DEF Txn
  <2>6. u.error = s.error
    BY <1>7, <2>1 DEF Txn
  <2>7. g \in PgStates /\ g.head = w.pg.head \cup {p} /\ g.read = w.pg.read
    <3>1. w.pg \in [head : SUBSET Pages, read : BOOLEAN]
      BY <1>2 DEF PgStates
    <3>2. w.pg.read = TRUE
      BY <1>12, <3>1
    <3>3. g \in [head : SUBSET Pages, read : BOOLEAN] /\ g.head = w.pg.head \cup {p} /\ g.read = w.pg.read
      BY <1>2, <2>1, <3>1
    <3> QED BY <3>2, <3>3 DEF PgStates
  <2>8. r \in Records /\ r.t = u /\ r.below = w.below /\ r.map = w.map /\ r.pg = g
    BY <1>9, <2>2, <2>5, <2>7 DEF Records
  <2>9. p \in Listed(w.t)
    BY <1>5, <1>12 DEF Found
  <2>10. w.below = <<>>
    <3>1. Len(w.below) = 0 /\ w.below \in Seq(Txn)
      BY <1>2, <1>12 DEF Records
    <3> QED BY <3>1
  <2>11. f = Frame(db.root, <<>>)
    BY <1>2, <2>10
  <2>12. m = IF p \in DOMAIN w.t.dirty THEN w.t.room + 1 ELSE w.t.room
    <3>1. f.mem = {}
      BY <2>11, FrameEmpty DEF DbType
    <3>2. DOMAIN w.t.dirty \cap w.t.spill = {}
      BY <1>2 DEF Level, ListsOK
    <3>3. found.dirty <=> p \in DOMAIN w.t.dirty
      BY <1>5, <3>1, <3>2 DEF Found, Memory
    <3> QED BY <1>7, <2>1, <3>3
  <2>13. BackOf(w.t, u, k, p)
    BY <1>1, <1>7, <1>8, <2>3, <2>5, <2>6, <2>12 DEF BackOf
  <2>14. Level(db, f, u, g, {})
    BY <1>2, <1>3, <1>11, <1>12, <2>5, <2>7, <2>9, <2>11, <2>13, LevelBack
  <2>15. Sound(r, f, {}) /\ Kept(w, r)
    BY <1>2, <1>7, <2>5, <2>8, <2>14 DEF Sound, Kept
  <2>16. Clear(w) => Clear(r)
    BY <2>3, <2>5, <2>8 DEF Clear
  <2>17. Untouched(w.t, u, k)
    <3>1. DOMAIN u.dirty \cup {p} = DOMAIN w.t.dirty \cup {p} /\ u.spill \cup {p} = w.t.spill \cup {p}
      BY <1>7, <2>3, <2>5
    <3>2. \A q \in DOMAIN w.t.dirty : q # p => u.dirty[q] = w.t.dirty[q]
      BY <2>3, <2>5
    <3>3. u.root = [w.t.root EXCEPT ![k] = NoPage]
      BY <1>7, <2>5
    <3> QED BY <1>1, <1>2, <1>10, <2>5, <3>1, <3>2, <3>3, GoneUntouched
  <2>18. r.t.error = FALSE
    BY <1>8, <2>6, <2>8
  <2>19. r.t.root[k] = NoPage
    BY <1>6, <1>7, <2>5, <2>8
  <2> QED BY <2>8, <2>15, <2>16, <2>17, <2>18, <2>19 DEF Step
<1>14. CASE ~(w.pg.read /\ Len(txns) = 1 /\ found.at = 1)
  <2>1. PICK u : u = [s EXCEPT !.free = @ \cup {p}]
    OBVIOUS
  <2>2. r = [gone EXCEPT !.t = u]
    BY <1>4, <1>9, <1>14, <2>1 DEF Records
  <2>4. /\ u \in Txn /\ u.root = s.root /\ u.dirty = s.dirty /\ u.spill = s.spill
        /\ u.free = s.free \cup {p} /\ u.loose = s.loose /\ u.next = s.next /\ u.room = s.room /\ u.saved = s.saved
    BY <1>2, <1>7, <2>1 DEF Txn
  <2>5. u.error = s.error
    BY <1>7, <2>1 DEF Txn
  <2>6. r \in Records /\ r.t = u /\ r.below = w.below /\ r.map = w.map /\ r.pg = w.pg
    BY <1>9, <2>2, <2>4 DEF Records
  <2>8. SameLists(w.t, u)
    BY <1>7, <1>8, <2>4, <2>5 DEF SameLists
  <2>9. u.root = [w.t.root EXCEPT ![k] = NoPage] /\ u.free = w.t.free \cup {p}
    BY <1>7, <2>1, <2>4
  <2>10. Level(db, f, u, w.pg, {})
    BY <1>1, <1>2, <1>3, <1>11, <2>4, <2>8, <2>9, LevelFree, ZenonT(40)
  <2>11. Sound(r, f, {}) /\ Kept(w, r)
    BY <1>2, <1>7, <2>4, <2>6, <2>10 DEF Sound, Kept
  <2>12. u.dirty = w.t.dirty /\ u.spill = w.t.spill
    BY <1>7, <2>4
  <2>13. Clear(w) => Clear(r)
    BY <2>6, <2>12 DEF Clear
  <2>14. Untouched(w.t, u, k)
    BY <1>1, <1>2, <1>10, <2>4, <2>9, <2>12, GoneUntouched
  <2>15. r.t.error = FALSE
    BY <1>8, <2>5, <2>6
  <2>16. r.t.root[k] = NoPage
    BY <1>6, <1>7, <2>4, <2>6
  <2> QED BY <2>6, <2>11, <2>13, <2>14, <2>15, <2>16 DEF Step
<1> QED BY <1>12, <1>14

\* The value is stored.
LEMMA StoreSound ==
    ASSUME db \in DbType, NEW w, NEW f, Sound(w, f, {}), NEW k \in Keys, NEW v \in Values,
           NEW r, r = Store(w, k, v)
    PROVE  Step(w, r, f, k)
<1>1. /\ w \in Records /\ w.t \in Txn /\ w.t.dirty \in DirtyLists
      /\ f = Frame(db.root, w.below) /\ Level(db, f, w.t, w.pg, {})
  BY DEF Sound, Records, Txn
<1>2. CASE w.t.error
  <2>1. r = w
    BY <1>2 DEF Store
  <2> QED BY <2>1, StepNone
<1>3. CASE ~w.t.error
  <2>1. PICK q, e, u : /\ q = w.t.root[k] /\ e = [w.t.dirty EXCEPT ![q].val = v]
                       /\ u = [w.t EXCEPT !.dirty = e]
    OBVIOUS
  <2>2. r = [w EXCEPT !.t = u]
    <3>1. r = [w EXCEPT !.t.dirty[q].val = v]
      BY <1>3, <2>1 DEF Store
    <3> QED BY <1>1, <2>1, <3>1 DEF Records, Txn
  <2>3. DOMAIN w.t.dirty \subseteq Pages /\ \A p \in DOMAIN w.t.dirty : w.t.dirty[p] \in Page
    BY <1>1, DirtyList
  <2>4. PICK P : P = DOMAIN w.t.dirty
    OBVIOUS
  <2>5. /\ e = [p \in P |-> e[p]] /\ DOMAIN e = P /\ \A p \in P : p # q => e[p] = w.t.dirty[p]
        /\ q \in P => e[q] = [w.t.dirty[q] EXCEPT !.val = v]
    <3>1. PICK x : x = w.t.dirty
      OBVIOUS
    <3>2. e = [x EXCEPT ![q] = [x[q] EXCEPT !.val = v]] /\ DOMAIN x = P
      BY <2>1, <2>4, <3>1
    <3>3. x = [p \in P |-> x[p]]
      <4>1. x \in UNION {[Q -> Page] : Q \in SUBSET Pages}
        BY <1>1, <3>1 DEF DirtyLists
      <4> QED BY <3>2, <4>1
    <3> QED BY <3>1, <3>2, <3>3
  <2>6. \A p \in P : e[p] \in Page /\ e[p].keep = w.t.dirty[p].keep
    <3> SUFFICES ASSUME NEW p \in P PROVE e[p] \in Page /\ e[p].keep = w.t.dirty[p].keep
      OBVIOUS
    <3>1. w.t.dirty[p] \in Page
      BY <2>3, <2>4
    <3>2. CASE p # q
      BY <2>5, <3>1, <3>2
    <3>3. CASE p = q
      <4>1. e[p] = [w.t.dirty[p] EXCEPT !.val = v]
        BY <2>5, <3>3
      <4> QED BY <3>1, <4>1 DEF Page, Contents
    <3> QED BY <3>2, <3>3
  <2>7. e \in DirtyLists
    <3>1. P \in SUBSET Pages
      BY <2>3, <2>4
    <3>2. e = [p \in P |-> e[p]]
      BY <2>5
    <3>3. \A p \in P : e[p] \in Page
      BY <2>6
    <3> QED BY <3>1, <3>2, <3>3, IsDirtyList
  <2>8. /\ u \in Txn /\ u.root = w.t.root /\ u.dirty = e /\ u.spill = w.t.spill
        /\ u.free = w.t.free /\ u.loose = w.t.loose /\ u.next = w.t.next /\ u.room = w.t.room
        /\ u.saved = w.t.saved
    BY <1>1, <2>1, <2>7 DEF Txn
  <2>9. u.error = w.t.error
    BY <1>1, <2>1 DEF Txn
  <2>10. r \in Records /\ r.t = u /\ r.below = w.below /\ r.map = w.map /\ r.pg = w.pg
    BY <1>1, <2>2, <2>8 DEF Records
  <2>11. DOMAIN u.dirty = DOMAIN w.t.dirty
    BY <2>4, <2>5, <2>8
  <2>12. Level(db, f, u, w.pg, {})
    BY <1>1, <2>8, <2>9, <2>11, LevelSame
  <2>13. Sound(r, f, {}) /\ Kept(w, r)
    BY <1>1, <2>8, <2>10, <2>12 DEF Sound, Kept
  <2>14. Clear(w) => Clear(r)
    <3> SUFFICES ASSUME Clear(w) PROVE Clear(r)
      OBVIOUS
    <3>1. \A p \in P : w.t.dirty[p].keep = FALSE
      BY <2>4 DEF Clear
    <3>2. \A p \in P : e[p].keep = FALSE
      BY <2>6, <3>1
    <3>3. r.t.dirty = e /\ DOMAIN e = P /\ r.below = w.below
      BY <2>5, <2>8, <2>10
    <3>4. Unflagged(w.below)
      BY DEF Clear
    <3> QED BY <3>2, <3>3, <3>4 DEF Clear
  <2>15. Untouched(w.t, u, k)
    <3> SUFFICES ASSUME NEW j \in Keys, j # k
                 PROVE  /\ u.root[j] = w.t.root[j]
                        /\ w.t.root[j] # NoPage => SameAt(w.t, u, w.t.root[j])
      BY DEF Untouched
    <3>1. w.t.root[j] # NoPage => w.t.root[j] # q
      BY <1>1, <2>1 DEF Level, Placed
    <3> QED BY <2>4, <2>5, <2>8, <3>1 DEF SameAt
  <2> QED BY <2>10, <2>13, <2>14, <2>15 DEF Step
<1> QED BY <1>2, <1>3

\* A step and the value stored.
LEMMA ThenStore ==
    ASSUME db \in DbType, NEW w, NEW x, NEW f, NEW k \in Keys, NEW v \in Values,
           Step(w, x, f, k), NEW r, r = Store(x, k, v)
    PROVE  Step(w, r, f, k)
<1>1. Sound(x, f, {}) /\ x.t \in Txn
  BY DEF Step, Sound, Records
<1>2. Step(x, r, f, k)
  BY <1>1, StoreSound
<1>3. CASE x.t.error
  <2>1. r = x
    BY <1>3 DEF Store
  <2> QED BY <2>1
<1>4. CASE ~x.t.error
  <2>1. x.t.error = FALSE
    BY <1>1, <1>4 DEF Txn
  <2> QED BY <1>2, <2>1, StepTwice
<1> QED BY <1>3, <1>4

\* A large value over an old one.
LEMMA OverwriteSound ==
    ASSUME db \in DbType, NEW w, NEW f, Sound(w, f, {}), ~w.t.error, NEW k \in Keys,
           w.t.root[k] \in Pages, Len(w.below) + 1 = Len(txns), NEW v \in Values, NEW fits \in BOOLEAN,
           NEW r, r = OverwriteOverflow(w, k, v, fits)
    PROVE  Step(w, r, f, k)
<1>1. PICK p, found : p = w.t.root[k] /\ found = Lookup(w, p)
  OBVIOUS
<1>2. r = IF ~fits \/ found.at = 0 THEN Store(PageNew(OvpageFree(w, k), k), k, v)
          ELSE IF found.dirty
          THEN Store(IF found.at = Len(txns) THEN w ELSE CopyFromParent(w, p), k, v)
          ELSE IF w.t.room = 0 THEN w ELSE Store(Unspill(w, p), k, v)
  BY <1>1 DEF OverwriteOverflow
<1>3. CASE ~fits \/ found.at = 0
  <2>1. PICK x, y : x = OvpageFree(w, k) /\ y = PageNew(x, k)
    OBVIOUS
  <2>2. Step(w, x, f, k) /\ x.t.error = FALSE /\ x.t.root[k] = NoPage
    BY <2>1, OvpageFreeSound
  <2>3. Sound(x, f, {}) /\ ~x.t.error
    BY <2>2 DEF Step
  <2>4. Step(x, y, f, k)
    BY <2>1, <2>2, <2>3, PageNewSound
  <2>5. Step(w, y, f, k)
    BY <2>2, <2>4, StepTwice
  <2>6. r = Store(y, k, v)
    BY <1>2, <1>3, <2>1
  <2> QED BY <2>5, <2>6, ThenStore
<1>4. CASE ~(~fits \/ found.at = 0) /\ found.dirty
  <2>1. PICK x : x = IF found.at = Len(txns) THEN w ELSE CopyFromParent(w, p)
    OBVIOUS
  <2>2. r = Store(x, k, v)
    BY <1>2, <1>4, <2>1
  <2>3. Step(w, x, f, k)
    <3>1. CASE found.at = Len(txns)
      <4>1. x = w
        BY <2>1, <3>1
      <4> QED BY <4>1, StepNone
    <3>2. CASE found.at # Len(txns)
      <4>1. x = CopyFromParent(w, w.t.root[k])
        BY <1>1, <2>1, <3>2
      <4>2. Lookup(w, w.t.root[k]).dirty /\ Lookup(w, w.t.root[k]).at # Len(w.below) + 1
        BY <1>1, <1>4, <3>2
      <4> QED BY <4>1, <4>2, CopySound
    <3> QED BY <3>1, <3>2
  <2> QED BY <2>2, <2>3, ThenStore
<1>5. CASE ~(~fits \/ found.at = 0) /\ ~found.dirty /\ w.t.room = 0
  <2>1. r = w
    BY <1>2, <1>5
  <2> QED BY <2>1, StepNone
<1>6. CASE ~(~fits \/ found.at = 0) /\ ~found.dirty /\ w.t.room # 0
  <2>1. PICK x : x = Unspill(w, w.t.root[k])
    OBVIOUS
  <2>2. r = Store(x, k, v)
    BY <1>1, <1>2, <1>6, <2>1
  <2>3. ~Lookup(w, w.t.root[k]).dirty /\ Lookup(w, w.t.root[k]).at # 0
    BY <1>1, <1>6
  <2>4. Step(w, x, f, k)
    BY <1>6, <2>1, <2>3, UnspillSound
  <2> QED BY <2>2, <2>4, ThenStore
<1>7. found.dirty \/ ~found.dirty
  OBVIOUS
<1> QED BY <1>3, <1>4, <1>5, <1>6

-----------------------------------------------------------------------------
(* The stack of transactions. *)

\* Transactions that differ in the contents and flags of dirty pages only.
AlikeTxn(t, u) == /\ DOMAIN u.dirty = DOMAIN t.dirty
                  /\ \A q \in DOMAIN t.dirty : u.dirty[q].val = t.dirty[q].val
                  /\ u.root = t.root /\ u.spill = t.spill /\ u.free = t.free /\ u.loose = t.loose
                  /\ u.room = t.room /\ u.next = t.next /\ u.saved = t.saved /\ u.error = t.error
Alike(b, c) == Len(c) = Len(b) /\ \A i \in 1..Len(b) : AlikeTxn(b[i], c[i])

\* Flags do not matter to the frame.
LEMMA AlikeFrame ==
    ASSUME NEW root, NEW b \in Seq(Txn), NEW c \in Seq(Txn), Alike(b, c)
    PROVE  Frame(root, c) = Frame(root, b)
<1>1. PICK n : n = Len(b) /\ Len(c) = n
  BY DEF Alike
<1>2. \A i \in 1..n : /\ c[i].free = b[i].free /\ c[i].loose = b[i].loose /\ c[i].spill = b[i].spill
                      /\ c[i].root = b[i].root /\ DOMAIN c[i].dirty = DOMAIN b[i].dirty
                      /\ Listed(c[i]) = Listed(b[i])
  BY <1>1 DEF Alike, AlikeTxn, Listed
<1>3. n \in Nat
  BY <1>1
<1>4. PICK f, g : f = Frame(root, b) /\ g = Frame(root, c)
  OBVIOUS
<1>5. g.free = f.free /\ g.loose = f.loose /\ g.listed = f.listed /\ g.spilled = f.spilled
  BY <1>1, <1>2, <1>4 DEF Frame
<1>6. g.used = f.used
  BY <1>1, <1>2, <1>4 DEF Frame
<1>7. g.clean = f.clean
  <2> DEFINE C(x, p, j) == p \in UsedBy(x[j].root) /\ \A l \in 1..j : p \notin Listed(x[l])
  <2>1. \A p : p \in g.clean <=> p \in Pages /\ (p \in UsedBy(root) \/ \E j \in 1..n : C(c, p, j))
    BY <1>1, <1>4 DEF Frame
  <2>2. \A p : p \in f.clean <=> p \in Pages /\ (p \in UsedBy(root) \/ \E j \in 1..n : C(b, p, j))
    BY <1>1, <1>4 DEF Frame
  <2>3. ASSUME NEW p, NEW j \in 1..n PROVE C(c, p, j) <=> C(b, p, j)
    <3>1. \A l \in 1..j : l \in 1..n
      BY <1>3
    <3> QED BY <1>2, <3>1
  <2> HIDE DEF C
  <2>4. \A p : p \in g.clean <=> p \in f.clean
    BY <2>1, <2>2, <2>3
  <2> QED BY <2>4
<1>8. g.mem = f.mem
  <2> DEFINE M(x, p, j) == p \in DOMAIN x[j].dirty \ x[j].spill /\ \A l \in (j + 1)..n : p \notin Listed(x[l])
  <2>1. \A p : p \in g.mem <=> p \in Pages /\ \E j \in 1..n : M(c, p, j)
    BY <1>1, <1>4 DEF Frame, MemoryOf
  <2>2. \A p : p \in f.mem <=> p \in Pages /\ \E j \in 1..n : M(b, p, j)
    BY <1>1, <1>4 DEF Frame, MemoryOf
  <2>3. ASSUME NEW p, NEW j \in 1..n PROVE M(c, p, j) <=> M(b, p, j)
    <3>1. \A l \in (j + 1)..n : l \in 1..n
      BY <1>3
    <3> QED BY <1>2, <3>1
  <2> HIDE DEF M
  <2>4. \A p : p \in g.mem <=> p \in f.mem
    BY <2>1, <2>2, <2>3
  <2> QED BY <2>4
<1>9. /\ g = [free |-> g.free, loose |-> g.loose, mem |-> g.mem, listed |-> g.listed,
              spilled |-> g.spilled, used |-> g.used, clean |-> g.clean]
      /\ f = [free |-> f.free, loose |-> f.loose, mem |-> f.mem, listed |-> f.listed,
              spilled |-> f.spilled, used |-> f.used, clean |-> f.clean]
  BY <1>4 DEF Frame
<1> QED BY <1>4, <1>5, <1>6, <1>7, <1>8, <1>9

\* The invariant of a stack is that of the transactions below and of the last one.
LEMMA LevelsPush ==
    ASSUME NEW d, NEW b \in Seq(Txn), NEW t \in Txn, NEW pg
    PROVE  Levels(d, Append(b, t), pg) <=>
               Levels(d, b, t.saved) /\ Level(d, Frame(d.root, b), t, pg, {})
<1>1. PICK s, n : s = Append(b, t) /\ n = Len(b)
  OBVIOUS
<1>2. /\ Len(s) = n + 1 /\ n \in Nat /\ s[n + 1] = t /\ \A i \in 1..n : s[i] = b[i]
      /\ \A i \in 0..n : SubSeq(s, 1, i) = SubSeq(b, 1, i)
  BY <1>1, Longer
<1>3. SubSeq(b, 1, n) = b
  BY <1>1
<1>4. ASSUME NEW i \in 1..n
      PROVE  /\ SubSeq(s, 1, i - 1) = SubSeq(b, 1, i - 1) /\ s[i] = b[i]
             /\ PgAt(s, pg, i) = PgAt(b, t.saved, i)
  <2>1. i - 1 \in 0..n
    BY <1>2
  <2>2. PgAt(s, pg, i) = s[i + 1].saved
    BY <1>2 DEF PgAt
  <2>3. CASE i = n
    BY <1>1, <1>2, <2>2, <2>3 DEF PgAt
  <2>4. CASE i # n
    <3>1. i + 1 \in 1..n
      BY <1>2, <2>4
    <3> QED BY <1>1, <1>2, <2>2, <2>4, <3>1 DEF PgAt
  <2> QED BY <1>2, <2>1, <2>3, <2>4
<1>5. PgAt(s, pg, n + 1) = pg /\ SubSeq(s, 1, (n + 1) - 1) = b
  <2>1. (n + 1) - 1 = n /\ n \in 0..n
    BY <1>2
  <2> QED BY <1>2, <1>3, <2>1 DEF PgAt
<1>6. \A i \in 1..(n + 1) : i = n + 1 \/ i \in 1..n
  BY <1>2
<1>7. n + 1 \in 1..(n + 1) /\ \A i \in 1..n : i \in 1..(n + 1)
  BY <1>2
<1> DEFINE S(i) == Level(d, Frame(d.root, SubSeq(s, 1, i - 1)), s[i], PgAt(s, pg, i), {})
           B(i) == Level(d, Frame(d.root, SubSeq(b, 1, i - 1)), b[i], PgAt(b, t.saved, i), {})
<1>8. \A i \in 1..n : S(i) <=> B(i)
  BY <1>4
<1>9. S(n + 1) <=> Level(d, Frame(d.root, b), t, pg, {})
  BY <1>2, <1>5
<1>10. Levels(d, s, pg) <=> \A i \in 1..(n + 1) : S(i)
  BY <1>2 DEF Levels
<1>11. Levels(d, b, t.saved) <=> \A i \in 1..n : B(i)
  BY <1>1 DEF Levels
<1> HIDE DEF S, B
<1> QED BY <1>1, <1>6, <1>7, <1>8, <1>9, <1>10, <1>11

\* Flags do not matter to it.
LEMMA LevelsAlike ==
    ASSUME NEW d, NEW b \in Seq(Txn), NEW c \in Seq(Txn), NEW pg, Alike(b, c), Levels(d, b, pg)
    PROVE  Levels(d, c, pg)
<1> SUFFICES ASSUME NEW i \in 1..Len(c)
             PROVE  Level(d, Frame(d.root, SubSeq(c, 1, i - 1)), c[i], PgAt(c, pg, i), {})
  BY DEF Levels
<1>1. Len(c) = Len(b) /\ Len(b) \in Nat /\ \A j \in 1..Len(b) : AlikeTxn(b[j], c[j])
  BY DEF Alike
<1>2. Level(d, Frame(d.root, SubSeq(b, 1, i - 1)), b[i], PgAt(b, pg, i), {})
  BY <1>1 DEF Levels
<1>3. PICK x, y : x = SubSeq(b, 1, i - 1) /\ y = SubSeq(c, 1, i - 1)
  OBVIOUS
<1>4. /\ x \in Seq(Txn) /\ y \in Seq(Txn) /\ Len(x) = i - 1 /\ Len(y) = i - 1
      /\ \A j \in 1..(i - 1) : x[j] = b[j] /\ y[j] = c[j]
  BY <1>1, <1>3
<1>5. \A j \in 1..(i - 1) : j \in 1..Len(b)
  BY <1>1
<1>6. Alike(x, y)
  BY <1>1, <1>4, <1>5 DEF Alike
<1>7. Frame(d.root, y) = Frame(d.root, x)
  BY <1>4, <1>6, AlikeFrame
<1>8. PgAt(c, pg, i) = PgAt(b, pg, i)
  <2>1. i # Len(b) => i + 1 \in 1..Len(b)
    BY <1>1
  <2> QED BY <1>1, <2>1 DEF PgAt, AlikeTxn
<1>9. AlikeTxn(b[i], c[i])
  BY <1>1
<1>10. PICK f, g : f = Frame(d.root, x) /\ g = PgAt(b, pg, i)
  OBVIOUS
<1>11. Level(d, f, b[i], g, {})
  BY <1>2, <1>3, <1>10
<1>12. Level(d, f, c[i], g, {})
  BY <1>9, <1>11, LevelSame DEF AlikeTxn
<1> QED BY <1>3, <1>7, <1>8, <1>10, <1>12


\* The innermost transaction and those below it.
LEMMA TopSound ==
    ASSUME TypeInv, LevelInv, txns # <<>>
    PROVE  /\ Front(txns) \in Seq(Txn) /\ Top \in Txn /\ txns = Append(Front(txns), Top)
           /\ Len(Front(txns)) + 1 = Len(txns) /\ Len(Front(txns)) \in Nat
           /\ Level(db, Frame(db.root, Front(txns)), Top, pgstate, {})
           /\ Levels(db, Front(txns), Top.saved)
<1>1. txns \in Seq(Txn) /\ Len(txns) \in Nat /\ Len(txns) # 0
  BY DEF TypeInv
<1>2. PICK n : n = Len(txns)
  OBVIOUS
<1>3. PICK b : b = Front(txns)
  OBVIOUS
<1>4. b \in Seq(Txn) /\ Len(b) = n - 1 /\ \A i \in 1..(n - 1) : b[i] = txns[i]
  BY <1>1, <1>2, <1>3 DEF Front
<1>5. Top \in Txn
  BY <1>1 DEF Top
<1>6. txns = Append(b, Top)
  BY <1>1, <1>2, <1>4 DEF Top
<1>7. Levels(db, Append(b, Top), pgstate)
  BY <1>6 DEF LevelInv
<1>8. Levels(db, b, Top.saved) /\ Level(db, Frame(db.root, b), Top, pgstate, {})
  BY <1>4, <1>5, <1>7, LevelsPush
<1> QED BY <1>1, <1>2, <1>3, <1>4, <1>5, <1>6, <1>8

\* Flags do not matter to what mdb_page_get finds.
LEMMA GetAlike ==
    ASSUME NEW b \in Seq(Txn), NEW c \in Seq(Txn), Alike(b, c), NEW m, NEW n, NEW p,
           NEW g, g = PageGet(b, m, p), NEW h, h = PageGet(c, n, p)
    PROVE  /\ h.at = g.at /\ (h.dirty <=> g.dirty)
           /\ (g.dirty \/ n[p] = m[p]) => h.page.val = g.page.val
           /\ g.at # 0 /\ ~g.dirty => p \in b[g.at].spill
<1>1. PICK l : l = Len(b) /\ Len(c) = l
  BY DEF Alike
<1>2. \A i \in 1..l : /\ c[i].spill = b[i].spill /\ DOMAIN c[i].dirty = DOMAIN b[i].dirty
                      /\ \A q \in DOMAIN b[i].dirty : c[i].dirty[q].val = b[i].dirty[q].val
  BY <1>1 DEF Alike, AlikeTxn
<1>3. PICK H, at : /\ H = {i \in 1..Len(b) : p \in b[i].spill \cup DOMAIN b[i].dirty}
                   /\ at = IF H = {} THEN 0 ELSE Max(H)
  OBVIOUS
<1>4. H = {i \in 1..Len(c) : p \in c[i].spill \cup DOMAIN c[i].dirty}
  BY <1>1, <1>2, <1>3
<1>5. g = IF at = 0 \/ p \in b[at].spill
          THEN [at |-> at, dirty |-> FALSE, page |-> [val |-> m[p], keep |-> FALSE]]
          ELSE [at |-> at, dirty |-> TRUE, page |-> b[at].dirty[p]]
  BY <1>3 DEF PageGet
<1>6. h = IF at = 0 \/ p \in c[at].spill
          THEN [at |-> at, dirty |-> FALSE, page |-> [val |-> n[p], keep |-> FALSE]]
          ELSE [at |-> at, dirty |-> TRUE, page |-> c[at].dirty[p]]
  BY <1>3, <1>4 DEF PageGet
<1>7. at # 0 => at \in 1..l /\ p \in b[at].spill \cup DOMAIN b[at].dirty
  <2>1. Len(b) \in Nat /\ H \subseteq 0..Len(b)
    BY <1>3
  <2>2. H # {} => Max(H) \in H
    BY <2>1, MaxIsGreatest
  <2> QED BY <1>1, <1>3, <2>2
<1>8. CASE at = 0
  BY <1>5, <1>6, <1>8
<1>9. CASE at # 0 /\ p \in b[at].spill
  <2>1. p \in c[at].spill
    BY <1>2, <1>7, <1>9
  <2> QED BY <1>5, <1>6, <1>9, <2>1
<1>10. CASE at # 0 /\ p \notin b[at].spill
  <2>1. p \notin c[at].spill /\ c[at].dirty[p].val = b[at].dirty[p].val
    BY <1>2, <1>7, <1>10
  <2> QED BY <1>5, <1>6, <1>10, <2>1
<1> QED BY <1>8, <1>9, <1>10

\* The same lists are alike.
LEMMA AlikeSelf == ASSUME NEW b PROVE Alike(b, b)
BY DEF Alike, AlikeTxn

\* Flags in a dirty list.
LEMMA SetKeepIs ==
    ASSUME NEW d \in DirtyLists, NEW P, NEW b \in BOOLEAN, NEW e, e = SetKeep(d, P, b)
    PROVE  /\ e \in DirtyLists /\ DOMAIN e = DOMAIN d
           /\ \A q \in DOMAIN d : e[q].val = d[q].val
           /\ \A q \in DOMAIN d : e[q].keep = b \/ e[q].keep = d[q].keep
<1>1. DOMAIN d \subseteq Pages /\ \A q \in DOMAIN d : d[q] \in Page
  BY DirtyList
<1>2. e = [q \in DOMAIN d |-> IF q \in P THEN [d[q] EXCEPT !.keep = b] ELSE d[q]]
  BY DEF SetKeep
<1>3. \A q \in DOMAIN d : /\ e[q] \in Page /\ e[q].val = d[q].val
                          /\ e[q].keep = b \/ e[q].keep = d[q].keep
  BY <1>1, <1>2 DEF Page
<1>4. DOMAIN e = DOMAIN d /\ e = [q \in DOMAIN d |-> e[q]]
  BY <1>2
<1>5. e \in DirtyLists
  BY <1>1, <1>3, <1>4, IsDirtyList
<1> QED BY <1>3, <1>4, <1>5

\* A transaction with other flags.
LEMMA FlaggedTxn ==
    ASSUME NEW t \in Txn, NEW e \in DirtyLists, DOMAIN e = DOMAIN t.dirty,
           \A q \in DOMAIN t.dirty : e[q].val = t.dirty[q].val, NEW u, u = [t EXCEPT !.dirty = e]
    PROVE  u \in Txn /\ AlikeTxn(t, u) /\ u.dirty = e
<1>1. /\ u \in Txn /\ u.dirty = e /\ u.root = t.root /\ u.spill = t.spill /\ u.free = t.free
      /\ u.loose = t.loose /\ u.room = t.room /\ u.next = t.next /\ u.saved = t.saved
  BY DEF Txn
<1>2. u.error = t.error
  BY DEF Txn
<1> QED BY <1>1, <1>2 DEF AlikeTxn

\* mdb_pages_xkeep changes flags only.
LEMMA XKeepAlike ==
    ASSUME TypeInv, NEW P, NEW b \in BOOLEAN, NEW c, c = XKeep(P, b)
    PROVE  /\ c \in Seq(Txn) /\ Alike(txns, c)
           /\ b = FALSE /\ Unflagged(txns) => Unflagged(c)
<1>1. PICK S : c = [i \in 1..Len(txns) |-> [txns[i] EXCEPT !.dirty = SetKeep(@, S[i], b)]]
  <2>1. PICK at : at = [p \in P |-> PageGet(txns, map, p).at]
    OBVIOUS
  <2>2. PICK S : S = [i \in 1..Len(txns) |-> {p \in P : at[p] = i}]
    OBVIOUS
  <2>3. c = [i \in 1..Len(txns) |-> [txns[i] EXCEPT !.dirty = SetKeep(@, {p \in P : at[p] = i}, b)]]
    BY <2>1 DEF XKeep
  <2>4. \A i \in 1..Len(txns) : S[i] = {p \in P : at[p] = i}
    BY <2>2
  <2>5. c = [i \in 1..Len(txns) |-> [txns[i] EXCEPT !.dirty = SetKeep(@, S[i], b)]]
    BY <2>3, <2>4, Zenon
  <2> QED BY <2>5
<1>2. txns \in Seq(Txn)
  BY DEF TypeInv
<1>3. ASSUME NEW i \in 1..Len(txns)
      PROVE  /\ c[i] \in Txn /\ AlikeTxn(txns[i], c[i])
             /\ \A q \in DOMAIN txns[i].dirty : c[i].dirty[q].keep = b \/ c[i].dirty[q].keep = txns[i].dirty[q].keep
             /\ DOMAIN c[i].dirty = DOMAIN txns[i].dirty
  <2>1. PICK t, e, u : t = txns[i] /\ e = SetKeep(t.dirty, S[i], b) /\ u = [t EXCEPT !.dirty = e]
    OBVIOUS
  <2>2. t \in Txn /\ t.dirty \in DirtyLists
    <3>1. t \in Txn
      BY <1>2, <2>1
    <3> QED BY <3>1 DEF Txn
  <2>3. /\ e \in DirtyLists /\ DOMAIN e = DOMAIN t.dirty
        /\ \A q \in DOMAIN t.dirty : e[q].val = t.dirty[q].val
        /\ \A q \in DOMAIN t.dirty : e[q].keep = b \/ e[q].keep = t.dirty[q].keep
    BY <2>1, <2>2, SetKeepIs
  <2>4. u \in Txn /\ AlikeTxn(t, u) /\ u.dirty = e
    BY <2>1, <2>2, <2>3, FlaggedTxn
  <2>5. c[i] = u
    BY <1>1, <2>1
  <2> QED BY <2>1, <2>3, <2>4, <2>5
<1>4. c \in Seq(Txn) /\ Len(c) = Len(txns)
  BY <1>1, <1>2, <1>3
<1>5. Alike(txns, c)
  BY <1>3, <1>4 DEF Alike
<1>6. ASSUME b = FALSE, Unflagged(txns) PROVE Unflagged(c)
  BY <1>3, <1>4, <1>6 DEF Unflagged
<1> QED BY <1>4, <1>5, <1>6

\* The transactions before the last of two stacks that are alike.
LEMMA FrontAlike ==
    ASSUME NEW b \in Seq(Txn), NEW c \in Seq(Txn), Alike(b, c), b # <<>>
    PROVE  /\ Front(c) \in Seq(Txn) /\ Alike(Front(b), Front(c)) /\ Last(c) \in Txn
           /\ AlikeTxn(Last(b), Last(c))
<1>1. PICK n : n = Len(b) /\ Len(c) = n
  BY DEF Alike
<1>2. n \in Nat /\ n # 0
  BY <1>1
<1>3. PICK x, y : x = Front(b) /\ y = Front(c)
  OBVIOUS
<1>4. /\ x \in Seq(Txn) /\ Len(x) = n - 1 /\ \A i \in 1..(n - 1) : x[i] = b[i]
      /\ y \in Seq(Txn) /\ Len(y) = n - 1 /\ \A i \in 1..(n - 1) : y[i] = c[i]
  BY <1>1, <1>2, <1>3 DEF Front
<1>5. \A i \in 1..(n - 1) : i \in 1..n
  BY <1>2
<1>6. Alike(x, y)
  BY <1>1, <1>4, <1>5 DEF Alike
<1>7. Last(b) = b[n] /\ Last(c) = c[n] /\ n \in 1..n
  BY <1>1, <1>2 DEF Last
<1>8. Last(c) \in Txn
  BY <1>1, <1>7
<1> QED BY <1>1, <1>3, <1>4, <1>6, <1>7, <1>8 DEF Alike

\* What an operation starts from: the transactions with other flags, some dirty
\* pages moved to the map, and the same content of every page.
Started(w, f) ==
    /\ Sound(w, f, {}) /\ w.t.saved = Top.saved /\ w.t.root = Top.root
    /\ Alike(Front(txns), w.below)
    /\ KeepInv => Clear(w)
    /\ \A q \in Pages : w.map[q] # map[q] => q \in Listed(Top) /\ q \notin f.spilled
    /\ \A q \in Pages : Lookup(w, q).page.val = PageGet(txns, map, q).page.val

\* No page is flagged when no transaction has failed.
LEMMA KeepUnflagged ==
    ASSUME TypeInv, LevelInv, ErrorInv, CanWrite, KeepInv
    PROVE  /\ Unflagged(txns) /\ Unflagged(Front(txns))
           /\ \A q \in DOMAIN Top.dirty : Top.dirty[q].keep = FALSE
<1>1. /\ Front(txns) \in Seq(Txn) /\ txns = Append(Front(txns), Top)
      /\ Len(Front(txns)) + 1 = Len(txns) /\ Len(Front(txns)) \in Nat
  BY TopSound DEF CanWrite
<1>2. PICK n : n = Len(txns)
  OBVIOUS
<1>3. n \in Nat /\ n # 0
  BY <1>1, <1>2
<1>4. \A i \in 1..n : i \in 1..(n - 1) \/ i = n
  BY <1>3
<1>5. ~txns[n].error
  BY <1>2 DEF CanWrite, Top
<1>6. \A i \in 1..n : ~txns[i].error
  BY <1>2, <1>4, <1>5 DEF ErrorInv
<1>7. Unflagged(txns)
  BY <1>2, <1>6 DEF KeepInv, Unflagged
<1>8. Unflagged(Front(txns))
  <2>1. \A i \in 1..Len(Front(txns)) : Front(txns)[i] = txns[i] /\ i \in 1..Len(txns)
    BY <1>1 DEF Front
  <2> QED BY <1>7, <2>1 DEF Unflagged
<1>9. \A q \in DOMAIN Top.dirty : Top.dirty[q].keep = FALSE
  <2>1. n \in 1..n
    BY <1>3
  <2> QED BY <1>2, <1>7, <2>1 DEF Unflagged, Top
<1> QED BY <1>7, <1>8, <1>9

\* An operation that has room enough.
LEMMA WorkingStarted ==
    ASSUME TypeInv, LevelInv, ErrorInv, CanWrite, NEW f, f = Frame(db.root, Front(txns))
    PROVE  /\ Started(Working, f) /\ ~Working.t.error
           /\ Working.below = Front(txns) /\ Working.t = Top /\ Working.map = map /\ Working.pg = pgstate
<1>1. /\ Front(txns) \in Seq(Txn) /\ Top \in Txn /\ txns = Append(Front(txns), Top)
      /\ Level(db, f, Top, pgstate, {})
  BY TopSound DEF CanWrite
<1>2. PICK w : w = Working
  OBVIOUS
<1>3. w.below = Front(txns) /\ w.t = Top /\ w.map = map /\ w.pg = pgstate
  BY <1>2 DEF Working
<1>4. w \in Records
  BY <1>1, <1>2 DEF Working, Records, TypeInv
<1>5. Sound(w, f, {})
  BY <1>1, <1>3, <1>4 DEF Sound
<1>6. Alike(Front(txns), w.below)
  BY <1>3, AlikeSelf
<1>7. KeepInv => Clear(w)
  BY <1>3, KeepUnflagged DEF Clear
<1>8. \A q \in Pages : Lookup(w, q) = PageGet(txns, map, q)
  BY <1>1, <1>3 DEF Lookup, Stack
<1>9. Started(w, f)
  BY <1>3, <1>5, <1>6, <1>7, <1>8 DEF Started
<1>10. ~Top.error
  BY DEF CanWrite
<1> QED BY <1>2, <1>3, <1>9, <1>10

\* The pages that are spilled.
LEMMA OutIs ==
    ASSUME TypeInv, LevelInv, CanWrite, NEW f, f = Frame(db.root, Front(txns)),
           NEW kept, NEW out, out = FromTail(Spillable(kept))
    PROVE  out \subseteq DOMAIN Top.dirty /\ out \cap Range(Top.loose) = {} /\ out \cap f.spilled = {}
<1>1. /\ Front(txns) \in Seq(Txn) /\ Top \in Txn /\ Len(Front(txns)) + 1 = Len(txns)
      /\ Len(Front(txns)) \in Nat
  BY TopSound DEF CanWrite
<1>2. out \subseteq Spillable(kept)
  BY DEF FromTail
<1>3. out \subseteq DOMAIN Top.dirty /\ out \cap Range(Top.loose) = {}
  BY <1>2 DEF Spillable
<1>4. \A p \in out : ~SpilledByAncestor(p)
  BY <1>2 DEF Spillable
<1>5. ASSUME NEW p \in f.spilled PROVE SpilledByAncestor(p)
  <2>1. PICK j \in 1..Len(Front(txns)) : p \in Front(txns)[j].spill
    BY DEF Frame
  <2>2. j \in 1..(Len(txns) - 1)
    BY <1>1
  <2>3. Front(txns)[j] = txns[j]
    BY <1>1 DEF Front
  <2> QED BY <2>1, <2>2, <2>3 DEF SpilledByAncestor
<1> QED BY <1>3, <1>4, <1>5

\* A transaction after the pages out are spilled.
SpilledTxn(t, u, out) ==
    /\ DOMAIN u.dirty = DOMAIN t.dirty \ out
    /\ \A q \in DOMAIN u.dirty : u.dirty[q].val = t.dirty[q].val
    /\ \A q \in DOMAIN u.dirty : u.dirty[q].keep = FALSE \/ u.dirty[q].keep = t.dirty[q].keep
    /\ u.spill = t.spill \cup out /\ u.room = t.room + Cardinality(out)
    /\ u.root = t.root /\ u.free = t.free /\ u.loose = t.loose
    /\ u.next = t.next /\ u.saved = t.saved /\ u.error = t.error

\* The record after a spill.
LEMMA SpillIs ==
    ASSUME TypeInv, LevelInv, CanWrite, NEW K, NEW kept, kept = LeafPages(K),
           NEW out, out = FromTail(Spillable(kept)), NEW w, w = Spill(K)
    PROVE  /\ w \in Records /\ w.below = Front(XKeep(kept, FALSE)) /\ w.pg = pgstate
           /\ w.map = Flushed(Top.dirty, out)
           /\ SpilledTxn(Top, w.t, out)
<1>1. Top \in Txn /\ txns # <<>> /\ Top.dirty \in DirtyLists /\ Front(txns) \in Seq(Txn)
  <2>1. Top \in Txn /\ txns # <<>> /\ Front(txns) \in Seq(Txn)
    BY TopSound DEF CanWrite
  <2> QED BY <2>1 DEF Txn
<1>2. PICK b, e, d, m : /\ b = Front(XKeep(kept, FALSE))
                        /\ e = SetKeep(Top.dirty, Walked(out) \cup kept, FALSE)
                        /\ d = Restrict(e, DOMAIN e \ out)
                        /\ m = Flushed(Top.dirty, out)
  OBVIOUS
<1>3. /\ e \in DirtyLists /\ DOMAIN e = DOMAIN Top.dirty
      /\ \A q \in DOMAIN Top.dirty : e[q].val = Top.dirty[q].val
      /\ \A q \in DOMAIN Top.dirty : e[q].keep = FALSE \/ e[q].keep = Top.dirty[q].keep
  <2>1. PICK no, W, t : no = FALSE /\ W = Walked(out) \cup kept /\ t = Top.dirty
    OBVIOUS
  <2>2. no \in BOOLEAN /\ t \in DirtyLists /\ e = SetKeep(t, W, no)
    BY <1>1, <1>2, <2>1
  <2>3. /\ e \in DirtyLists /\ DOMAIN e = DOMAIN t
        /\ \A q \in DOMAIN t : e[q].val = t[q].val
        /\ \A q \in DOMAIN t : e[q].keep = no \/ e[q].keep = t[q].keep
    BY <2>2, SetKeepIs
  <2> QED BY <2>1, <2>3
<1>4. PICK P : P = DOMAIN e \ out
  OBVIOUS
<1>5. d = [q \in P |-> e[q]]
  BY <1>2, <1>4 DEF Restrict
<1>6. d \in DirtyLists /\ DOMAIN d = P
  <2>1. DOMAIN e \subseteq Pages /\ \A q \in DOMAIN e : e[q] \in Page
    BY <1>3, DirtyList
  <2>2. P \in SUBSET Pages /\ d = [q \in P |-> d[q]] /\ \A q \in P : d[q] \in Page
    BY <1>4, <1>5, <2>1
  <2> QED BY <1>5, <2>2, IsDirtyList
<1>7. out \subseteq DOMAIN Top.dirty
  BY OutIs
<1>8. b \in Seq(Txn)
  <2>1. XKeep(kept, FALSE) \in Seq(Txn) /\ Alike(txns, XKeep(kept, FALSE))
    BY XKeepAlike
  <2> QED BY <1>1, <1>2, <2>1, FrontAlike DEF TypeInv
<1>9. m \in [Pages -> Contents]
  <2>1. DOMAIN Top.dirty \subseteq Pages /\ \A q \in DOMAIN Top.dirty : Top.dirty[q] \in Page
    BY <1>1, DirtyList
  <2>2. \A q \in out : Top.dirty[q].val \in Contents
    BY <1>7, <2>1 DEF Page
  <2>3. map \in [Pages -> Contents]
    BY DEF TypeInv
  <2> QED BY <1>2, <2>2, <2>3 DEF Flushed
<1>10. PICK c : c = Cardinality(out)
  OBVIOUS
<1>11. c \in Nat /\ out \subseteq Pages
  <2>1. DOMAIN Top.dirty \subseteq Pages
    BY <1>1, DirtyList
  <2>2. IsFiniteSet(out)
    BY <1>7, <2>1, PagesFinite, FS_Subset
  <2> QED BY <1>7, <1>10, <2>1, <2>2, FS_CardinalityType
<1>12. PICK u : u = [Top EXCEPT !.dirty = d, !.spill = Top.spill \cup out, !.room = Top.room + c, !.spills = TRUE]
  OBVIOUS
<1>13. /\ u \in Txn /\ u.dirty = d /\ u.spill = Top.spill \cup out /\ u.room = Top.room + c
       /\ u.root = Top.root /\ u.free = Top.free /\ u.loose = Top.loose
       /\ u.next = Top.next /\ u.saved = Top.saved
  <2>1. Top.spill \cup out \in SUBSET Pages /\ Top.room + c \in Nat
    BY <1>1, <1>11 DEF Txn
  <2>2. PICK S, n : S = Top.spill \cup out /\ n = Top.room + c
    OBVIOUS
  <2>3. u = [Top EXCEPT !.dirty = d, !.spill = S, !.room = n, !.spills = TRUE]
    BY <1>12, <2>2
  <2>4. /\ u \in Txn /\ u.dirty = d /\ u.spill = S /\ u.room = n
        /\ u.root = Top.root /\ u.free = Top.free /\ u.loose = Top.loose
        /\ u.next = Top.next /\ u.saved = Top.saved
    BY <1>1, <1>6, <2>1, <2>2, <2>3 DEF Txn
  <2> QED BY <2>2, <2>4
<1>14. u.error = Top.error
  BY <1>1, <1>12 DEF Txn
<1>15. Working = [below |-> Front(txns), t |-> Top, map |-> map, pg |-> pgstate, np |-> NoPage]
  BY DEF Working
<1>16. w = [Working EXCEPT !.below = b, !.t.dirty = d, !.t.spill = @ \cup out, !.t.room = @ + c,
                           !.t.spills = TRUE, !.map = m]
  BY <1>2, <1>10 DEF Spill
<1>17. w = [below |-> b, t |-> u, map |-> m, pg |-> pgstate, np |-> NoPage]
  <2>1. PICK t : t = Top
    OBVIOUS
  <2>2. PICK f, n, g : f = Front(txns) /\ n = map /\ g = pgstate
    OBVIOUS
  <2>3. t \in Txn
    BY <1>1, <2>1
  <2>4. w = [[below |-> f, t |-> t, map |-> n, pg |-> g, np |-> NoPage]
               EXCEPT !.below = b, !.t.dirty = d, !.t.spill = @ \cup out, !.t.room = @ + c,
                           !.t.spills = TRUE, !.map = m]
    BY <1>15, <1>16, <2>1, <2>2, Zenon
  <2>5. u = [t EXCEPT !.dirty = d, !.spill = t.spill \cup out, !.room = t.room + c, !.spills = TRUE]
    BY <1>12, <2>1
  <2>6. w = [below |-> b, t |-> u, map |-> m, pg |-> g, np |-> NoPage]
    BY <2>3, <2>4, <2>5, ZenonT(40) DEF Txn
  <2> QED BY <2>2, <2>6
<1>18. pgstate \in PgStates
  BY DEF TypeInv
<1>19. /\ w \in Records /\ w.below = b /\ w.t = u /\ w.map = m /\ w.pg = pgstate
  BY <1>8, <1>9, <1>13, <1>17, <1>18 DEF Records
<1>20. DOMAIN d = DOMAIN Top.dirty \ out /\ \A q \in DOMAIN d : d[q] = e[q] /\ q \in DOMAIN Top.dirty
  BY <1>3, <1>4, <1>5
<1>21. SpilledTxn(Top, u, out)
  <2>1. /\ \A q \in DOMAIN u.dirty : u.dirty[q].val = Top.dirty[q].val
        /\ DOMAIN u.dirty = DOMAIN Top.dirty \ out
    BY <1>3, <1>13, <1>20
  <2>2. \A q \in DOMAIN u.dirty : u.dirty[q].keep = FALSE \/ u.dirty[q].keep = Top.dirty[q].keep
    BY <1>3, <1>13, <1>20
  <2> QED BY <1>10, <1>13, <1>14, <2>1, <2>2 DEF SpilledTxn
<1> QED BY <1>2, <1>19, <1>21

\* Pages are moved to the map and stay what they are.
LEMMA SpillStarted ==
    ASSUME TypeInv, LevelInv, ErrorInv, CanWrite, db \in DbType, NEW f, f = Frame(db.root, Front(txns)),
           NEW K, NEW w, w = Spill(K)
    PROVE  Started(w, f) /\ ~w.t.error
<1>1. /\ Front(txns) \in Seq(Txn) /\ Top \in Txn /\ txns = Append(Front(txns), Top)
      /\ Level(db, f, Top, pgstate, {})
  BY TopSound DEF CanWrite
<1>2. PICK kept, out, c : kept = LeafPages(K) /\ out = FromTail(Spillable(kept)) /\ c = XKeep(kept, FALSE)
  OBVIOUS
<1>3. /\ w \in Records /\ w.below = Front(c) /\ w.pg = pgstate
      /\ w.map = Flushed(Top.dirty, out) /\ SpilledTxn(Top, w.t, out)
  BY <1>2, SpillIs
<1>4. /\ DOMAIN w.t.dirty = DOMAIN Top.dirty \ out
      /\ \A q \in DOMAIN w.t.dirty : w.t.dirty[q].val = Top.dirty[q].val
      /\ w.t.spill = Top.spill \cup out /\ w.t.room = Top.room + Cardinality(out)
      /\ w.t.root = Top.root /\ w.t.free = Top.free /\ w.t.loose = Top.loose
      /\ w.t.next = Top.next /\ w.t.saved = Top.saved
  BY <1>3 DEF SpilledTxn
<1>18. w.t.error = Top.error
  BY <1>3 DEF SpilledTxn
<1>19. \A q \in DOMAIN w.t.dirty : w.t.dirty[q].keep = FALSE \/ w.t.dirty[q].keep = Top.dirty[q].keep
  BY <1>3 DEF SpilledTxn
<1>5. c \in Seq(Txn) /\ Alike(txns, c) /\ (Unflagged(txns) => Unflagged(c))
  BY <1>2, XKeepAlike
<1>6. txns \in Seq(Txn) /\ txns # <<>> /\ ~Top.error /\ map \in [Pages -> Contents] /\ pgstate \in PgStates
  BY DEF TypeInv, CanWrite
<1>7. w.below \in Seq(Txn) /\ Alike(Front(txns), w.below)
  BY <1>3, <1>5, <1>6, FrontAlike
<1>8. out \subseteq DOMAIN Top.dirty /\ out \cap Range(Top.loose) = {} /\ out \cap f.spilled = {}
  BY <1>2, OutIs
<1>9. f \in Frames
  BY <1>1, FrameType
<1>10. w.t \in Txn
  BY <1>3 DEF Records
<1>11. Level(db, f, w.t, pgstate, {})
  BY <1>1, <1>4, <1>6, <1>8, <1>9, <1>10, <1>18, LevelSpill
<1>12. f = Frame(db.root, w.below)
  BY <1>1, <1>7, AlikeFrame
<1>13. Sound(w, f, {})
  BY <1>3, <1>11, <1>12 DEF Sound
<1>14. ASSUME KeepInv PROVE Clear(w)
  <2>1. Unflagged(txns) /\ \A q \in DOMAIN Top.dirty : Top.dirty[q].keep = FALSE
    BY <1>14, KeepUnflagged
  <2>2. Unflagged(c)
    BY <1>5, <2>1
  <2>3. Unflagged(w.below)
    <3>1. Len(c) \in Nat /\ Len(c) # 0
      BY <1>5, <1>6 DEF Alike
    <3>2. \A i \in 1..Len(w.below) : i \in 1..Len(c) /\ w.below[i] = c[i]
      BY <1>3, <1>5, <3>1 DEF Front
    <3> QED BY <2>2, <3>2 DEF Unflagged
  <2>4. \A q \in DOMAIN w.t.dirty : w.t.dirty[q].keep = FALSE
    BY <1>4, <1>19, <2>1
  <2> QED BY <2>3, <2>4 DEF Clear
<1>15. \A q \in Pages : w.map[q] = IF q \in out THEN Top.dirty[q].val ELSE map[q]
  BY <1>3 DEF Flushed
<1>16. \A q \in Pages : w.map[q] # map[q] => q \in Listed(Top) /\ q \notin f.spilled
  BY <1>8, <1>15 DEF Listed
<1>17. ASSUME NEW q \in Pages
       PROVE  Lookup(w, q).page.val = PageGet(txns, map, q).page.val
  <2>1. PICK g, h, x, y : /\ g = PageGet(txns, map, q) /\ h = PageGet(Front(txns), map, q)
                          /\ x = Lookup(w, q) /\ y = PageGet(w.below, w.map, q)
    OBVIOUS
  <2>2. PICK n, l : n = Len(Front(txns)) + 1 /\ l = Len(w.below) + 1
    OBVIOUS
  <2>3. g = IF q \in Top.spill
            THEN [at |-> n, dirty |-> FALSE, page |-> [val |-> map[q], keep |-> FALSE]]
            ELSE IF q \in DOMAIN Top.dirty
            THEN [at |-> n, dirty |-> TRUE, page |-> Top.dirty[q]]
            ELSE h
    <3>1. g = PageGet(Append(Front(txns), Top), map, q)
      BY <1>1, <2>1
    <3> QED BY <1>1, <2>1, <2>2, <3>1, GetTop
  <2>4. x = IF q \in w.t.spill
            THEN [at |-> l, dirty |-> FALSE, page |-> [val |-> w.map[q], keep |-> FALSE]]
            ELSE IF q \in DOMAIN w.t.dirty
            THEN [at |-> l, dirty |-> TRUE, page |-> w.t.dirty[q]]
            ELSE y
    <3>1. x = PageGet(Append(w.below, w.t), w.map, q)
      BY <2>1 DEF Lookup, Stack
    <3>2. PICK b, t, m : b = w.below /\ t = w.t /\ m = w.map
      OBVIOUS
    <3>3. b \in Seq(Txn) /\ t \in Txn /\ x = PageGet(Append(b, t), m, q) /\ y = PageGet(b, m, q)
      BY <1>7, <1>10, <2>1, <3>1, <3>2
    <3>4. x = IF q \in t.spill
              THEN [at |-> Len(b) + 1, dirty |-> FALSE, page |-> [val |-> m[q], keep |-> FALSE]]
              ELSE IF q \in DOMAIN t.dirty
              THEN [at |-> Len(b) + 1, dirty |-> TRUE, page |-> t.dirty[q]]
              ELSE y
      BY <3>3, GetTop
    <3> QED BY <2>2, <3>2, <3>4
  <2>5. w.map[q] = map[q] => y.page.val = h.page.val
    BY <1>1, <1>7, <2>1, GetAlike
  <2>6. ListsOK(f, Top)
    BY <1>1, <1>6 DEF Level
  <2>7. DOMAIN Top.dirty \cap Top.spill = {}
    BY <2>6 DEF ListsOK
  <2>8. CASE q \in out
    <3>1. x.page.val = Top.dirty[q].val
      BY <1>4, <1>15, <2>4, <2>8
    <3>2. g.page = Top.dirty[q]
      BY <1>8, <2>3, <2>7, <2>8
    <3> QED BY <2>1, <3>1, <3>2
  <2>9. CASE q \notin out /\ q \in Top.spill
    <3>1. x.page.val = map[q]
      BY <1>4, <1>15, <2>4, <2>9
    <3>2. g.page.val = map[q]
      BY <2>3, <2>9
    <3> QED BY <2>1, <3>1, <3>2
  <2>10. CASE q \notin out /\ q \notin Top.spill /\ q \in DOMAIN Top.dirty
    <3>1. x.page = w.t.dirty[q] /\ w.t.dirty[q].val = Top.dirty[q].val
      BY <1>4, <2>4, <2>10
    <3>2. g.page = Top.dirty[q]
      BY <2>3, <2>10
    <3> QED BY <2>1, <3>1, <3>2
  <2>11. CASE q \notin out /\ q \notin Listed(Top)
    <3>1. x = y /\ g = h
      BY <1>4, <2>3, <2>4, <2>11 DEF Listed
    <3> QED BY <1>15, <2>1, <2>5, <2>11, <3>1
  <2> QED BY <2>8, <2>9, <2>10, <2>11 DEF Listed
<1>20. Started(w, f)
  BY <1>4, <1>7, <1>13, <1>14, <1>16, <1>17 DEF Started
<1> QED BY <1>6, <1>18, <1>20

\* What every operation starts from.
LEMMA AfterSpillStarted ==
    ASSUME TypeInv, LevelInv, ErrorInv, CanWrite, db \in DbType, NEW f, f = Frame(db.root, Front(txns)),
           NEW K, NEW w \in AfterSpill(K)
    PROVE  Started(w, f) /\ ~w.t.error /\ Len(w.below) + 1 = Len(txns)
<1>1. CASE Top.room > Need
  <2>1. w = Working
    BY <1>1 DEF AfterSpill
  <2> QED BY <2>1, WorkingStarted, TopSound DEF CanWrite
<1>2. CASE ~(Top.room > Need)
  <2>1. PICK C \in SUBSET Leaves : w = Spill(K \cup C)
    BY <1>2 DEF AfterSpill
  <2>2. Started(w, f) /\ ~w.t.error
    BY <2>1, SpillStarted
  <2>3. Len(w.below) = Len(Front(txns))
    BY <2>2 DEF Started, Alike
  <2> QED BY <2>2, <2>3, TopSound DEF CanWrite
<1> QED BY <1>1, <1>2

-----------------------------------------------------------------------------
(* The actions keep the invariant. *)

\* The end of every operation.
LEMMA FinishSound ==
    ASSUME IInv, CanWrite, NEW r, NEW f, f = Frame(db.root, Front(txns)), Sound(r, f, {}),
           Alike(Front(txns), r.below), r.t.saved = Top.saved, Finish(r)
    PROVE  /\ IInv' /\ (Clear(r) => KeepInv')
           /\ r.below \in Seq(Txn) /\ Len(r.below) = Len(Front(txns))
           /\ \E u \in Txn : /\ txns' = Append(r.below, u) /\ AlikeTxn(r.t, u) /\ u.dirty = r.t.dirty
                             /\ map' = r.map /\ db' = db
<1>1. /\ TypeInv /\ LevelInv /\ DbInv /\ ErrorInv
      /\ Front(txns) \in Seq(Txn) /\ Top \in Txn /\ txns = Append(Front(txns), Top)
      /\ Len(Front(txns)) + 1 = Len(txns) /\ Len(Front(txns)) \in Nat
      /\ Levels(db, Front(txns), Top.saved)
  BY TopSound DEF IInv, CanWrite
<1>2. /\ r \in Records /\ r.below \in Seq(Txn) /\ r.t \in Txn /\ r.map \in [Pages -> Contents]
      /\ r.pg \in PgStates /\ Level(db, f, r.t, r.pg, {})
  BY DEF Sound, Records
<1>3. PICK u : u = [r.t EXCEPT !.wrote = TRUE]
  OBVIOUS
<1>4. /\ u \in Txn /\ u.dirty = r.t.dirty /\ u.root = r.t.root /\ u.spill = r.t.spill /\ u.free = r.t.free
      /\ u.loose = r.t.loose /\ u.room = r.t.room /\ u.next = r.t.next /\ u.saved = r.t.saved
  BY <1>2, <1>3 DEF Txn
<1>5. u.error = r.t.error
  BY <1>2, <1>3 DEF Txn
<1>6. /\ txns' = Append(r.below, u) /\ map' = r.map /\ pgstate' = r.pg /\ ops' = ops + 1 /\ db' = db
  BY <1>3 DEF Finish
<1>7. AlikeTxn(r.t, u)
  BY <1>4, <1>5 DEF AlikeTxn
<1>8. Levels(db, r.below, Top.saved)
  BY <1>1, <1>2, LevelsAlike
<1>9. Frame(db.root, r.below) = f
  BY DEF Sound
<1>10. Level(db, f, u, r.pg, {})
  BY <1>2, <1>4, <1>5, LevelSame
<1>11. Levels(db, Append(r.below, u), r.pg)
  BY <1>2, <1>4, <1>8, <1>9, <1>10, LevelsPush
<1>12. LevelInv'
  BY <1>6, <1>11 DEF LevelInv
<1>13. PICK s, n : s = Append(r.below, u) /\ n = Len(r.below)
  OBVIOUS
<1>14. /\ s \in Seq(Txn) /\ Len(s) = n + 1 /\ n \in Nat /\ s[n + 1] = u /\ s # <<>>
       /\ \A i \in 1..n : s[i] = r.below[i]
  BY <1>2, <1>4, <1>13, Longer
<1>15. n = Len(Front(txns)) /\ \A i \in 1..n : AlikeTxn(Front(txns)[i], r.below[i])
  BY <1>13 DEF Alike
<1>16. TypeInv'
  <2>1. ops + 1 \in Nat
    BY <1>1 DEF TypeInv
  <2> QED BY <1>1, <1>2, <1>6, <1>13, <1>14, <2>1 DEF TypeInv
<1>17. DbInv'
  BY <1>1, <1>6 DEF DbInv
<1>18. ErrorInv'
  <2> SUFFICES ASSUME NEW i \in 1..n PROVE ~s[i].error
    <3>1. txns' = s /\ Len(s) - 1 = n
      BY <1>6, <1>13, <1>14
    <3> QED BY <3>1 DEF ErrorInv
  <2>1. AlikeTxn(Front(txns)[i], r.below[i])
    BY <1>15
  <2>2. r.below[i].error = Front(txns)[i].error
    BY <2>1 DEF AlikeTxn
  <2>3. Front(txns)[i] = txns[i] /\ i \in 1..(Len(txns) - 1)
    BY <1>1, <1>15 DEF Front
  <2>4. ~txns[i].error
    BY <1>1, <2>3 DEF ErrorInv
  <2> QED BY <1>14, <2>2, <2>3, <2>4
<1>19. IdleInv'
  BY <1>6, <1>13, <1>14 DEF IdleInv
<1>20. IInv'
  BY <1>12, <1>16, <1>17, <1>18, <1>19 DEF IInv
<1>21. ASSUME Clear(r) PROVE KeepInv'
  <2> SUFFICES ASSUME NEW i \in 1..(n + 1) PROVE \A p \in DOMAIN s[i].dirty : s[i].dirty[p].keep = FALSE
    BY <1>6, <1>13, <1>14 DEF KeepInv
  <2>1. CASE i \in 1..n
    BY <1>13, <1>14, <1>21, <2>1 DEF Clear, Unflagged
  <2>2. CASE i = n + 1
    BY <1>4, <1>14, <1>21, <2>2 DEF Clear
  <2>3. i \in 1..n \/ i = n + 1
    BY <1>14
  <2> QED BY <2>1, <2>2, <2>3
<1>22. Len(r.below) = Len(Front(txns))
  BY <1>13, <1>15
<1>23. \E x \in Txn : /\ txns' = Append(r.below, x) /\ AlikeTxn(r.t, x) /\ x.dirty = r.t.dirty
                      /\ map' = r.map /\ db' = db
  BY <1>4, <1>6, <1>7
<1> QED BY <1>2, <1>20, <1>21, <1>22, <1>23

\* An operation on the page of k.
Operation(k) == \E w, r : /\ Started(w, Frame(db.root, Front(txns))) /\ ~w.t.error
                          /\ Step(w, r, Frame(db.root, Front(txns)), k) /\ Finish(r)

\* Operations keep the invariant.
LEMMA OperationSound ==
    ASSUME IInv, CanWrite, NEW k, Operation(k)
    PROVE  IInv' /\ (KeepInv => KeepInv')
<1>1. PICK f : f = Frame(db.root, Front(txns))
  OBVIOUS
<1>2. PICK w, r : Started(w, f) /\ Step(w, r, f, k) /\ Finish(r)
  BY <1>1 DEF Operation
<1>3. /\ Sound(r, f, {}) /\ r.below = w.below /\ r.t.saved = w.t.saved /\ (Clear(w) => Clear(r))
  BY <1>2 DEF Step, Kept
<1>4. Alike(Front(txns), r.below) /\ r.t.saved = Top.saved /\ (KeepInv => Clear(w))
  BY <1>2, <1>3 DEF Started
<1>5. IInv' /\ (Clear(r) => KeepInv')
  BY <1>1, <1>2, <1>3, <1>4, FinishSound
<1> QED BY <1>3, <1>4, <1>5

\* mdb_cursor_put of a value in a leaf is such an operation.
LEMMA PutLeafIs ==
    ASSUME IInv, NEW k \in Keys, NEW v \in Values, PutLeaf(k, v)
    PROVE  Operation(k)
<1>1. /\ TypeInv /\ LevelInv /\ ErrorInv /\ CanWrite /\ db \in DbType
  BY DEF IInv, PutLeaf, TypeInv, DbType
<1>2. PICK f : f = Frame(db.root, Front(txns))
  OBVIOUS
<1>3. PICK w \in AfterSpill({k}) :
         Finish(Store(IF w.t.root[k] = NoPage THEN PageNew(w, k) ELSE PageTouch(w, k), k, v))
  BY DEF PutLeaf
<1>4. Started(w, f) /\ ~w.t.error /\ Len(w.below) + 1 = Len(txns)
  BY <1>1, <1>2, AfterSpillStarted
<1>5. PICK x, r : x = (IF w.t.root[k] = NoPage THEN PageNew(w, k) ELSE PageTouch(w, k)) /\ r = Store(x, k, v)
  OBVIOUS
<1>6. Sound(w, f, {})
  BY <1>4 DEF Started
<1>7. Step(w, x, f, k)
  <2>1. CASE w.t.root[k] = NoPage
    <3>1. x = PageNew(w, k)
      BY <1>5, <2>1
    <3> QED BY <1>1, <1>4, <1>6, <2>1, <3>1, PageNewSound
  <2>2. CASE w.t.root[k] # NoPage
    <3>1. x = PageTouch(w, k)
      BY <1>5, <2>2
    <3>2. w.t.root[k] \in Pages
      BY <1>6, <2>2 DEF Sound, Records, Txn, Roots
    <3> QED BY <1>1, <1>4, <1>6, <3>1, <3>2, PageTouchSound
  <2> QED BY <2>1, <2>2
<1>8. Step(w, r, f, k)
  BY <1>1, <1>5, <1>7, ThenStore
<1>9. Finish(r)
  BY <1>3, <1>5
<1> QED BY <1>2, <1>4, <1>8, <1>9 DEF Operation

\* So is that of a large value.
LEMMA PutOverflowIs ==
    ASSUME IInv, NEW k \in Keys, NEW v \in Values, PutOverflow(k, v)
    PROVE  Operation(k)
<1>1. /\ TypeInv /\ LevelInv /\ ErrorInv /\ CanWrite /\ db \in DbType
  BY DEF IInv, PutOverflow, TypeInv, DbType
<1>2. PICK f : f = Frame(db.root, Front(txns))
  OBVIOUS
<1>3. PICK w \in AfterSpill({}) :
         IF w.t.root[k] = NoPage THEN Finish(Store(PageNew(w, k), k, v))
         ELSE \E fits \in BOOLEAN : Finish(OverwriteOverflow(w, k, v, fits))
  BY DEF PutOverflow
<1>4. Started(w, f) /\ ~w.t.error /\ Len(w.below) + 1 = Len(txns)
  BY <1>1, <1>2, AfterSpillStarted
<1>5. Sound(w, f, {})
  BY <1>4 DEF Started
<1>6. CASE w.t.root[k] = NoPage
  <2>1. PICK x, r : x = PageNew(w, k) /\ r = Store(x, k, v)
    OBVIOUS
  <2>2. Step(w, x, f, k)
    BY <1>1, <1>4, <1>5, <1>6, <2>1, PageNewSound
  <2>3. Step(w, r, f, k)
    BY <1>1, <2>1, <2>2, ThenStore
  <2>4. Finish(r)
    BY <1>3, <1>6, <2>1
  <2> QED BY <1>2, <1>4, <2>3, <2>4 DEF Operation
<1>7. CASE w.t.root[k] # NoPage
  <2>1. PICK fits \in BOOLEAN : Finish(OverwriteOverflow(w, k, v, fits))
    BY <1>3, <1>7
  <2>2. PICK r : r = OverwriteOverflow(w, k, v, fits)
    OBVIOUS
  <2>3. w.t.root[k] \in Pages
    BY <1>5, <1>7 DEF Sound, Records, Txn, Roots
  <2>4. Step(w, r, f, k)
    BY <1>1, <1>4, <1>5, <2>2, <2>3, OverwriteSound
  <2>5. Finish(r)
    BY <2>1, <2>2
  <2> QED BY <1>2, <1>4, <2>4, <2>5 DEF Operation
<1> QED BY <1>6, <1>7

\* So is a deletion that empties a leaf.
LEMMA DelLeafIs ==
    ASSUME IInv, NEW k \in Keys, DelLeaf(k)
    PROVE  Operation(k)
<1>1. /\ TypeInv /\ LevelInv /\ ErrorInv /\ CanWrite /\ db \in DbType /\ Top.root[k] # NoPage
  BY DEF IInv, DelLeaf, TypeInv, DbType
<1>2. PICK f : f = Frame(db.root, Front(txns))
  OBVIOUS
<1>3. PICK w \in AfterSpill({k}) :
         Finish(IF PageTouch(w, k).t.error THEN PageTouch(w, k) ELSE PageLoose(PageTouch(w, k), k))
  BY DEF DelLeaf
<1>4. Started(w, f) /\ ~w.t.error /\ Len(w.below) + 1 = Len(txns)
  BY <1>1, <1>2, AfterSpillStarted
<1>5. Sound(w, f, {}) /\ w.t.root[k] # NoPage
  BY <1>1, <1>4 DEF Started
<1>6. w.t.root[k] \in Pages
  BY <1>5 DEF Sound, Records, Txn, Roots
<1>7. PICK x : x = PageTouch(w, k)
  OBVIOUS
<1>8. Step(w, x, f, k) /\ (~x.t.error => x.t.root[k] \in Pages)
  BY <1>1, <1>4, <1>5, <1>6, <1>7, PageTouchSound
<1>9. CASE x.t.error
  <2>1. Finish(x)
    BY <1>3, <1>7, <1>9
  <2> QED BY <1>2, <1>4, <1>8, <2>1 DEF Operation
<1>10. CASE ~x.t.error
  <2>1. PICK r : r = PageLoose(x, k)
    OBVIOUS
  <2>2. Sound(x, f, {}) /\ x.below = w.below /\ x.t \in Txn
    BY <1>8 DEF Step, Kept, Sound, Records
  <2>3. Len(x.below) + 1 = Len(txns)
    BY <1>4, <2>2
  <2>4. Step(x, r, f, k)
    BY <1>1, <1>8, <1>10, <2>1, <2>2, <2>3, PageLooseSound
  <2>5. x.t.error = FALSE
    BY <1>10, <2>2 DEF Txn
  <2>6. Step(w, r, f, k)
    BY <1>8, <2>4, <2>5, StepTwice
  <2>7. Finish(r)
    BY <1>3, <1>7, <1>10, <2>1
  <2> QED BY <1>2, <1>4, <2>6, <2>7 DEF Operation
<1> QED BY <1>9, <1>10

\* So is the merge of its neighbour into it.
LEMMA MergeLeafIs ==
    ASSUME IInv, NEW k \in Keys, MergeLeaf(k)
    PROVE  Operation(k)
<1>1. /\ TypeInv /\ LevelInv /\ ErrorInv /\ CanWrite /\ db \in DbType /\ Top.root[k] # NoPage
  BY DEF IInv, MergeLeaf, TypeInv, DbType
<1>2. PICK f : f = Frame(db.root, Front(txns))
  OBVIOUS
<1>3. PICK w \in AfterSpill({}) : Finish(PageLoose(w, k))
  BY DEF MergeLeaf
<1>4. Started(w, f) /\ ~w.t.error /\ Len(w.below) + 1 = Len(txns)
  BY <1>1, <1>2, AfterSpillStarted
<1>5. Sound(w, f, {}) /\ w.t.root[k] # NoPage
  BY <1>1, <1>4 DEF Started
<1>6. w.t.root[k] \in Pages
  BY <1>5 DEF Sound, Records, Txn, Roots
<1>7. PICK r : r = PageLoose(w, k)
  OBVIOUS
<1>8. Step(w, r, f, k)
  BY <1>1, <1>4, <1>5, <1>6, <1>7, PageLooseSound
<1> QED BY <1>2, <1>3, <1>4, <1>7, <1>8 DEF Operation

\* So is the deletion of a large value.
LEMMA DelOverflowIs ==
    ASSUME IInv, NEW k \in Keys, DelOverflow(k)
    PROVE  Operation(k)
<1>1. /\ TypeInv /\ LevelInv /\ ErrorInv /\ CanWrite /\ db \in DbType /\ Top.root[k] # NoPage
  BY DEF IInv, DelOverflow, TypeInv, DbType
<1>2. PICK f : f = Frame(db.root, Front(txns))
  OBVIOUS
<1>3. PICK w \in AfterSpill({}) : Finish(OvpageFree(w, k))
  BY DEF DelOverflow
<1>4. Started(w, f) /\ ~w.t.error /\ Len(w.below) + 1 = Len(txns)
  BY <1>1, <1>2, AfterSpillStarted
<1>5. Sound(w, f, {}) /\ w.t.root[k] # NoPage
  BY <1>1, <1>4 DEF Started
<1>6. w.t.root[k] \in Pages
  BY <1>5 DEF Sound, Records, Txn, Roots
<1>7. PICK r : r = OvpageFree(w, k)
  OBVIOUS
<1>8. Step(w, r, f, k)
  BY <1>1, <1>4, <1>5, <1>6, <1>7, OvpageFreeSound
<1> QED BY <1>2, <1>3, <1>4, <1>7, <1>8 DEF Operation

\* mdb_drop0 frees every page.
LEMMA DropSound ==
    ASSUME IInv, Drop
    PROVE  /\ IInv' /\ (KeepInv => KeepInv')
           /\ \E u \in Txn : /\ txns' = Append(Front(txns), u) /\ map' = map /\ db' = db
                             /\ u.error = Top.error /\ \A k \in Keys : u.root[k] = NoPage
<1>1. /\ TypeInv /\ LevelInv /\ ErrorInv /\ CanWrite /\ db \in DbType /\ pgstate \in PgStates
  BY DEF IInv, Drop, TypeInv, DbType
<1>2. PICK f : f = Frame(db.root, Front(txns))
  OBVIOUS
<1>3. /\ Front(txns) \in Seq(Txn) /\ Top \in Txn /\ Level(db, f, Top, pgstate, {})
  BY <1>1, <1>2, TopSound DEF CanWrite
<1>4. PICK w : w = Working
  OBVIOUS
<1>5. /\ Started(w, f) /\ w.below = Front(txns) /\ w.t = Top /\ w.map = map /\ w.pg = pgstate
  BY <1>1, <1>2, <1>4, WorkingStarted
<1>6. w \in Records /\ f = Frame(db.root, w.below) /\ (KeepInv => Clear(w))
  BY <1>5 DEF Started, Sound
<1>7. PICK u : u = [Top EXCEPT !.root = [k \in Keys |-> NoPage], !.free = Top.free \cup UsedBy(Top.root)]
  OBVIOUS
<1>8. UsedBy(Top.root) \subseteq Pages
  BY <1>3, TxnPages
<1>9. /\ u \in Txn /\ (\A k \in Keys : u.root[k] = NoPage) /\ u.free = Top.free \cup UsedBy(Top.root)
      /\ u.dirty = Top.dirty /\ u.spill = Top.spill /\ u.room = Top.room /\ u.loose = Top.loose
      /\ u.next = Top.next /\ u.saved = Top.saved
  <2>1. PICK R, F : R = [k \in Keys |-> NoPage] /\ F = Top.free \cup UsedBy(Top.root)
    OBVIOUS
  <2>2. R \in Roots /\ F \in SUBSET Pages
    BY <1>3, <1>8, <2>1 DEF Roots, Txn
  <2>3. u = [Top EXCEPT !.root = R, !.free = F]
    BY <1>7, <2>1
  <2>4. /\ u \in Txn /\ u.root = R /\ u.free = F
        /\ u.dirty = Top.dirty /\ u.spill = Top.spill /\ u.room = Top.room /\ u.loose = Top.loose
        /\ u.next = Top.next /\ u.saved = Top.saved
    BY <1>3, <2>2, <2>3 DEF Txn
  <2> QED BY <2>1, <2>4
<1>10. u.error = Top.error
  BY <1>3, <1>7 DEF Txn
<1>11. SameLists(Top, u)
  BY <1>9, <1>10 DEF SameLists
<1>12. f \in Frames
  BY <1>2, <1>3, FrameType
<1>13. Level(db, f, u, pgstate, {})
  BY <1>1, <1>3, <1>9, <1>11, <1>12, LevelFreeAll
<1>14. PICK r : r = [w EXCEPT !.t = u]
  OBVIOUS
<1>15. r \in Records /\ r.t = u /\ r.below = Front(txns) /\ r.map = map /\ r.pg = pgstate
  BY <1>5, <1>6, <1>9, <1>14 DEF Records
<1>16. Finish(r)
  <2>1. Finish([w EXCEPT !.t.root = [k \in Keys |-> NoPage], !.t.free = @ \cup UsedBy(Top.root)])
    BY <1>4 DEF Drop, UsedBy
  <2>2. r = [w EXCEPT !.t.root = [k \in Keys |-> NoPage], !.t.free = @ \cup UsedBy(Top.root)]
    <3>1. PICK R, F : R = [k \in Keys |-> NoPage] /\ F = UsedBy(Top.root)
      OBVIOUS
    <3>2. u = [w.t EXCEPT !.root = R, !.free = @ \cup F]
      BY <1>5, <1>7, <3>1
    <3>3. r = [w EXCEPT !.t.root = R, !.t.free = @ \cup F]
      BY <1>6, <1>14, <3>2 DEF Records, Txn
    <3> QED BY <3>1, <3>3
  <2> QED BY <2>1, <2>2
<1>17. Sound(r, f, {})
  BY <1>2, <1>13, <1>15 DEF Sound
<1>18. Alike(Front(txns), r.below) /\ r.t.saved = Top.saved
  BY <1>9, <1>15, AlikeSelf
<1>19. PICK x \in Txn : /\ IInv' /\ (Clear(r) => KeepInv')
                        /\ txns' = Append(r.below, x) /\ AlikeTxn(r.t, x) /\ map' = r.map /\ db' = db
  BY <1>1, <1>2, <1>16, <1>17, <1>18, FinishSound
<1>20. Clear(w) => Clear(r)
  BY <1>5, <1>9, <1>15 DEF Clear
<1>21. x.error = u.error
  BY <1>15, <1>19 DEF AlikeTxn
<1>22. x.root = u.root
  BY <1>15, <1>19 DEF AlikeTxn
<1>23. \A k \in Keys : x.root[k] = NoPage
  BY <1>9, <1>22
<1>24. x.error = Top.error
  BY <1>10, <1>21
<1>25. txns' = Append(Front(txns), x) /\ map' = map /\ db' = db
  BY <1>15, <1>19
<1> QED BY <1>6, <1>19, <1>20, <1>23, <1>24, <1>25

\* A spill that fails leaves the pages listed.
LEMMA SpillFailsSound ==
    ASSUME IInv, SpillFails
    PROVE  /\ IInv'
           /\ \E b \in Seq(Txn), u \in Txn :
                 /\ txns' = Append(b, u) /\ Alike(Front(txns), b) /\ db' = db /\ u.error = TRUE
                 /\ \A q \in Pages : map'[q] # map[q] =>
                        q \in Listed(Top) /\ q \notin Frame(db.root, Front(txns)).spilled
<1>1. /\ TypeInv /\ LevelInv /\ ErrorInv /\ CanWrite /\ db \in DbType /\ pgstate \in PgStates
  BY DEF IInv, SpillFails, TypeInv, DbType
<1>2. PICK f : f = Frame(db.root, Front(txns))
  OBVIOUS
<1>3. /\ Front(txns) \in Seq(Txn) /\ Top \in Txn /\ Level(db, f, Top, pgstate, {}) /\ txns # <<>>
      /\ txns \in Seq(Txn) /\ map \in [Pages -> Contents]
  BY <1>1, <1>2, TopSound DEF CanWrite, TypeInv
<1>4. PICK kept, out, c, P : /\ out = FromTail(Spillable(kept)) /\ c = XKeep(kept, TRUE) /\ P \subseteq out
                             /\ Finish([Working EXCEPT !.below = Front(c),
                                           !.t = [Last(c) EXCEPT !.spill = @ \cup out, !.error = TRUE],
                                           !.map = Flushed(Top.dirty, P)])
  BY DEF SpillFails
<1>5. c \in Seq(Txn) /\ Alike(txns, c)
  <2>1. PICK yes : yes = TRUE
    OBVIOUS
  <2>2. yes \in BOOLEAN /\ c = XKeep(kept, yes)
    BY <1>4, <2>1
  <2> QED BY <1>1, <2>2, XKeepAlike
<1>6. PICK b, l, m : b = Front(c) /\ l = Last(c) /\ m = Flushed(Top.dirty, P)
  OBVIOUS
<1>7. Last(txns) = Top
  BY DEF Last, Top
<1>8. b \in Seq(Txn) /\ Alike(Front(txns), b) /\ l \in Txn /\ AlikeTxn(Top, l)
  BY <1>3, <1>5, <1>6, <1>7, FrontAlike
<1>9. out \subseteq DOMAIN Top.dirty /\ out \cap f.spilled = {}
  BY <1>1, <1>2, <1>4, OutIs
<1>10. DOMAIN Top.dirty \subseteq Pages /\ \A q \in DOMAIN Top.dirty : Top.dirty[q] \in Page
  <2>1. Top.dirty \in DirtyLists
    BY <1>3 DEF Txn
  <2> QED BY <2>1, DirtyList
<1>11. /\ m \in [Pages -> Contents]
       /\ \A q \in Pages : m[q] # map[q] => q \in Listed(Top) /\ q \notin f.spilled
  <2>1. \A q \in P : Top.dirty[q].val \in Contents
    BY <1>4, <1>9, <1>10 DEF Page
  <2>2. m \in [Pages -> Contents]
    BY <1>3, <1>6, <2>1 DEF Flushed
  <2>3. \A q \in Pages : m[q] # map[q] => q \in P
    BY <1>6 DEF Flushed
  <2> QED BY <1>4, <1>9, <2>2, <2>3 DEF Listed
<1>12. PICK u : u = [l EXCEPT !.spill = l.spill \cup out, !.error = TRUE]
  OBVIOUS
<1>13. /\ u \in Txn /\ u.dirty = l.dirty /\ u.spill = l.spill \cup out /\ u.root = l.root /\ u.loose = l.loose
       /\ u.free = l.free /\ u.next = l.next /\ u.saved = l.saved /\ u.room = l.room
  <2>1. PICK S : S = l.spill \cup out
    OBVIOUS
  <2>2. S \in SUBSET Pages
    BY <1>8, <1>9, <1>10, <2>1 DEF Txn
  <2>3. u = [l EXCEPT !.spill = S, !.error = TRUE]
    BY <1>12, <2>1
  <2>4. /\ u \in Txn /\ u.dirty = l.dirty /\ u.spill = S /\ u.root = l.root /\ u.loose = l.loose
        /\ u.free = l.free /\ u.next = l.next /\ u.saved = l.saved /\ u.room = l.room
    BY <1>8, <2>2, <2>3 DEF Txn
  <2> QED BY <2>1, <2>4
<1>14. u.error = TRUE
  BY <1>8, <1>12 DEF Txn
<1>15. PICK r : r = [below |-> b, t |-> u, map |-> m, pg |-> pgstate, np |-> NoPage]
  OBVIOUS
<1>16. /\ r \in Records /\ r.below = b /\ r.t = u /\ r.map = m /\ r.pg = pgstate
  BY <1>1, <1>8, <1>11, <1>13, <1>15 DEF Records
<1>17. Finish(r)
  <2>1. PICK x, y, z, g : x = Front(txns) /\ y = Top /\ z = map /\ g = pgstate
    OBVIOUS
  <2>2. Working = [below |-> x, t |-> y, map |-> z, pg |-> g, np |-> NoPage]
    BY <2>1 DEF Working
  <2>3. u = [l EXCEPT !.spill = @ \cup out, !.error = TRUE]
    BY <1>8, <1>12 DEF Txn
  <2>4. Finish([Working EXCEPT !.below = b, !.t = u, !.map = m])
    BY <1>4, <1>6, <2>3
  <2>5. [Working EXCEPT !.below = b, !.t = u, !.map = m] = r
    <3>1. r = [below |-> b, t |-> u, map |-> m, pg |-> g, np |-> NoPage]
      BY <1>15, <2>1
    <3>2. PICK A, B : A = [below |-> x, t |-> y, map |-> z, pg |-> g, np |-> NoPage]
                      /\ B = [A EXCEPT !.below = b, !.t = u, !.map = m]
      OBVIOUS
    <3>3. A \in Records
      BY <1>1, <1>3, <2>1, <3>2 DEF Records
    <3>4. B \in Records /\ B.below = b /\ B.t = u /\ B.map = m /\ B.pg = A.pg /\ B.np = A.np
      BY <1>8, <1>11, <1>13, <3>2, <3>3 DEF Records
    <3>5. A.pg = g /\ A.np = NoPage
      BY <3>2
    <3>6. B = [below |-> b, t |-> u, map |-> m, pg |-> g, np |-> NoPage]
      BY <3>4, <3>5 DEF Records
    <3> QED BY <2>2, <3>1, <3>2, <3>6
  <2> QED BY <2>4, <2>5
<1>18. /\ DOMAIN l.dirty = DOMAIN Top.dirty /\ l.spill = Top.spill /\ l.root = Top.root
       /\ l.loose = Top.loose /\ l.free = Top.free /\ l.next = Top.next /\ l.saved = Top.saved
  BY <1>8 DEF AlikeTxn
<1>19. Listed(u) = Listed(Top)
  BY <1>9, <1>13, <1>18 DEF Listed
<1>20. Level(db, f, u, pgstate, {})
  <2>1. u.root = Top.root /\ u.loose = Top.loose /\ u.free = Top.free /\ u.next = Top.next
    BY <1>13, <1>18
  <2> QED BY <1>3, <1>14, <1>19, <2>1, LevelFailed
<1>21. Frame(db.root, b) = f
  BY <1>2, <1>3, <1>8, AlikeFrame
<1>22. Sound(r, f, {})
  BY <1>16, <1>20, <1>21 DEF Sound
<1>23. r.t.saved = Top.saved /\ Alike(Front(txns), r.below)
  BY <1>8, <1>13, <1>16, <1>18
<1>24. PICK x \in Txn : IInv' /\ txns' = Append(r.below, x) /\ AlikeTxn(r.t, x) /\ map' = r.map /\ db' = db
  BY <1>1, <1>2, <1>17, <1>22, <1>23, FinishSound
<1>25. x.error = TRUE
  <2>1. x.error = u.error
    BY <1>16, <1>24 DEF AlikeTxn
  <2> QED BY <1>14, <2>1
<1>26. txns' = Append(b, x) /\ map' = m /\ db' = db
  BY <1>16, <1>24
<1>27. \A q \in Pages : map'[q] # map[q] => q \in Listed(Top) /\ q \notin Frame(db.root, Front(txns)).spilled
  BY <1>2, <1>11, <1>26
<1> QED BY <1>8, <1>24, <1>25, <1>26, <1>27

\* An empty dirty list.
LEMMA NoPagesList == NoPages \in DirtyLists /\ DOMAIN NoPages = {}
<1>1. PICK d, P : d = NoPages /\ P = {}
  OBVIOUS
<1>2. d = [p \in P |-> Blank]
  BY <1>1 DEF NoPages
<1>3. P \in SUBSET Pages /\ d = [p \in P |-> d[p]] /\ \A p \in P : d[p] \in Page
  BY <1>1, <1>2
<1>4. d \in DirtyLists
  BY <1>3, IsDirtyList
<1> QED BY <1>1, <1>2, <1>4

\* Nothing read is a page state.
LEMMA NothingReadType == NothingRead \in PgStates /\ NothingRead.head = {} /\ NothingRead.read = FALSE
BY DEF NothingRead, PgStates

\* The first transaction.
LEMMA BeginSound ==
    ASSUME IInv, Begin
    PROVE  /\ IInv' /\ KeepInv'
           /\ \E t \in Txn : /\ txns' = Append(<<>>, t) /\ t.root = db.root /\ DOMAIN t.dirty = {} /\ t.spill = {}
                             /\ t.error = FALSE /\ map' = map /\ db' = db
<1>1. /\ TypeInv /\ LevelInv /\ DbInv /\ db \in DbType /\ txns = <<>> /\ pgstate = NothingRead
  BY DEF IInv, Begin, TypeInv, DbType, IdleInv
<1>2. PICK t : t = [root |-> db.root, dirty |-> NoPages, spill |-> {}, free |-> {},
                  loose |-> <<>>, room |-> MaxDirty, next |-> db.next,
                  spills |-> FALSE, error |-> FALSE, wrote |-> FALSE,
                  saved |-> NothingRead]
  OBVIOUS
<1>3. /\ t.root = db.root /\ t.dirty = NoPages /\ t.spill = {} /\ t.free = {} /\ t.loose = <<>>
      /\ t.room = MaxDirty /\ t.next = db.next /\ t.saved = NothingRead
  BY <1>2
<1>4. t.error = FALSE
  BY <1>2
<1>5. t \in Txn
  <2>1. db.root \in Roots /\ db.next \in 2..MaxPg /\ MaxDirty \in Nat /\ <<>> \in Seq(Pages)
    BY <1>1, ConstantsAssumption DEF DbType
  <2> QED BY <1>2, <2>1, NoPagesList, NothingReadType DEF Txn
<1>6. txns' = <<t>> /\ map' = map /\ pgstate' = pgstate /\ db' = db /\ ops' = ops
  BY <1>2 DEF Begin
<1>7. <<t>> = Append(<<>>, t) /\ <<>> \in Seq(Txn) /\ <<t>> \in Seq(Txn)
  BY <1>5
<1>8. DOMAIN t.dirty = {}
  BY <1>3, NoPagesList
<1>9. Level(db, Frame(db.root, <<>>), t, NothingRead, {})
  <2>1. Placed(db, db.root, {}, {}, NothingRead, db.next, {})
    BY <1>1 DEF DbInv
  <2> QED BY <1>1, <1>3, <1>5, <1>8, <2>1, LevelBegin
<1>10. Levels(db, <<>>, t.saved)
  BY DEF Levels
<1>11. Levels(db, Append(<<>>, t), NothingRead)
  BY <1>5, <1>7, <1>9, <1>10, LevelsPush
<1>12. LevelInv'
  BY <1>1, <1>6, <1>7, <1>11 DEF LevelInv
<1>13. TypeInv' /\ DbInv'
  BY <1>1, <1>6, <1>7 DEF TypeInv, DbInv
<1>14. Len(<<t>>) = 1 /\ <<t>>[1] = t /\ <<t>> # <<>>
  OBVIOUS
<1>15. ErrorInv' /\ IdleInv'
  BY <1>6, <1>14 DEF ErrorInv, IdleInv
<1>16. KeepInv'
  BY <1>6, <1>8, <1>14 DEF KeepInv
<1> QED BY <1>3, <1>4, <1>5, <1>6, <1>7, <1>8, <1>12, <1>13, <1>15, <1>16 DEF IInv

\* A nested transaction.
LEMMA BeginNestedSound ==
    ASSUME IInv, BeginNested
    PROVE  /\ IInv' /\ (KeepInv => KeepInv')
           /\ \E t \in Txn : /\ txns' = Append(txns, t) /\ t.root = Top.root /\ DOMAIN t.dirty = {} /\ t.spill = {}
                             /\ t.error = FALSE /\ map' = map /\ db' = db
<1>1. /\ TypeInv /\ LevelInv /\ DbInv /\ ErrorInv /\ CanWrite /\ db \in DbType /\ pgstate \in PgStates
      /\ txns \in Seq(Txn) /\ Len(txns) \in Nat
  BY DEF IInv, BeginNested, TypeInv, DbType
<1>2. PICK f : f = Frame(db.root, Front(txns))
  OBVIOUS
<1>3. /\ Front(txns) \in Seq(Txn) /\ Top \in Txn /\ txns = Append(Front(txns), Top)
      /\ Level(db, f, Top, pgstate, {}) /\ txns # <<>> /\ ~Top.error
  BY <1>1, <1>2, TopSound DEF CanWrite
<1>4. PICK t : t = [Top EXCEPT !.dirty = NoPages, !.spill = {}, !.free = {},
                               !.loose = <<>>, !.wrote = FALSE, !.saved = pgstate]
  OBVIOUS
<1>5. /\ t \in Txn /\ t.root = Top.root /\ t.dirty = NoPages /\ t.spill = {} /\ t.free = {} /\ t.loose = <<>>
      /\ t.room = Top.room /\ t.next = Top.next /\ t.saved = pgstate
  <2>1. PICK e, l : e = {} /\ l = <<>>
    OBVIOUS
  <2>2. e \in SUBSET Pages /\ l \in Seq(Pages)
    BY <2>1
  <2>3. t = [Top EXCEPT !.dirty = NoPages, !.spill = e, !.free = e, !.loose = l, !.wrote = FALSE, !.saved = pgstate]
    BY <1>4, <2>1
  <2>4. /\ t \in Txn /\ t.root = Top.root /\ t.dirty = NoPages /\ t.spill = e /\ t.free = e /\ t.loose = l
        /\ t.room = Top.room /\ t.next = Top.next /\ t.saved = pgstate
    BY <1>1, <1>3, <2>2, <2>3, NoPagesList DEF Txn
  <2> QED BY <2>1, <2>4
<1>6. t.error = FALSE
  BY <1>3, <1>4 DEF Txn
<1>7. txns' = Append(txns, t) /\ map' = map /\ pgstate' = pgstate /\ db' = db /\ ops' = ops
  BY <1>4 DEF BeginNested
<1>8. DOMAIN t.dirty = {}
  BY <1>5, NoPagesList
<1>9. f \in Frames /\ f.clean \subseteq f.used
  BY <1>2, <1>3, FrameType
<1>10. Frame(db.root, txns) = Push(f, Top)
  BY <1>2, <1>3, FramePush
<1>11. Level(db, Push(f, Top), t, pgstate, {})
  BY <1>1, <1>3, <1>5, <1>8, <1>9, LevelNested
<1>12. Levels(db, txns, t.saved)
  BY <1>1, <1>5 DEF LevelInv
<1>13. Levels(db, Append(txns, t), pgstate)
  BY <1>1, <1>5, <1>10, <1>11, <1>12, LevelsPush
<1>14. LevelInv'
  BY <1>7, <1>13 DEF LevelInv
<1>15. PICK s, n : s = Append(txns, t) /\ n = Len(txns)
  OBVIOUS
<1>16. /\ s \in Seq(Txn) /\ Len(s) = n + 1 /\ n \in Nat /\ n # 0 /\ s[n + 1] = t /\ s # <<>>
       /\ \A i \in 1..n : s[i] = txns[i]
  BY <1>1, <1>3, <1>5, <1>15, Longer
<1>17. TypeInv' /\ DbInv' /\ IdleInv'
  BY <1>1, <1>7, <1>15, <1>16 DEF TypeInv, DbInv, IdleInv
<1>18. \A i \in 1..n : ~txns[i].error
  <2>1. \A i \in 1..n : i \in 1..(n - 1) \/ i = n
    BY <1>16
  <2> QED BY <1>1, <1>3, <1>15, <2>1 DEF ErrorInv, Top
<1>19. ErrorInv'
  BY <1>7, <1>15, <1>16, <1>18 DEF ErrorInv
<1>20. ASSUME KeepInv PROVE KeepInv'
  <2>1. ASSUME NEW i \in 1..(n + 1) PROVE \A p \in DOMAIN s[i].dirty : s[i].dirty[p].keep = FALSE
    <3>1. i \in 1..n \/ i = n + 1
      BY <1>16
    <3>2. CASE i \in 1..n
      BY <1>15, <1>16, <1>18, <1>20, <3>2 DEF KeepInv
    <3>3. CASE i = n + 1
      BY <1>8, <1>16, <3>3
    <3> QED BY <3>1, <3>2, <3>3
  <2> QED BY <1>7, <1>15, <1>16, <2>1 DEF KeepInv
<1> QED BY <1>5, <1>6, <1>7, <1>8, <1>14, <1>17, <1>19, <1>20 DEF IInv

\* A transaction less.
LEMMA FrontSound ==
    ASSUME IInv, txns # <<>>
    PROVE  /\ Levels(db, Front(txns), RestoredPgstate) /\ Front(txns) \in Seq(Txn)
           /\ RestoredPgstate \in PgStates
           /\ Len(Front(txns)) = Len(txns) - 1 /\ Len(txns) \in Nat
           /\ \A i \in 1..(Len(txns) - 1) : Front(txns)[i] = txns[i] /\ ~txns[i].error
           /\ Front(txns) = <<>> <=> Len(txns) = 1
           /\ Len(txns) = 1 => RestoredPgstate = NothingRead
<1>1. TypeInv /\ LevelInv /\ ErrorInv
  BY DEF IInv
<1>2. /\ Front(txns) \in Seq(Txn) /\ Top \in Txn /\ Len(Front(txns)) + 1 = Len(txns)
      /\ Len(Front(txns)) \in Nat /\ Levels(db, Front(txns), Top.saved)
  BY <1>1, TopSound
<1>3. Top.saved \in PgStates
  BY <1>2 DEF Txn
<1>4. Front(txns) = <<>> <=> Len(txns) = 1
  BY <1>2, SMTT(30)
<1>5. \A i \in 1..(Len(txns) - 1) : Front(txns)[i] = txns[i] /\ ~txns[i].error
  BY <1>1, <1>2 DEF Front, ErrorInv
<1>6. CASE Len(txns) = 1
  <2>1. RestoredPgstate = NothingRead
    BY <1>6 DEF RestoredPgstate
  <2>2. Levels(db, <<>>, NothingRead)
    BY DEF Levels
  <2>3. Front(txns) = <<>>
    BY <1>4, <1>6
  <2> QED BY <1>2, <1>4, <1>5, <2>1, <2>2, <2>3, NothingReadType
<1>7. CASE Len(txns) # 1
  <2>1. RestoredPgstate = Top.saved
    BY <1>7 DEF RestoredPgstate
  <2> QED BY <1>2, <1>3, <1>4, <1>5, <1>7, <2>1
<1> QED BY <1>6, <1>7

\* An abort gives the parent what it had.
LEMMA AbortSound ==
    ASSUME IInv, Abort
    PROVE  /\ IInv' /\ (KeepInv => KeepInv')
<1>1. /\ TypeInv /\ DbInv /\ txns # <<>>
  BY DEF IInv, Abort
<1>2. PICK b, g, n : b = Front(txns) /\ g = RestoredPgstate /\ n = Len(txns)
  OBVIOUS
<1>3. txns' = b /\ pgstate' = g /\ map' = map /\ db' = db /\ ops' = ops
  BY <1>2 DEF Abort
<1>4. /\ Levels(db, b, g) /\ b \in Seq(Txn) /\ g \in PgStates /\ Len(b) = n - 1 /\ n \in Nat
      /\ \A i \in 1..(n - 1) : b[i] = txns[i] /\ ~txns[i].error
      /\ b = <<>> => g = NothingRead
  BY <1>1, <1>2, FrontSound
<1>5. LevelInv'
  BY <1>3, <1>4 DEF LevelInv
<1>6. TypeInv' /\ DbInv' /\ IdleInv'
  BY <1>1, <1>3, <1>4 DEF TypeInv, DbInv, IdleInv
<1>7. \A i \in 1..((n - 1) - 1) : i \in 1..(n - 1)
  BY <1>4
<1>8. ErrorInv'
  BY <1>3, <1>4, <1>7 DEF ErrorInv
<1>9. \A i \in 1..(n - 1) : i \in 1..n
  BY <1>4
<1>10. KeepInv => KeepInv'
  BY <1>2, <1>3, <1>4, <1>9 DEF KeepInv
<1> QED BY <1>5, <1>6, <1>8, <1>10 DEF IInv

\* The last but one of n transactions, p, with c up to it and b below it.
Parent(n, c, b, p) ==
    /\ b \in Seq(Txn) /\ p \in Txn /\ c = Append(b, p) /\ n \in Nat /\ c # <<>>
    /\ Len(b) = n - 2 /\ (\A i \in 1..(n - 2) : b[i] = txns[i] /\ ~txns[i].error)
    /\ p.error = FALSE /\ Levels(db, b, p.saved)
    /\ Level(db, Frame(db.root, b), p, Top.saved, {})
    /\ Frame(db.root, c) = Push(Frame(db.root, b), p)

\* The two innermost transactions.
LEMMA TwoTop ==
    ASSUME IInv, NEW n, n = Len(txns), n > 1, NEW c, c = Front(txns), NEW b, b = Front(c), NEW p, p = txns[n - 1]
    PROVE  Parent(n, c, b, p)
<1>1. PICK e : e = Front(txns) /\ e = c
  OBVIOUS
<1>2. TypeInv /\ LevelInv /\ txns # <<>> /\ txns \in Seq(Txn) /\ n \in Nat /\ n - 1 \in 1..(n - 1) /\ n - 1 \in 1..n
  BY DEF IInv, TypeInv
<1>3. e \in Seq(Txn) /\ Levels(db, e, Top.saved)
  BY <1>1, <1>2, TopSound
<1>4. Len(e) = n - 1 /\ \A i \in 1..(n - 1) : e[i] = txns[i] /\ ~txns[i].error
  BY <1>1, <1>2, FrontSound
<1>5. b \in Seq(Txn) /\ Len(b) = n - 2 /\ \A i \in 1..(n - 2) : b[i] = e[i] /\ i \in 1..(n - 1)
  BY <1>1, <1>2, <1>3, <1>4 DEF Front
<1>6. p \in Txn
  BY <1>2
<1>7. e[n - 1] = p
  BY <1>2, <1>4
<1>8. e = Append(b, p)
  BY <1>2, <1>3, <1>4, <1>5, <1>6, <1>7
<1>9. Levels(db, b, p.saved) /\ Level(db, Frame(db.root, b), p, Top.saved, {})
  BY <1>3, <1>5, <1>6, <1>8, LevelsPush
<1>10. Frame(db.root, e) = Push(Frame(db.root, b), p)
  BY <1>5, <1>6, <1>8, FramePush
<1>11. p.error = FALSE
  BY <1>2, <1>4, <1>6 DEF Txn
<1>12. e # <<>>
  BY <1>2, <1>4
<1> QED BY <1>1, <1>2, <1>4, <1>5, <1>6, <1>8, <1>9, <1>10, <1>11, <1>12 DEF Parent

\* A stack whose last transaction is replaced.
LEMMA Replaced ==
    ASSUME IInv, NEW b \in Seq(Txn), NEW u \in Txn, txns' = Append(b, u), db' = db, map' = map, ops' = ops,
           pgstate' \in PgStates, Levels(db, b, u.saved), Level(db, Frame(db.root, b), u, pgstate', {}),
           \A i \in 1..Len(b) : ~b[i].error
    PROVE  IInv'
<1>1. PICK s, n, g : s = Append(b, u) /\ n = Len(b) /\ g = pgstate'
  OBVIOUS
<1>2. /\ s \in Seq(Txn) /\ Len(s) = n + 1 /\ n \in Nat /\ s # <<>>
      /\ \A i \in 1..n : s[i] = b[i]
  BY <1>1, Longer
<1>3. Levels(db, s, g)
  BY <1>1, LevelsPush
<1>4. LevelInv'
  BY <1>1, <1>3 DEF LevelInv
<1>5. TypeInv' /\ DbInv' /\ IdleInv'
  BY <1>1, <1>2 DEF IInv, TypeInv, DbInv, IdleInv
<1>6. ErrorInv'
  BY <1>1, <1>2 DEF ErrorInv
<1> QED BY <1>4, <1>5, <1>6 DEF IInv

\* A child commits.
LEMMA CommitNestedSound ==
    ASSUME IInv, CommitNested
    PROVE  IInv' /\ (KeepInv => KeepInv')
<1>1. PICK n, b, p, u : n = Len(txns) /\ b = Front(Front(txns)) /\ p = txns[n - 1] /\ u = Merged(p, Top)
  OBVIOUS
<1>2. n > 1 /\ ~Top.error
  BY <1>1 DEF CommitNested
<1>3. /\ TypeInv /\ LevelInv /\ txns # <<>> /\ db \in DbType /\ pgstate \in PgStates
  BY <1>1, <1>2 DEF IInv, TypeInv, DbType
<1>0. Parent(n, Front(txns), b, p)
  BY <1>1, <1>2, TwoTop
<1>4. /\ b \in Seq(Txn) /\ p \in Txn /\ n \in Nat
      /\ Len(b) = n - 2 /\ (\A i \in 1..(n - 2) : b[i] = txns[i] /\ ~txns[i].error)
      /\ Levels(db, b, p.saved)
      /\ Level(db, Frame(db.root, b), p, Top.saved, {})
      /\ Frame(db.root, Front(txns)) = Push(Frame(db.root, b), p)
  BY <1>0 DEF Parent
<1>5. p.error = FALSE
  BY <1>0 DEF Parent
<1>6. Top \in Txn /\ Level(db, Push(Frame(db.root, b), p), Top, pgstate, {})
  BY <1>3, <1>4, TopSound
<1>7. u \in Txn /\ u.saved = p.saved /\ u.dirty = MergedDirty(p, Top)
  BY <1>1, <1>4, <1>6, MergedFields
<1>8. Frame(db.root, b) \in Frames
  BY <1>4, FrameType
<1>9. Level(db, Frame(db.root, b), u, pgstate, {})
  BY <1>1, <1>2, <1>3, <1>4, <1>5, <1>6, <1>8, LevelMerged
<1>10. /\ txns' = Append(b, u) /\ map' = map /\ pgstate' = pgstate /\ db' = db /\ ops' = ops
  BY <1>1 DEF CommitNested
<1>11. pgstate' \in PgStates /\ Level(db, Frame(db.root, b), u, pgstate', {})
  BY <1>3, <1>9, <1>10
<1>12. \A i \in 1..Len(b) : ~b[i].error
  BY <1>4
<1>13. IInv'
  BY <1>4, <1>7, <1>10, <1>11, <1>12, Replaced
<1>14. ASSUME KeepInv PROVE KeepInv'
  <2>1. PICK s : s = Append(b, u)
    OBVIOUS
  <2>2. Len(s) = n - 1 /\ s[n - 1] = u /\ \A i \in 1..(n - 2) : s[i] = b[i]
    BY <1>4, <1>7, <2>1
  <2>3. \A i \in 1..(n - 1) : i \in 1..(n - 2) \/ i = n - 1
    BY <1>2, <1>4
  <2>4. (\A i \in 1..(n - 2) : i \in 1..n) /\ n - 1 \in 1..n /\ n \in 1..n
    BY <1>2, <1>4
  <2>5. \A q \in DOMAIN p.dirty : p.dirty[q].keep = FALSE
    BY <1>1, <1>5, <1>14, <2>4 DEF KeepInv
  <2>6. \A q \in DOMAIN Top.dirty : Top.dirty[q].keep = FALSE
    BY <1>1, <1>2, <1>14, <2>4 DEF KeepInv, Top
  <2>7. PICK x, y : x = p.dirty /\ y = Top.dirty
    OBVIOUS
  <2>8. u.dirty = [q \in DOMAIN y \cup (DOMAIN x \ Top.spill) |-> IF q \in DOMAIN y THEN y[q] ELSE x[q]]
    BY <1>7, <2>7 DEF MergedDirty
  <2>9. \A q \in DOMAIN u.dirty : u.dirty[q].keep = FALSE
    BY <2>5, <2>6, <2>7, <2>8
  <2>10. ASSUME NEW i \in 1..(n - 1), ~s[i].error PROVE \A q \in DOMAIN s[i].dirty : s[i].dirty[q].keep = FALSE
    <3>1. CASE i \in 1..(n - 2)
      <4>1. s[i] = txns[i] /\ ~txns[i].error /\ i \in 1..n
        BY <1>4, <2>2, <2>4, <3>1
      <4> QED BY <1>1, <1>14, <4>1 DEF KeepInv
    <3>2. CASE i = n - 1
      BY <2>2, <2>9, <3>2
    <3> QED BY <2>3, <3>1, <3>2
  <2> QED BY <1>10, <2>1, <2>2, <2>10 DEF KeepInv
<1> QED BY <1>13, <1>14

\* The commit of a failed transaction: its parent, with the error.
LEMMA FailedParent ==
    ASSUME IInv, CommitFailed, NEW n, n = Len(txns), n > 1, NEW b, b = Front(Front(txns)), NEW p, p = txns[n - 1],
           NEW u, u = [p EXCEPT !.error = TRUE]
    PROVE  txns' = Append(b, u)
<1>1. /\ b \in Seq(Txn) /\ p \in Txn /\ n \in Nat /\ Len(b) = n - 2
      /\ (\A i \in 1..(n - 2) : b[i] = txns[i] /\ ~txns[i].error)
  BY TwoTop, ZenonT(40) DEF Parent
<1>2. txns' = [i \in 1..(n - 1) |-> [txns[i] EXCEPT !.error = @ \/ i = n - 1]]
  BY DEF CommitFailed
<1>3. \A i \in 1..(n - 2) : txns[i] \in Txn /\ i # n - 1 /\ i \in 1..(n - 1)
  <2>1. txns \in Seq(Txn)
    BY DEF IInv, TypeInv
  <2> QED BY <1>1, <2>1
<1>4. ASSUME NEW i \in 1..(n - 2) PROVE txns'[i] = b[i]
  <2>1. PICK t : t = txns[i]
    OBVIOUS
  <2>2. t \in Txn /\ i # n - 1 /\ i \in 1..(n - 1) /\ b[i] = t
    BY <1>1, <1>3, <2>1
  <2>3. txns'[i] = [t EXCEPT !.error = @ \/ i = n - 1]
    BY <1>2, <2>1, <2>2
  <2>4. (t.error \/ i = n - 1) = t.error
    BY <2>2 DEF Txn
  <2>5. [t EXCEPT !.error = t.error] = t
    BY <2>2 DEF Txn
  <2> QED BY <2>2, <2>3, <2>4, <2>5
<1>5. txns'[n - 1] = u
  <2>1. n - 1 \in 1..(n - 1)
    BY <1>1
  <2>2. (p.error \/ n - 1 = n - 1) = TRUE
    OBVIOUS
  <2>3. txns'[n - 1] = [p EXCEPT !.error = @ \/ n - 1 = n - 1]
    BY <1>2, <2>1
  <2> QED BY <2>2, <2>3
<1>6. u \in Txn
  BY <1>1 DEF Txn
<1>7. PICK s : s = txns'
  OBVIOUS
<1>8. /\ s = [i \in 1..(n - 1) |-> s[i]] /\ s[n - 1] = u /\ (\A i \in 1..(n - 2) : s[i] = b[i])
  BY <1>2, <1>4, <1>5, <1>7
<1>9. PICK c : c = Append(b, u)
  OBVIOUS
<1>10. c \in Seq(Txn) /\ Len(c) = n - 1 /\ c[n - 1] = u /\ (\A i \in 1..(n - 2) : c[i] = b[i])
  BY <1>1, <1>6, <1>9
<1>11. \A i \in 1..(n - 1) : i \in 1..(n - 2) \/ i = n - 1
  BY <1>1
<1>12. c = [i \in 1..(n - 1) |-> c[i]]
  BY <1>10
<1>13. \A i \in 1..(n - 1) : s[i] = c[i]
  BY <1>8, <1>10, <1>11
<1>14. s = c
  BY <1>8, <1>12, <1>13
<1> QED BY <1>7, <1>9, <1>14

\* A failed child cannot commit.
LEMMA CommitFailedSound ==
    ASSUME IInv, CommitFailed
    PROVE  IInv' /\ (KeepInv => KeepInv')
<1>1. PICK n, b, p, u : n = Len(txns) /\ b = Front(Front(txns)) /\ p = txns[n - 1] /\ u = [p EXCEPT !.error = TRUE]
  OBVIOUS
<1>2. TypeInv /\ LevelInv /\ DbInv /\ txns # <<>> /\ n \in Nat /\ n # 0
  BY <1>1 DEF IInv, CommitFailed, TypeInv
<1>3. pgstate' = RestoredPgstate /\ map' = map /\ db' = db /\ ops' = ops
  BY DEF CommitFailed
<1>4. CASE n = 1
  <2>1. txns' = <<>>
    BY <1>1, <1>4 DEF CommitFailed
  <2>2. pgstate' = NothingRead
    BY <1>1, <1>3, <1>4 DEF RestoredPgstate
  <2>3. LevelInv' /\ ErrorInv' /\ IdleInv' /\ KeepInv'
    BY <2>1, <2>2 DEF LevelInv, Levels, ErrorInv, IdleInv, KeepInv
  <2>4. TypeInv' /\ DbInv'
    BY <1>2, <1>3, <2>1, <2>2, NothingReadType DEF TypeInv, DbInv
  <2> QED BY <2>3, <2>4 DEF IInv
<1>5. CASE n # 1
  <2>0. n > 1
    BY <1>2, <1>5
  <2>1. /\ b \in Seq(Txn) /\ p \in Txn /\ Len(b) = n - 2
        /\ (\A i \in 1..(n - 2) : b[i] = txns[i] /\ ~txns[i].error)
        /\ Levels(db, b, p.saved)
        /\ Level(db, Frame(db.root, b), p, Top.saved, {})
    BY <1>1, <2>0, TwoTop, ZenonT(40) DEF Parent
  <2>2. txns' = Append(b, u)
    BY <1>1, <2>0, FailedParent
  <2>3. /\ u \in Txn /\ u.dirty = p.dirty /\ u.spill = p.spill /\ u.root = p.root /\ u.free = p.free
        /\ u.loose = p.loose /\ u.next = p.next /\ u.saved = p.saved
    BY <1>1, <2>1 DEF Txn
  <2>4. u.error = TRUE
    BY <1>1, <2>1 DEF Txn
  <2>5. Listed(u) = Listed(p)
    BY <2>3 DEF Listed
  <2>6. Level(db, Frame(db.root, b), u, Top.saved, {})
    BY <2>1, <2>3, <2>4, <2>5, LevelFailed
  <2>7. pgstate' = Top.saved /\ Top.saved \in PgStates
    <3>1. Top \in Txn
      BY <1>2, TopSound
    <3> QED BY <1>1, <1>3, <1>5, <3>1 DEF RestoredPgstate, Txn
  <2>8. pgstate' \in PgStates /\ Level(db, Frame(db.root, b), u, pgstate', {}) /\ Levels(db, b, u.saved)
    BY <2>1, <2>3, <2>6, <2>7
  <2>9. \A i \in 1..Len(b) : ~b[i].error
    BY <2>1
  <2>10. IInv'
    BY <1>3, <2>1, <2>2, <2>3, <2>8, <2>9, Replaced
  <2>11. ASSUME KeepInv PROVE KeepInv'
    <3>1. PICK s : s = Append(b, u)
      OBVIOUS
    <3>2. Len(s) = n - 1 /\ s[n - 1] = u /\ \A i \in 1..(n - 2) : s[i] = b[i]
      BY <1>2, <2>1, <2>3, <3>1
    <3>3. \A i \in 1..(n - 1) : i \in 1..(n - 2) \/ i = n - 1
      BY <1>2
    <3>4. (\A i \in 1..(n - 2) : i \in 1..n) /\ n - 1 \in 1..n
      BY <1>2, <2>0
    <3>5. ASSUME NEW i \in 1..(n - 1), ~s[i].error PROVE \A q \in DOMAIN s[i].dirty : s[i].dirty[q].keep = FALSE
      <4>1. i \in 1..(n - 2)
        BY <2>4, <3>2, <3>3, <3>5
      <4>2. s[i] = txns[i] /\ ~txns[i].error /\ i \in 1..n
        BY <2>1, <3>2, <3>4, <4>1
      <4> QED BY <1>1, <2>11, <4>2 DEF KeepInv
    <3> QED BY <2>2, <3>1, <3>2, <3>5 DEF KeepInv
  <2> QED BY <2>10, <2>11
<1> QED BY <1>4, <1>5

\* The pages of a flushed map.
LEMMA FlushedMap ==
    ASSUME NEW d \in DirtyLists, NEW P, P \subseteq DOMAIN d, map \in [Pages -> Contents],
           NEW m, m = Flushed(d, P)
    PROVE  /\ m \in [Pages -> Contents]
           /\ \A q \in Pages : m[q] = IF q \in P THEN d[q].val ELSE map[q]
<1>1. DOMAIN d \subseteq Pages /\ \A q \in DOMAIN d : d[q] \in Page
  BY DirtyList
<1>2. \A q \in P : d[q].val \in Contents
  BY <1>1 DEF Page
<1> QED BY <1>2 DEF Flushed

\* The only transaction.
LEMMA OnlyOne ==
    ASSUME IInv, Len(txns) = 1, ~Top.error
    PROVE  /\ Top \in Txn /\ Front(txns) = <<>> /\ txns = Append(<<>>, Top)
           /\ Level(db, Frame(db.root, <<>>), Top, pgstate, {})
           /\ Top.dirty \in DirtyLists /\ db \in DbType /\ map \in [Pages -> Contents]
           /\ Frame(db.root, <<>>) = [free |-> {}, loose |-> {}, mem |-> {}, listed |-> {}, spilled |-> {},
                                      used |-> UsedBy(db.root), clean |-> UsedBy(db.root)]
<1>1. TypeInv /\ LevelInv /\ txns # <<>> /\ db \in DbType /\ map \in [Pages -> Contents]
  BY DEF IInv, TypeInv, DbType
<1>2. Front(txns) = <<>>
  BY <1>1, FrontSound
<1>3. Top \in Txn /\ Level(db, Frame(db.root, <<>>), Top, pgstate, {}) /\ txns = Append(<<>>, Top)
  BY <1>1, <1>2, TopSound
<1>4. db.root \in Roots /\ Top.dirty \in DirtyLists
  BY <1>1, <1>3 DEF DbType, Txn
<1> QED BY <1>1, <1>2, <1>3, <1>4, FrameEmpty

\* The new state of the database accounts for every page.
LEMMA CommittedPlaced ==
    ASSUME NEW d, NEW t, NEW pg \in PgStates, NEW e, NEW loose, NEW free,
           Placed(d, t.root, free, loose, pg, t.next, {}),
           e.root = t.root, e.next = t.next,
           e.old = d.recent \cup (IF pg.read THEN pg.head \cup loose ELSE d.old),
           e.recent = free \cup (IF pg.read THEN {} ELSE loose)
    PROVE  Placed(e, e.root, {}, {}, NothingRead, e.next, {})
<1>1. PICK U, R, N, old, recent, head : /\ U = UsedBy(t.root) /\ R = d.recent /\ N = 2..(t.next - 1)
                                  /\ old = e.old /\ recent = e.recent /\ head = pg.head
  OBVIOUS
<1>2. Unread(e, NothingRead) = old /\ Reusable(e, NothingRead) = old /\ NothingRead.head = {}
  BY <1>1, NothingReadType DEF Unread, Reusable
<1>3. (pg.read = TRUE /\ Reusable(d, pg) = head) \/ (pg.read = FALSE /\ head = {} /\ Reusable(d, pg) = d.old)
  BY <1>1 DEF Reusable, Unread, PgStates
<1>4. PICK A : A = Reusable(d, pg)
  OBVIOUS
<1>5. /\ U \cup free \cup loose \cup A \cup R = N
      /\ U \cap free = {} /\ (U \cup free) \cap loose = {} /\ (U \cup free \cup loose) \cap A = {}
      /\ (U \cup free \cup loose \cup A) \cap R = {}
  BY <1>1, <1>4 DEF Placed
<1>6. \A j, k \in Keys : t.root[j] # NoPage /\ t.root[j] = t.root[k] => j = k
  BY DEF Placed
<1>7. \/ A = head /\ old = R \cup head \cup loose /\ recent = free
      \/ A = d.old /\ old = R \cup d.old /\ recent = free \cup loose
  BY <1>1, <1>3, <1>4
<1>8. U \cup old \cup recent = N /\ U \cap old = {} /\ (U \cup old) \cap recent = {}
  BY <1>5, <1>7
<1>9. UsedBy(e.root) = U /\ 2..(e.next - 1) = N
  BY <1>1
<1> QED BY <1>1, <1>2, <1>6, <1>8, <1>9 DEF Placed

\* The outermost commit.
LEMMA CommitSound ==
    ASSUME IInv, Commit
    PROVE  IInv' /\ KeepInv'
<1>1. /\ Len(txns) = 1 /\ ~Top.error /\ txns' = <<>> /\ pgstate' = NothingRead /\ ops' = ops
  BY DEF Commit
<1>2. TypeInv /\ DbInv /\ pgstate \in PgStates
  BY DEF IInv, TypeInv
<1>3. LevelInv' /\ ErrorInv' /\ IdleInv' /\ KeepInv'
  BY <1>1 DEF LevelInv, Levels, ErrorInv, IdleInv, KeepInv
<1>4. PICK f : f = Frame(db.root, <<>>)
  OBVIOUS
<1>5. /\ Top \in Txn /\ Level(db, f, Top, pgstate, {}) /\ Top.dirty \in DirtyLists /\ db \in DbType
      /\ map \in [Pages -> Contents]
      /\ f = [free |-> {}, loose |-> {}, mem |-> {}, listed |-> {}, spilled |-> {},
              used |-> UsedBy(db.root), clean |-> UsedBy(db.root)]
  BY <1>1, <1>4, OnlyOne
<1>6. CASE Top.wrote
  <2>1. PICK loose, e : /\ loose = Range(Top.loose)
                        /\ e = [root |-> Top.root, next |-> Top.next,
                                old |-> db.recent \cup (IF pgstate.read THEN pgstate.head \cup loose ELSE db.old),
                                recent |-> Top.free \cup (IF pgstate.read THEN {} ELSE loose)]
    OBVIOUS
  <2>2. db' = e /\ map' = Flushed(Top.dirty, ToFlush)
    BY <1>6, <2>1 DEF Commit
  <2>3. /\ e.root = Top.root /\ e.next = Top.next
        /\ e.old = db.recent \cup (IF pgstate.read THEN pgstate.head \cup loose ELSE db.old)
        /\ e.recent = Top.free \cup (IF pgstate.read THEN {} ELSE loose)
    BY <2>1
  <2>4. Placed(db, Top.root, f.free \cup Top.free, f.loose \cup Range(Top.loose), pgstate, Top.next, {})
    BY <1>5 DEF Level
  <2>5. f.free \cup Top.free = Top.free /\ f.loose \cup Range(Top.loose) = loose
    BY <1>5, <2>1
  <2>6. Placed(db, Top.root, Top.free, loose, pgstate, Top.next, {})
    BY <2>4, <2>5
  <2>7. Placed(e, e.root, {}, {}, NothingRead, e.next, {})
    BY <1>2, <2>3, <2>6, CommittedPlaced
  <2>8. DbInv'
    BY <2>2, <2>7 DEF DbInv
  <2>9. map' \in [Pages -> Contents]
    <3>1. PICK P, d : P = ToFlush /\ d = Top.dirty
      OBVIOUS
    <3>2. P \subseteq DOMAIN d /\ d \in DirtyLists
      BY <1>5, <3>1 DEF ToFlush
    <3>3. map' = Flushed(d, P)
      BY <2>2, <3>1
    <3> QED BY <1>5, <3>2, <3>3, FlushedMap
  <2>10. e \in [root : Roots, next : 2..MaxPg, old : SUBSET Pages, recent : SUBSET Pages]
    <3>1. /\ Top.root \in Roots /\ Top.next \in 2..MaxPg /\ Top.free \subseteq Pages /\ loose \subseteq Pages
      BY <1>5, <2>1, TxnPages DEF Txn
    <3>2. db.recent \subseteq Pages /\ db.old \subseteq Pages /\ pgstate.head \subseteq Pages
      BY <1>2, <1>5 DEF DbType, PgStates
    <3>3. e.old \subseteq Pages /\ e.recent \subseteq Pages
      BY <2>3, <3>1, <3>2
    <3>4. PICK x, y : x = e.old /\ y = e.recent
      OBVIOUS
    <3>5. e = [root |-> Top.root, next |-> Top.next, old |-> x, recent |-> y]
      BY <2>1, <2>3, <3>4
    <3> QED BY <3>1, <3>3, <3>4, <3>5
  <2>11. TypeInv'
    BY <1>1, <1>2, <2>2, <2>9, <2>10, NothingReadType DEF TypeInv
  <2> QED BY <1>3, <2>8, <2>11 DEF IInv
<1>7. CASE ~Top.wrote
  <2>1. db' = db /\ map' = map
    BY <1>7 DEF Commit
  <2>2. TypeInv' /\ DbInv'
    BY <1>1, <1>2, <2>1, NothingReadType DEF TypeInv, DbInv
  <2> QED BY <1>3, <2>2 DEF IInv
<1> QED BY <1>6, <1>7

\* The outermost commit fails.
LEMMA CommitFailsSound ==
    ASSUME IInv, CommitFails
    PROVE  IInv' /\ KeepInv'
<1>1. /\ Len(txns) = 1 /\ ~Top.error /\ txns' = <<>> /\ pgstate' = NothingRead /\ ops' = ops + 1 /\ db' = db
  BY DEF CommitFails
<1>2. TypeInv /\ DbInv /\ pgstate \in PgStates /\ ops \in Nat
  BY DEF IInv, TypeInv
<1>3. LevelInv' /\ ErrorInv' /\ IdleInv' /\ KeepInv'
  BY <1>1 DEF LevelInv, Levels, ErrorInv, IdleInv, KeepInv
<1>4. PICK P \in SUBSET ToFlush : map' = Flushed(Top.dirty, P)
  BY DEF CommitFails
<1>5. Top.dirty \in DirtyLists /\ map \in [Pages -> Contents]
  BY <1>1, OnlyOne
<1>6. map' \in [Pages -> Contents]
  <2>1. PICK d : d = Top.dirty
    OBVIOUS
  <2>2. P \subseteq DOMAIN d /\ d \in DirtyLists /\ map' = Flushed(d, P)
    BY <1>4, <1>5, <2>1 DEF ToFlush
  <2> QED BY <1>5, <2>2, FlushedMap
<1>7. TypeInv' /\ DbInv'
  BY <1>1, <1>2, <1>6, NothingReadType DEF TypeInv, DbInv
<1> QED BY <1>3, <1>7 DEF IInv

\* A bijection from the keys to as many pages.
LEMMA PagesForKeys ==
    ASSUME NEW n, n = Cardinality(Keys)
    PROVE  n \in Nat /\ n + 3 <= MaxPg /\ MaxPg \in Nat /\ Bijection(Keys, 2..(n + 1)) # {}
<1>1. IsFiniteSet(Keys) /\ n + 3 <= MaxPg /\ MaxPg \in Nat
  BY ConstantsAssumption
<1>2. n \in Nat /\ ExistsBijection(1..n, Keys)
  BY <1>1, FS_CardinalityType
<1>3. PICK A, B : A = 1..n /\ B = 2..(n + 1)
  OBVIOUS
<1>4. ExistsBijection(Keys, A)
  BY <1>2, <1>3, Fun_ExistsBijSymmetric
<1>5. ExistsBijection(A, B)
  <2>1. PICK g : g = [i \in A |-> i + 1]
    OBVIOUS
  <2>2. g \in [A -> B] /\ (\A a, b \in A : g[a] = g[b] => a = b)
    BY <1>2, <1>3, <2>1
  <2>3. \A t \in B : \E s \in A : g[s] = t
    <3> TAKE t \in B
    <3>1. t - 1 \in A /\ (t - 1) + 1 = t
      BY <1>2, <1>3
    <3> QED BY <2>1, <3>1
  <2>4. g \in Bijection(A, B)
    BY <2>2, <2>3, Fun_IsBij
  <2> QED BY <2>4, Fun_ExistsBij
<1>6. ExistsBijection(Keys, B)
  BY <1>4, <1>5, Fun_ExistsBijTransitive
<1> QED BY <1>1, <1>2, <1>3, <1>6, Fun_ExistsBij

\* A new environment, or one in use, accounts for every page.
LEMMA InitDb ==
    ASSUME NEW d \in {NewDb, UsedDb}
    PROVE  d \in DbType /\ Placed(d, d.root, {}, {}, NothingRead, d.next, {})
<1>0. PICK n : n = Cardinality(Keys)
  OBVIOUS
<1>1. n \in Nat /\ n + 3 <= MaxPg /\ MaxPg \in Nat /\ Bijection(Keys, 2..(n + 1)) # {}
  BY <1>0, PagesForKeys
<1>2. NoPage \notin Nat
  BY ConstantsAssumption
<1>3. ASSUME NEW root \in Roots, NEW next \in 2..MaxPg, NEW old \in SUBSET Pages, d.root = root,
             d.next = next, d.old = old, d.recent = {},
             \A j, k \in Keys : root[j] # NoPage /\ root[j] = root[k] => j = k,
             UsedBy(root) \cup old = 2..(next - 1), UsedBy(root) \cap old = {}
      PROVE  Placed(d, d.root, {}, {}, NothingRead, d.next, {})
  <2>1. Unread(d, NothingRead) = old /\ Reusable(d, NothingRead) = old /\ NothingRead.head = {}
    BY <1>3, NothingReadType DEF Unread, Reusable
  <2> QED BY <1>3, <2>1 DEF Placed
<1>4. CASE d = NewDb
  <2>1. PICK root : root = [k \in Keys |-> NoPage]
    OBVIOUS
  <2>2. d = [root |-> root, next |-> 2, old |-> {}, recent |-> {}]
    BY <1>4, <2>1 DEF NewDb
  <2>3. root \in Roots /\ UsedBy(root) = {}
    BY <2>1 DEF Roots, UsedBy
  <2>4. 2 \in 2..MaxPg /\ 2..(2 - 1) = {} /\ {} \in SUBSET Pages
    BY <1>1
  <2>5. d \in DbType
    BY <2>2, <2>3, <2>4 DEF DbType
  <2>6. d.root = root /\ d.next = 2 /\ d.old = {} /\ d.recent = {}
    BY <2>2
  <2>7. \A k \in Keys : root[k] = NoPage
    BY <2>1
  <2>8. Placed(d, d.root, {}, {}, NothingRead, d.next, {})
    BY <1>3, <2>3, <2>4, <2>6, <2>7
  <2> QED BY <2>5, <2>8
<1>5. CASE d = UsedDb
  <2>1. PICK root, B : root = (CHOOSE g \in Bijection(Keys, 2..(n + 1)) : TRUE) /\ B = 2..(n + 1)
    OBVIOUS
  <2>2. d = [root |-> root, next |-> n + 3, old |-> {n + 2}, recent |-> {}]
    BY <1>0, <1>5, <2>1 DEF UsedDb
  <2>3. root \in Bijection(Keys, B)
    BY <1>1, <2>1
  <2>4. /\ root \in [Keys -> B] /\ (\A a, b \in Keys : root[a] = root[b] => a = b)
        /\ \A t \in B : \E s \in Keys : root[s] = t
    BY <2>3, Fun_BijectionProperties
  <2>5. /\ B \subseteq Pages /\ NoPage \notin B /\ n + 2 \notin B /\ n + 2 \in Pages /\ n + 3 \in 2..MaxPg
        /\ B \cup {n + 2} = 2..((n + 3) - 1)
    BY <1>1, <1>2, <2>1 DEF Pages
  <2>6. root \in Roots
    BY <2>4, <2>5 DEF Roots
  <2>7. UsedBy(root) = B
    BY <2>4, <2>5 DEF UsedBy
  <2>8. PICK next, old : next = n + 3 /\ old = {n + 2}
    OBVIOUS
  <2>9. d = [root |-> root, next |-> next, old |-> old, recent |-> {}]
    BY <2>2, <2>8
  <2>10. next \in 2..MaxPg /\ old \in SUBSET Pages /\ B \cup old = 2..(next - 1) /\ B \cap old = {}
    BY <2>5, <2>8
  <2>11. d \in DbType
    BY <2>6, <2>9, <2>10 DEF DbType
  <2>12. d.root = root /\ d.next = next /\ d.old = old /\ d.recent = {}
    BY <2>9
  <2>13. Placed(d, d.root, {}, {}, NothingRead, d.next, {})
    BY <1>3, <2>4, <2>6, <2>7, <2>10, <2>12
  <2> QED BY <2>11, <2>13
<1> QED BY <1>4, <1>5

\* The invariant holds at first.
LEMMA InitInv == Init => IInv /\ KeepInv
<1> SUFFICES ASSUME Init PROVE IInv /\ KeepInv
  OBVIOUS
<1>1. txns = <<>> /\ pgstate = NothingRead /\ ops = 0 /\ db \in {NewDb, UsedDb}
  BY DEF Init
<1>2. db \in DbType /\ DbInv
  BY <1>1, InitDb DEF DbInv
<1>3. map \in [Pages -> Contents]
  BY DEF Init, Contents
<1>4. TypeInv
  BY <1>1, <1>2, <1>3, NothingReadType DEF TypeInv, DbType
<1>5. LevelInv /\ ErrorInv /\ IdleInv /\ KeepInv
  BY <1>1 DEF LevelInv, Levels, ErrorInv, IdleInv, KeepInv
<1> QED BY <1>2, <1>4, <1>5 DEF IInv

\* And no step breaks it.
LEMMA NextInv ==
    ASSUME IInv, [Next]_vars
    PROVE  IInv'
<1>1. CASE UNCHANGED vars
  <2>1. txns' = txns /\ map' = map /\ pgstate' = pgstate /\ db' = db /\ ops' = ops
    BY <1>1 DEF vars
  <2> QED BY <2>1 DEF IInv, TypeInv, DbInv, LevelInv, ErrorInv, IdleInv
<1>2. CASE Begin
  BY <1>2, BeginSound
<1>3. CASE BeginNested
  BY <1>3, BeginNestedSound
<1>4. CASE Abort
  BY <1>4, AbortSound
<1>5. CASE CommitNested
  BY <1>5, CommitNestedSound
<1>6. CASE CommitFailed
  BY <1>6, CommitFailedSound
<1>7. CASE Commit
  BY <1>7, CommitSound
<1>8. CASE CommitFails
  BY <1>8, CommitFailsSound
<1>9. CASE SpillFails
  BY <1>9, SpillFailsSound
<1>10. CASE Drop
  BY <1>10, DropSound
<1>11. ASSUME NEW k \in Keys, Operation(k), CanWrite PROVE IInv'
  BY <1>11, OperationSound
<1>12. CASE \E k \in Leaves : DelLeaf(k) \/ MergeLeaf(k) \/ \E v \in Values : PutLeaf(k, v)
  <2>1. PICK k \in Leaves : DelLeaf(k) \/ MergeLeaf(k) \/ \E v \in Values : PutLeaf(k, v)
    BY <1>12
  <2>2. k \in Keys
    BY DEF Keys
  <2>3. CanWrite
    BY <2>1 DEF DelLeaf, MergeLeaf, PutLeaf
  <2>4. Operation(k)
    BY <2>1, <2>2, DelLeafIs, MergeLeafIs, PutLeafIs
  <2> QED BY <1>11, <2>2, <2>3, <2>4
<1>13. CASE \E k \in Overflows : DelOverflow(k) \/ \E v \in Values : PutOverflow(k, v)
  <2>1. PICK k \in Overflows : DelOverflow(k) \/ \E v \in Values : PutOverflow(k, v)
    BY <1>13
  <2>2. k \in Keys
    BY DEF Keys
  <2>3. CanWrite
    BY <2>1 DEF DelOverflow, PutOverflow
  <2>4. Operation(k)
    BY <2>1, <2>2, DelOverflowIs, PutOverflowIs
  <2> QED BY <1>11, <2>2, <2>3, <2>4
<1> QED BY <1>1, <1>2, <1>3, <1>4, <1>5, <1>6, <1>7, <1>8, <1>9, <1>10, <1>12, <1>13 DEF Next

-----------------------------------------------------------------------------
\* The lists of every transaction of the stack fit together, each page is in one
\* place for each of them, and the pages that a transaction may write are read
\* from the map by none below it.
THEOREM StackInvariant == Spec => []IInv
<1>1. Init => IInv
  BY InitInv
<1>2. IInv /\ [Next]_vars => IInv'
  BY NextInv
<1> QED BY <1>1, <1>2, PTL DEF Spec

\* The i-th transaction t of the stack, the b below it, and the s up to it.
Stood(i, b, s, t) ==
    /\ b \in Seq(Txn) /\ t \in Txn /\ s = Append(b, t) /\ s \in Seq(Txn) /\ Len(b) = i - 1
    /\ \A j \in 1..(i - 1) : b[j] = txns[j]
    /\ Level(db, Frame(db.root, b), t, PgAt(txns, pgstate, i), {})
    /\ Frame(db.root, s) = Push(Frame(db.root, b), t)

\* What holds of it.
LEMMA AtLevel ==
    ASSUME IInv, NEW i \in 1..Len(txns), NEW b, b = SubSeq(txns, 1, i - 1), NEW s, s = SubSeq(txns, 1, i),
           NEW t, t = txns[i]
    PROVE  Stood(i, b, s, t)
<1>1. txns \in Seq(Txn) /\ Len(txns) \in Nat
  BY DEF IInv, TypeInv
<1>2. PICK n : n = Len(txns)
  OBVIOUS
<1>3. b \in Seq(Txn) /\ Len(b) = i - 1 /\ \A j \in 1..(i - 1) : b[j] = txns[j]
  BY <1>1
<1>4. t \in Txn
  BY <1>1
<1>5. s \in Seq(Txn) /\ Len(s) = i /\ \A j \in 1..i : s[j] = txns[j]
  BY <1>1
<1>6. s = Append(b, t)
  <2>1. PICK c : c = Append(b, t)
    OBVIOUS
  <2>2. c \in Seq(Txn) /\ Len(c) = i /\ c[i] = t /\ \A j \in 1..(i - 1) : c[j] = b[j]
    BY <1>1, <1>3, <1>4, <2>1
  <2>3. \A j \in 1..i : j \in 1..(i - 1) \/ j = i
    BY <1>1
  <2>4. \A j \in 1..i : s[j] = c[j]
    BY <1>3, <1>5, <2>2, <2>3
  <2>5. Len(s) = Len(c) /\ \A j \in 1..Len(s) : s[j] = c[j]
    BY <1>5, <2>2, <2>4
  <2>6. s = c
    BY <1>5, <2>2, <2>5, SeqEqual
  <2> QED BY <2>1, <2>6
<1>7. Level(db, Frame(db.root, b), t, PgAt(txns, pgstate, i), {})
  BY DEF IInv, LevelInv, Levels
<1>8. Frame(db.root, s) = Push(Frame(db.root, b), t)
  BY <1>3, <1>4, <1>6, FramePush, ZenonT(40)
<1> QED BY <1>3, <1>4, <1>5, <1>6, <1>7, <1>8 DEF Stood

\* For every transaction, the places left in the dirty list are those not taken
\* by the pages it finds in memory.
LEMMA RoomIs == IInv => RoomExact
<1> SUFFICES ASSUME IInv, NEW i \in 1..Len(txns), ~txns[i].error
             PROVE  txns[i].room = MaxDirty - Cardinality({p \in Pages : PageGet(SubSeq(txns, 1, i), map, p).dirty})
  BY DEF RoomExact
<1>1. PICK b, s, t, f : b = SubSeq(txns, 1, i - 1) /\ s = SubSeq(txns, 1, i) /\ t = txns[i] /\ f = Frame(db.root, b)
  OBVIOUS
<1>2. /\ s \in Seq(Txn) /\ Level(db, f, t, PgAt(txns, pgstate, i), {})
      /\ Frame(db.root, s) = Push(f, t)
  <2>1. Stood(i, b, s, t)
    BY <1>1, AtLevel
  <2> QED BY <1>1, <2>1 DEF Stood
<1>3. ListsOK(f, t)
  BY <1>1, <1>2 DEF Level
<1>4. t.room = MaxDirty - Cardinality(Memory(f.mem, t))
  BY <1>3 DEF ListsOK
<1>5. map \in [Pages -> Contents]
  BY DEF IInv, TypeInv
<1>6. Frame(db.root, s).mem = Memory(f.mem, t)
  BY <1>2 DEF Push
<1>7. \A p \in Pages : PageGet(s, map, p).dirty <=> p \in Frame(db.root, s).mem
  BY <1>2, <1>5, GetInFrame
<1>8. Frame(db.root, s).mem \subseteq Pages
  BY <1>2, FrameType DEF Frames
<1>9. {p \in Pages : PageGet(s, map, p).dirty} = Memory(f.mem, t)
  BY <1>6, <1>7, <1>8
<1> QED BY <1>1, <1>4, <1>9

\* For every transaction, the lists are disjoint and its loose pages are dirty.
LEMMA ListsAre == IInv => ListsConsistent
<1> SUFFICES ASSUME IInv, NEW i \in 1..Len(txns), ~txns[i].error
             PROVE  /\ DOMAIN txns[i].dirty \cap txns[i].spill = {}
                    /\ Range(txns[i].loose) \subseteq DOMAIN txns[i].dirty
                    /\ \A j \in 1..(i - 1) : txns[i].spill \cap txns[j].spill = {}
  BY DEF ListsConsistent
<1>1. PICK b, s, t, f : b = SubSeq(txns, 1, i - 1) /\ s = SubSeq(txns, 1, i) /\ t = txns[i] /\ f = Frame(db.root, b)
  OBVIOUS
<1>2. /\ Level(db, f, t, PgAt(txns, pgstate, i), {}) /\ b \in Seq(Txn) /\ t \in Txn
      /\ Len(b) = i - 1 /\ \A j \in 1..(i - 1) : b[j] = txns[j]
  <2>1. Stood(i, b, s, t)
    BY <1>1, AtLevel
  <2> QED BY <1>1, <2>1 DEF Stood
<1>3. ListsOK(f, t)
  BY <1>1, <1>2 DEF Level
<1>4. DOMAIN t.dirty \cap t.spill = {} /\ Range(t.loose) \subseteq DOMAIN t.dirty /\ t.spill \cap f.spilled = {}
  BY <1>3 DEF ListsOK
<1>5. ASSUME NEW j \in 1..(i - 1) PROVE t.spill \cap txns[j].spill = {}
  <2>1. t.spill \subseteq Pages
    BY <1>2, TxnPages
  <2>2. \A p \in Pages : p \in b[j].spill => p \in f.spilled
    BY <1>1, <1>2 DEF Frame
  <2> QED BY <1>2, <1>4, <2>1, <2>2
<1> QED BY <1>1, <1>4, <1>5

\* The pages of disjoint sets.
LEMMA TwoDisjoint ==
    ASSUME NEW A, NEW B, A \subseteq Pages, B \subseteq Pages, A \cap B = {}
    PROVE  Cardinality(A \cup B) = Cardinality(A) + Cardinality(B) /\ A \cup B \subseteq Pages
           /\ Cardinality(A) \in Nat /\ Cardinality(B) \in Nat
<1>1. IsFiniteSet(A) /\ IsFiniteSet(B) /\ Cardinality(A) \in Nat /\ Cardinality(B) \in Nat
  BY PagesFinite
<1>2. Cardinality(A \cup B) = Cardinality(A) + Cardinality(B) - Cardinality(A \cap B)
  BY <1>1, FS_Union
<1>3. Cardinality(A \cap B) = 0
  BY FS_EmptySet
<1> QED BY <1>1, <1>2, <1>3

\* As many keys have a page as there are pages in use.
LEMMA KeysAndPages ==
    ASSUME NEW root \in Roots, \A j, k \in Keys : root[j] # NoPage /\ root[j] = root[k] => j = k
    PROVE  Cardinality({k \in Keys : root[k] # NoPage}) = Cardinality(UsedBy(root))
<1>1. PICK A, B, g : A = {k \in Keys : root[k] # NoPage} /\ B = UsedBy(root) /\ g = [k \in A |-> root[k]]
  OBVIOUS
<1>2. g \in [A -> B] /\ (\A a, b \in A : g[a] = g[b] => a = b)
  BY <1>1 DEF UsedBy
<1>3. \A t \in B : \E s \in A : g[s] = t
  BY <1>1 DEF UsedBy
<1>4. g \in Bijection(A, B)
  BY <1>2, <1>3, Fun_IsBij
<1>5. ExistsBijection(A, B)
  BY <1>4, Fun_ExistsBij
<1>6. IsFiniteSet(A)
  <2>1. IsFiniteSet(Keys) /\ A \subseteq Keys
    BY <1>1, ConstantsAssumption
  <2> QED BY <2>1, FS_Subset
<1>7. Cardinality(B) = Cardinality(A)
  BY <1>5, <1>6, FS_Bijection
<1> QED BY <1>1, <1>7

\* PagesAccounted for a transaction t, with the freed and loose pages of those up
\* to it.
AccountedAt(t, pg, free, loose) ==
    LET used == {t.root[k] : k \in Keys} \ {NoPage}
        unread == IF pg.read THEN {} ELSE db.old
    IN  /\ used \cup free \cup loose \cup pg.head \cup unread \cup db.recent = 2..(t.next - 1)
        /\ t.next - 2 = Cardinality({k \in Keys : t.root[k] # NoPage})
             + Cardinality(free) + Cardinality(loose) + Cardinality(pg.head)
             + Cardinality(unread) + Cardinality(db.recent)

\* For every transaction, every page is in one place.
LEMMA PagesAre == IInv => PagesAccounted
<1> SUFFICES ASSUME IInv, NEW i \in 1..Len(txns)
             PROVE  AccountedAt(txns[i], IF i = Len(txns) THEN pgstate ELSE txns[i + 1].saved,
                                UNION {txns[j].free : j \in 1..i}, UNION {Range(txns[j].loose) : j \in 1..i})
  BY DEF PagesAccounted, AccountedAt
<1>0. PICK t, pg, free, loose, used, unread :
          /\ t = txns[i] /\ pg = IF i = Len(txns) THEN pgstate ELSE txns[i + 1].saved
          /\ free = UNION {txns[j].free : j \in 1..i} /\ loose = UNION {Range(txns[j].loose) : j \in 1..i}
          /\ used = {t.root[k] : k \in Keys} \ {NoPage}
          /\ unread = IF pg.read THEN {} ELSE db.old
  OBVIOUS
<1>1. PICK b, s, f : b = SubSeq(txns, 1, i - 1) /\ s = SubSeq(txns, 1, i) /\ f = Frame(db.root, b)
  OBVIOUS
<1>2. /\ Level(db, f, t, PgAt(txns, pgstate, i), {}) /\ b \in Seq(Txn) /\ t \in Txn
      /\ Len(b) = i - 1 /\ (\A j \in 1..(i - 1) : b[j] = txns[j])
  <2>1. Stood(i, b, s, t)
    BY <1>0, <1>1, AtLevel
  <2> QED BY <1>1, <2>1 DEF Stood
<1>3. PgAt(txns, pgstate, i) = pg
  BY <1>0 DEF PgAt
<1>4. Placed(db, t.root, f.free \cup t.free, f.loose \cup Range(t.loose), pg, t.next, {})
  BY <1>2, <1>3 DEF Level
<1>5. txns \in Seq(Txn) /\ Len(txns) \in Nat
  BY DEF IInv, TypeInv
<1>6. \A j \in 1..i : j \in 1..(i - 1) \/ j = i
  BY <1>5
<1>7. (\A j \in 1..(i - 1) : j \in 1..i /\ j \in 1..Len(txns)) /\ i \in 1..i
  BY <1>5
<1>8. \A j \in 1..(i - 1) : txns[j].free \subseteq Pages /\ Range(txns[j].loose) \subseteq Pages
  <2>1. \A j \in 1..(i - 1) : txns[j] \in Txn
    BY <1>5, <1>7
  <2> QED BY <2>1, TxnPages
<1>9. free = f.free \cup t.free
  <2>1. \A p : p \in free <=> \E j \in 1..i : p \in txns[j].free
    BY <1>0
  <2>2. \A p : p \in f.free <=> \E j \in 1..(i - 1) : p \in txns[j].free
    BY <1>1, <1>2, <1>8 DEF Frame
  <2>3. \A p : p \in free <=> p \in f.free \/ p \in t.free
    BY <1>0, <1>6, <1>7, <2>1, <2>2
  <2> QED BY <2>3
<1>10. loose = f.loose \cup Range(t.loose)
  <2>1. \A p : p \in loose <=> \E j \in 1..i : p \in Range(txns[j].loose)
    BY <1>0
  <2>2. \A p : p \in f.loose <=> \E j \in 1..(i - 1) : p \in Range(txns[j].loose)
    BY <1>1, <1>2, <1>8 DEF Frame
  <2>3. \A p : p \in loose <=> p \in f.loose \/ p \in Range(t.loose)
    BY <1>0, <1>6, <1>7, <2>1, <2>2
  <2> QED BY <2>3
<1>11. PICK head, recent, N : head = pg.head /\ recent = db.recent /\ N = 2..(t.next - 1)
  OBVIOUS
<1>12. used = UsedBy(t.root) /\ unread = Unread(db, pg) /\ Reusable(db, pg) = head \cup unread
  BY <1>0, <1>11 DEF UsedBy, Unread, Reusable
<1>13. /\ used \cup free \cup loose \cup (head \cup unread) \cup recent = N
       /\ used \cap free = {} /\ (used \cup free) \cap loose = {} /\ (used \cup free \cup loose) \cap (head \cup unread) = {}
       /\ (used \cup free \cup loose \cup (head \cup unread)) \cap recent = {} /\ head \cap unread = {}
  BY <1>4, <1>9, <1>10, <1>11, <1>12 DEF Placed
<1>14. t.next \in 2..MaxPg /\ t.root \in Roots /\ MaxPg \in Nat
  BY <1>2, ConstantsAssumption DEF Txn
<1>15. N \subseteq Pages /\ Cardinality(N) = t.next - 2
  <2>1. N \subseteq Pages
    BY <1>11, <1>14 DEF Pages
  <2>2. t.next - 1 \in Int /\ 2 \in Int /\ t.next \in Int /\ t.next >= 2
    BY <1>14
  <2>3. Cardinality(2..(t.next - 1)) = IF 2 > t.next - 1 THEN 0 ELSE (t.next - 1) - 2 + 1
    BY <2>2, FS_Interval
  <2> QED BY <1>11, <2>1, <2>2, <2>3
<1>16. /\ used \subseteq Pages /\ free \subseteq Pages /\ loose \subseteq Pages /\ head \subseteq Pages
       /\ unread \subseteq Pages /\ recent \subseteq Pages
  BY <1>13, <1>15
<1>17. PICK A, B, C, D : /\ A = used \cup free /\ B = A \cup loose /\ C = head \cup unread /\ D = B \cup C
  OBVIOUS
<1>18. Cardinality(A) = Cardinality(used) + Cardinality(free) /\ A \subseteq Pages
  <2>1. used \cap free = {}
    BY <1>13
  <2> QED BY <1>16, <1>17, <2>1, TwoDisjoint
<1>19. Cardinality(B) = Cardinality(A) + Cardinality(loose) /\ B \subseteq Pages
  <2>1. A \cap loose = {}
    BY <1>13, <1>17
  <2> QED BY <1>16, <1>17, <1>18, <2>1, TwoDisjoint
<1>20. Cardinality(C) = Cardinality(head) + Cardinality(unread) /\ C \subseteq Pages
  BY <1>13, <1>16, <1>17, TwoDisjoint
<1>21. Cardinality(D) = Cardinality(B) + Cardinality(C) /\ D \subseteq Pages
  <2>1. B \cap C = {}
    BY <1>13, <1>17
  <2> QED BY <1>17, <1>19, <1>20, <2>1, TwoDisjoint
<1>22. Cardinality(N) = Cardinality(D) + Cardinality(recent)
  <2>1. D \cap recent = {} /\ N = D \cup recent
    BY <1>13, <1>17
  <2> QED BY <1>16, <1>21, <2>1, TwoDisjoint
<1>23. Cardinality({k \in Keys : t.root[k] # NoPage}) = Cardinality(used)
  <2>1. \A j, k \in Keys : t.root[j] # NoPage /\ t.root[j] = t.root[k] => j = k
    BY <1>4 DEF Placed
  <2> QED BY <1>12, <1>14, <2>1, KeysAndPages
<1>24. PICK u, v, w, x, y, z : /\ u = Cardinality(used) /\ v = Cardinality(free) /\ w = Cardinality(loose)
                               /\ x = Cardinality(head) /\ y = Cardinality(unread) /\ z = Cardinality(recent)
  OBVIOUS
<1>25. u \in Nat /\ v \in Nat /\ w \in Nat /\ x \in Nat /\ y \in Nat /\ z \in Nat
  BY <1>16, <1>24, PagesFinite
<1>26. t.next - 2 = (((u + v) + w) + (x + y)) + z
  BY <1>15, <1>18, <1>19, <1>20, <1>21, <1>22, <1>24
<1>27. t.next - 2 = u + v + w + x + y + z
  BY <1>25, <1>26
<1>28. used \cup free \cup loose \cup head \cup unread \cup recent = N
  BY <1>13
<1>29. AccountedAt(t, pg, free, loose)
  <2>1. used \cup free \cup loose \cup pg.head \cup unread \cup db.recent = 2..(t.next - 1)
    BY <1>11, <1>28
  <2>2. t.next - 2 = Cardinality({k \in Keys : t.root[k] # NoPage})
                       + Cardinality(free) + Cardinality(loose) + Cardinality(pg.head)
                       + Cardinality(unread) + Cardinality(db.recent)
    BY <1>11, <1>23, <1>24, <1>27
  <2> QED BY <1>0, <2>1, <2>2 DEF AccountedAt
<1> QED BY <1>0, <1>29

\* mt_dirty_room counts every page that the stack of transactions finds in
\* memory, once, whatever was spilled, unspilled, copied or merged.
THEOREM RoomTheorem == Spec => []RoomExact
BY StackInvariant, RoomIs, PTL

\* A page is in one list of a transaction, spilled by one transaction at most,
\* and loose pages are dirty.
THEOREM ListsTheorem == Spec => []ListsConsistent
BY StackInvariant, ListsAre, PTL

\* No page is lost or in two places, for any transaction of the stack.
THEOREM PagesTheorem == Spec => []PagesAccounted
BY StackInvariant, PagesAre, PTL

-----------------------------------------------------------------------------
(* The refinement of NestedStore. *)

\* What the transaction t above b sees in the map m, and its place in the stack of
\* NestedStore.
Seen(b, t, m) == [k \in Keys |-> IF t.root[k] = NoPage THEN Blank
                                 ELSE PageGet(Append(b, t), m, t.root[k]).page.val]
State(b, t, m) == IF t.error THEN Failed ELSE Seen(b, t, m)
States(ts, m) == [i \in 1..Len(ts) |-> State(SubSeq(ts, 1, i - 1), ts[i], m)]

\* A prefix is one transaction above the next shorter one.
LEMMA Prefix ==
    ASSUME NEW ts \in Seq(Txn), NEW i \in 1..Len(ts), NEW b, b = SubSeq(ts, 1, i - 1), NEW s, s = SubSeq(ts, 1, i)
    PROVE  /\ b \in Seq(Txn) /\ ts[i] \in Txn /\ s = Append(b, ts[i]) /\ s \in Seq(Txn) /\ Len(b) = i - 1
           /\ Len(s) = i /\ s[i] = ts[i]
           /\ \A j \in 1..(i - 1) : b[j] = ts[j]
           /\ \A j \in 1..i : s[j] = ts[j]
<1>1. Len(ts) \in Nat
  OBVIOUS
<1>2. PICK t : t = ts[i]
  OBVIOUS
<1>3. b \in Seq(Txn) /\ Len(b) = i - 1 /\ (\A j \in 1..(i - 1) : b[j] = ts[j]) /\ t \in Txn
  BY <1>1, <1>2
<1>4. s \in Seq(Txn) /\ Len(s) = i /\ \A j \in 1..i : s[j] = ts[j]
  BY <1>1
<1>5. PICK c : c = Append(b, t)
  OBVIOUS
<1>6. c \in Seq(Txn) /\ Len(c) = i /\ c[i] = t /\ \A j \in 1..(i - 1) : c[j] = b[j]
  BY <1>1, <1>3, <1>5
<1>7. \A j \in 1..i : j \in 1..(i - 1) \/ j = i
  BY <1>1
<1>8. \A j \in 1..i : s[j] = c[j]
  BY <1>2, <1>3, <1>4, <1>6, <1>7
<1>9. Len(s) = Len(c) /\ \A j \in 1..Len(s) : s[j] = c[j]
  BY <1>4, <1>6, <1>8
<1>10. s = c
  BY <1>4, <1>6, <1>9, SeqEqual
<1>11. i \in 1..i
  BY <1>1
<1> QED BY <1>2, <1>3, <1>4, <1>5, <1>10, <1>11

\* The view of a transaction, written with the prefix up to it.
SeenAt(ts, m, i) ==
    LET s == SubSeq(ts, 1, i)
    IN  [k \in Keys |-> IF s[i].root[k] = NoPage THEN Blank ELSE PageGet(s, m, s[i].root[k]).page.val]

\* The two ways to write it.
LEMMA StatesAre ==
    ASSUME NEW ts \in Seq(Txn), NEW m
    PROVE  States(ts, m) = [i \in 1..Len(ts) |-> IF ts[i].error THEN Failed ELSE SeenAt(ts, m, i)]
<1>1. ASSUME NEW i \in 1..Len(ts) PROVE SeenAt(ts, m, i) = Seen(SubSeq(ts, 1, i - 1), ts[i], m)
  <2>1. PICK b, s, t : b = SubSeq(ts, 1, i - 1) /\ s = SubSeq(ts, 1, i) /\ t = ts[i]
    OBVIOUS
  <2>2. s = Append(b, t) /\ s[i] = t
    BY <2>1, Prefix
  <2>3. SeenAt(ts, m, i) = [k \in Keys |-> IF s[i].root[k] = NoPage THEN Blank ELSE PageGet(s, m, s[i].root[k]).page.val]
    BY <2>1 DEF SeenAt
  <2>4. PICK g : g = Append(b, t) /\ g = s
    BY <2>2
  <2>5. Seen(b, t, m) = [k \in Keys |-> IF t.root[k] = NoPage THEN Blank ELSE PageGet(g, m, t.root[k]).page.val]
    BY <2>4 DEF Seen
  <2>6. Seen(b, t, m) = [k \in Keys |-> IF t.root[k] = NoPage THEN Blank ELSE PageGet(s, m, t.root[k]).page.val]
    BY <2>4, <2>5
  <2> QED BY <2>1, <2>2, <2>3, <2>6, ZenonT(40)
<1>2. \A i \in 1..Len(ts) : State(SubSeq(ts, 1, i - 1), ts[i], m) = IF ts[i].error THEN Failed ELSE SeenAt(ts, m, i)
  BY <1>1 DEF State
<1> QED BY <1>2, Zenon DEF States

\* The stack grows by the state of the last transaction.
LEMMA StatesPush ==
    ASSUME NEW b \in Seq(Txn), NEW t \in Txn, NEW m
    PROVE  /\ States(Append(b, t), m) = Append(States(b, m), State(b, t, m))
           /\ Front(States(Append(b, t), m)) = States(b, m) /\ Last(States(Append(b, t), m)) = State(b, t, m)
           /\ States(Append(b, t), m) # <<>> /\ Len(States(b, m)) = Len(b)
<1>1. PICK s, n : s = Append(b, t) /\ n = Len(b)
  OBVIOUS
<1>2. /\ Len(s) = n + 1 /\ n \in Nat /\ s[n + 1] = t /\ \A i \in 1..n : s[i] = b[i]
      /\ \A i \in 0..n : SubSeq(s, 1, i) = SubSeq(b, 1, i)
  BY <1>1, Longer
<1>3. SubSeq(b, 1, n) = b
  BY <1>1
<1>4. PICK x, y, z : x = States(s, m) /\ y = States(b, m) /\ z = State(b, t, m)
  OBVIOUS
<1>5. x = [i \in 1..(n + 1) |-> x[i]] /\ y = [i \in 1..n |-> y[i]]
  BY <1>1, <1>2, <1>4 DEF States
<1>6. \A i \in 1..n : x[i] = y[i]
  <2> TAKE i \in 1..n
  <2>1. i - 1 \in 0..n /\ i \in 1..(n + 1)
    BY <1>2
  <2>2. x[i] = State(SubSeq(s, 1, i - 1), s[i], m)
    BY <1>2, <1>4, <2>1 DEF States
  <2>3. y[i] = State(SubSeq(b, 1, i - 1), b[i], m)
    BY <1>1, <1>4 DEF States
  <2> QED BY <1>2, <2>1, <2>2, <2>3
<1>7. x[n + 1] = z
  <2>1. (n + 1) - 1 = n /\ n \in 0..n /\ n + 1 \in 1..(n + 1)
    BY <1>2
  <2>2. x[n + 1] = State(SubSeq(s, 1, (n + 1) - 1), s[n + 1], m)
    BY <1>2, <1>4, <2>1 DEF States
  <2> QED BY <1>2, <1>3, <1>4, <2>1, <2>2
<1>8. PICK S : S = {y[i] : i \in 1..n} \cup {z}
  OBVIOUS
<1>9. y \in Seq(S) /\ Len(y) = n /\ z \in S
  <2>1. (\A i \in 1..n : y[i] \in S) /\ z \in S
    BY <1>8
  <2>2. y \in [1..n -> S]
    BY <1>5, <2>1
  <2>3. y \in Seq(S)
    BY <1>2, <2>2
  <2>4. DOMAIN y = 1..n
    BY <2>2
  <2> QED BY <1>2, <2>1, <2>3, <2>4
<1>10. PICK w : w = Append(y, z)
  OBVIOUS
<1>11. /\ w \in Seq(S) /\ Len(w) = n + 1 /\ w[n + 1] = z /\ (\A i \in 1..n : w[i] = y[i])
       /\ Front(w) = y /\ Last(w) = z /\ w # <<>>
  <2>1. y \in Seq(S) /\ z \in S
    BY <1>9
  <2>2. Front(w) = y /\ Last(w) = z
    BY <1>10, <2>1, Longer
  <2> QED BY <1>2, <1>9, <1>10, <2>2
<1>12. \A i \in 1..(n + 1) : i \in 1..n \/ i = n + 1
  BY <1>2
<1>13. \A i \in 1..(n + 1) : x[i] = w[i]
  BY <1>6, <1>7, <1>11, <1>12
<1>14. w = [i \in 1..(n + 1) |-> w[i]]
  BY <1>11
<1>15. x = w
  BY <1>5, <1>13, <1>14
<1> QED BY <1>1, <1>4, <1>9, <1>10, <1>11, <1>15

\* Every view is a state.
LEMMA SeenType ==
    ASSUME NEW b \in Seq(Txn), NEW t \in Txn, NEW m \in [Pages -> Contents]
    PROVE  Seen(b, t, m) \in [Keys -> Contents] /\ Seen(b, t, m) # Failed
<1>1. PICK s : s = Append(b, t)
  OBVIOUS
<1>2. s \in Seq(Txn)
  BY <1>1
<1>3. \A p \in Pages : PageGet(s, m, p).page \in Page
  BY <1>2, GetInFrame
<1>4. \A p \in Pages : PageGet(s, m, p).page.val \in Contents
  BY <1>3 DEF Page
<1>5. t.root \in [Keys -> Pages \cup {NoPage}]
  BY DEF Txn, Roots
<1>6. Seen(b, t, m) \in [Keys -> Contents]
  BY <1>1, <1>4, <1>5 DEF Seen, Contents
<1>7. Failed \notin [Keys -> Contents]
  BY ConstantsAssumption DEF Contents
<1> QED BY <1>6, <1>7

\* Two transactions that find the same in all pages of theirs see the same.
LEMMA SeenSame ==
    ASSUME NEW b, NEW t, NEW m, NEW c, NEW u, NEW n, NEW k \in Keys, u.root[k] = t.root[k],
           t.root[k] # NoPage =>
               PageGet(Append(c, u), n, t.root[k]).page.val = PageGet(Append(b, t), m, t.root[k]).page.val
    PROVE  Seen(c, u, n)[k] = Seen(b, t, m)[k]
BY DEF Seen

\* A page of the committed roots is read from the map as it is.
LEMMA RootsClean ==
    ASSUME NEW root \in Roots, NEW ts \in Seq(Txn), NEW k \in Keys, root[k] # NoPage
    PROVE  root[k] \in Pages /\ root[k] \in Frame(root, ts).clean
<1>1. root[k] \in Pages /\ root[k] \in UsedBy(root)
  BY DEF Roots, UsedBy
<1> QED BY <1>1 DEF Frame

\* Where a page is found, as a place only.
LEMMA Unlisted ==
    ASSUME NEW b \in Seq(Txn), NEW m, NEW p, NEW g, g = PageGet(b, m, p)
    PROVE  g.at \in 0..Len(b) /\ (g.at = 0 => \A i \in 1..Len(b) : p \notin Listed(b[i]))
<1>1. /\ g.at \in 0..Len(b)
      /\ g.at = 0 => /\ \A i \in 1..Len(b) : p \notin Listed(b[i])
                     /\ ~g.dirty /\ g.page = [val |-> m[p], keep |-> FALSE]
      /\ g.at # 0 => /\ p \in Listed(b[g.at])
                     /\ \A i \in (g.at + 1)..Len(b) : p \notin Listed(b[i])
                     /\ IF p \in b[g.at].spill
                        THEN ~g.dirty /\ g.page = [val |-> m[p], keep |-> FALSE]
                        ELSE g.dirty /\ g.page = b[g.at].dirty[p]
      /\ g = [at |-> g.at, dirty |-> g.dirty, page |-> g.page] /\ g.dirty \in BOOLEAN
  BY GetIs
<1> QED BY <1>1

\* Writing pages that no transaction reads from the map changes no view.
LEMMA StatesKept ==
    ASSUME NEW root, NEW b \in Seq(Txn), NEW c \in Seq(Txn), Alike(b, c), NEW m, NEW n,
           NEW f, f = Frame(root, b),
           \A q \in Pages : n[q] # m[q] => q \notin f.clean /\ q \notin f.spilled
    PROVE  States(c, n) = States(b, m)
<1>1. Len(c) = Len(b) /\ Len(b) \in Nat
  BY DEF Alike
<1>2. ASSUME NEW i \in 1..Len(b) PROVE SeenAt(c, n, i) = SeenAt(b, m, i)
  <2>1. PICK x, y, t, u : x = SubSeq(b, 1, i) /\ y = SubSeq(c, 1, i) /\ t = b[i] /\ u = c[i]
    OBVIOUS
  <2>2. /\ x \in Seq(Txn) /\ Len(x) = i /\ x[i] = t /\ t \in Txn
        /\ \A j \in 1..i : x[j] = b[j]
    BY <2>1, Prefix
  <2>3. /\ y \in Seq(Txn) /\ Len(y) = i /\ y[i] = u
        /\ \A j \in 1..i : y[j] = c[j]
    BY <1>1, <2>1, Prefix
  <2>4. \A j \in 1..i : j \in 1..Len(b)
    BY <1>1
  <2>5. Alike(x, y)
    BY <2>2, <2>3, <2>4 DEF Alike
  <2>6. u.root = t.root
    BY <2>1 DEF Alike, AlikeTxn
  <2>7. ASSUME NEW k \in Keys, t.root[k] # NoPage
        PROVE  PageGet(y, n, t.root[k]).page.val = PageGet(x, m, t.root[k]).page.val
    <3>1. PICK p : p = t.root[k]
      OBVIOUS
    <3>2. p \in Pages
      BY <2>2, <2>7, <3>1 DEF Txn, Roots
    <3>3. PICK g, h : g = PageGet(x, m, p) /\ h = PageGet(y, n, p)
      OBVIOUS
    <3>4. /\ (g.dirty \/ n[p] = m[p]) => h.page.val = g.page.val
          /\ g.at # 0 /\ ~g.dirty => p \in x[g.at].spill
      BY <2>2, <2>3, <2>5, <3>3, GetAlike
    <3>5. g.at \in 0..i /\ (g.at = 0 => \A j \in 1..i : p \notin Listed(x[j]))
      <4>1. g.at \in 0..Len(x) /\ (g.at = 0 => \A j \in 1..Len(x) : p \notin Listed(x[j]))
        BY <2>2, <3>3, Unlisted
      <4> QED BY <2>2, <4>1
    <3>6. CASE g.at = 0
      <4>1. \A j \in 1..i : p \notin Listed(b[j])
        BY <2>2, <3>5, <3>6
      <4>2. p \in UsedBy(b[i].root)
        BY <2>1, <2>7, <3>1 DEF UsedBy
      <4>3. p \in f.clean
        BY <3>2, <4>1, <4>2 DEF Frame
      <4> QED BY <3>1, <3>2, <3>3, <3>4, <4>3
    <3>7. CASE g.at # 0 /\ ~g.dirty
      <4>1. g.at \in 1..i
        BY <3>5, <3>7
      <4>2. p \in b[g.at].spill /\ g.at \in 1..Len(b)
        BY <2>2, <2>4, <3>4, <3>7, <4>1
      <4>3. p \in f.spilled
        BY <3>2, <4>2 DEF Frame
      <4> QED BY <3>1, <3>2, <3>3, <3>4, <4>3
    <3>8. CASE g.dirty
      BY <3>1, <3>3, <3>4, <3>8
    <3> QED BY <3>6, <3>7, <3>8
  <2>8. SeenAt(b, m, i) = [k \in Keys |-> IF t.root[k] = NoPage THEN Blank ELSE PageGet(x, m, t.root[k]).page.val]
    BY <2>1, <2>2 DEF SeenAt
  <2>9. SeenAt(c, n, i) = [k \in Keys |-> IF t.root[k] = NoPage THEN Blank ELSE PageGet(y, n, t.root[k]).page.val]
    BY <2>1, <2>3, <2>6 DEF SeenAt
  <2> QED BY <2>7, <2>8, <2>9
<1>3. \A i \in 1..Len(b) : c[i].error = b[i].error
  BY DEF Alike, AlikeTxn
<1>4. States(b, m) = [i \in 1..Len(b) |-> IF b[i].error THEN Failed ELSE SeenAt(b, m, i)]
  BY StatesAre
<1>5. States(c, n) = [i \in 1..Len(b) |-> IF c[i].error THEN Failed ELSE SeenAt(c, n, i)]
  BY <1>1, StatesAre
<1> QED BY <1>2, <1>3, <1>4, <1>5

\* What a transaction writes to the map while it is open disturbs nobody below it.
LEMMA BelowKept ==
    ASSUME IInv, txns # <<>>, NEW b \in Seq(Txn), Alike(Front(txns), b), NEW n,
           \A q \in Pages : n[q] # map[q] =>
               q \in Listed(Top) /\ q \notin Frame(db.root, Front(txns)).spilled
    PROVE  /\ States(b, n) = States(Front(txns), map)
           /\ \A k \in Keys : db.root[k] # NoPage => n[db.root[k]] = map[db.root[k]]
<1>1. PICK a, f : a = Front(txns) /\ f = Frame(db.root, a)
  OBVIOUS
<1>2. a \in Seq(Txn) /\ Level(db, f, Top, pgstate, {}) /\ db.root \in Roots
  BY <1>1, TopSound DEF IInv, TypeInv
<1>3. (f.listed \cup Listed(Top)) \cap f.clean = {}
  BY <1>2 DEF Level, Apart
<1>4. \A q \in Pages : n[q] # map[q] => q \notin f.clean /\ q \notin f.spilled
  BY <1>1, <1>3
<1>5. States(b, n) = States(a, map)
  BY <1>1, <1>2, <1>4, StatesKept
<1>6. \A k \in Keys : db.root[k] # NoPage => db.root[k] \in Pages /\ db.root[k] \in f.clean
  BY <1>1, <1>2, RootsClean
<1> QED BY <1>1, <1>4, <1>5, <1>6

-----------------------------------------------------------------------------
(* The steps of NestedStore. *)

StackNow == [i \in 1..Len(txns) |-> IF txns[i].error THEN Failed ELSE View(i)]

\* The stack of the refinement mapping.
LEMMA StackIs == TypeInv => StackNow = States(txns, map)
<1> SUFFICES ASSUME TypeInv PROVE StackNow = States(txns, map)
  OBVIOUS
<1>1. \A i \in 1..Len(txns) : View(i) = SeenAt(txns, map, i)
  BY DEF View, SeenAt
<1>2. txns \in Seq(Txn)
  BY DEF TypeInv
<1>3. States(txns, map) = [i \in 1..Len(txns) |-> IF txns[i].error THEN Failed ELSE SeenAt(txns, map, i)]
  BY <1>2, StatesAre
<1> QED BY <1>1, <1>3 DEF StackNow

\* And after a step.
LEMMA StackNext == TypeInv' => StackNow' = States(txns', map')
<1> SUFFICES ASSUME TypeInv' PROVE StackNow' = States(txns', map')
  OBVIOUS
<1>1. \A i \in 1..Len(txns') : View(i)' = SeenAt(txns', map', i)
  BY DEF View, SeenAt
<1>2. txns' \in Seq(Txn)
  BY DEF TypeInv
<1>3. States(txns', map') = [i \in 1..Len(txns') |-> IF txns'[i].error THEN Failed ELSE SeenAt(txns', map', i)]
  BY <1>2, StatesAre
<1> QED BY <1>1, <1>3 DEF StackNow

\* The committed state stays when its pages do.
LEMMA CommittedKept ==
    ASSUME db' = db, \A k \in Keys : db.root[k] # NoPage => map'[db.root[k]] = map[db.root[k]]
    PROVE  Committed' = Committed
BY DEF Committed

\* Front and Last mean the same in both modules.
LEMMA SameFront == \A s : Nested!Front(s) = Front(s) /\ Nested!Last(s) = Last(s)
BY DEF Nested!Front, Nested!Last, Front, Last

\* The steps of NestedStore, for the stack s of the mapping and the stack z after
\* the step.
LEMMA StoreSteps ==
    ASSUME NEW s, NEW z, s = StackNow, z = StackNow', s # <<>>
    PROVE  /\ (/\ Last(s) # Failed /\ Committed' = Committed
               /\ \E k \in Keys, v \in Values \cup {Blank} : z = Append(Front(s), [Last(s) EXCEPT ![k] = v]))
              => Nested!Update
           /\ Committed' = Committed /\ z = Append(Front(s), Failed) => Nested!Fail
           /\ (Last(s) # Failed /\ Committed' = Committed /\ z = Append(Front(s), [k \in Keys |-> Blank]))
              => Nested!Drop
           /\ Last(s) # Failed /\ Committed' = Committed /\ z = Append(s, Last(s)) => Nested!BeginNested
           /\ Committed' = Committed /\ z = Front(s) => Nested!Abort
           /\ Len(s) > 1 /\ Committed' = Committed /\ z = Append(Front(Front(s)), Last(s)) => Nested!CommitNested
           /\ Len(s) = 1 /\ s[1] # Failed /\ Committed' = s[1] /\ z = <<>> => Nested!Commit
<1>1. /\ (/\ Last(s) # Failed /\ Committed' = Committed
          /\ \E k \in Keys, v \in Values \cup {Blank} : z = Append(Front(s), [Last(s) EXCEPT ![k] = v]))
         => Nested!Update
      /\ Committed' = Committed /\ z = Append(Front(s), Failed) => Nested!Fail
  BY SameFront DEF StackNow, Nested!Update, Nested!Fail
<1>2. /\ (Last(s) # Failed /\ Committed' = Committed /\ z = Append(Front(s), [k \in Keys |-> Blank])) => Nested!Drop
      /\ Last(s) # Failed /\ Committed' = Committed /\ z = Append(s, Last(s)) => Nested!BeginNested
  BY SameFront DEF StackNow, Nested!Drop, Nested!BeginNested
<1>3. /\ Committed' = Committed /\ z = Front(s) => Nested!Abort
      /\ Len(s) > 1 /\ Committed' = Committed /\ z = Append(Front(Front(s)), Last(s)) => Nested!CommitNested
  BY SameFront DEF StackNow, Nested!Abort, Nested!CommitNested
<1>4. Len(s) = 1 /\ s[1] # Failed /\ Committed' = s[1] /\ z = <<>> => Nested!Commit
  BY DEF StackNow, Nested!Commit
<1> QED BY <1>1, <1>2, <1>3, <1>4

\* States, when a transaction is put above the others.
IsPushed(s, b, z) == s = Append(b, z) /\ Front(s) = b /\ Last(s) = z /\ s # <<>>
LEMMA StatesPushed ==
    ASSUME NEW b \in Seq(Txn), NEW t \in Txn, NEW m, NEW s, s = Append(b, t)
    PROVE  IsPushed(States(s, m), States(b, m), State(b, t, m))
BY StatesPush DEF IsPushed

\* What the last transaction finds.
GotTop(b, t, m, p, g, h) ==
    g = IF p \in t.spill
        THEN [at |-> Len(b) + 1, dirty |-> FALSE, page |-> [val |-> m[p], keep |-> FALSE]]
        ELSE IF p \in DOMAIN t.dirty
        THEN [at |-> Len(b) + 1, dirty |-> TRUE, page |-> t.dirty[p]]
        ELSE h
LEMMA GotTopIs ==
    ASSUME NEW b \in Seq(Txn), NEW t \in Txn, NEW s, s = Append(b, t), NEW m, NEW p,
           NEW g, NEW h, g = PageGet(s, m, p), h = PageGet(b, m, p)
    PROVE  GotTop(b, t, m, p, g, h)
BY GetTop DEF GotTop

\* The stack and its last two parts.
LEMMA Mapped ==
    ASSUME IInv, txns # <<>>, NEW b, b = Front(txns)
    PROVE  /\ StackNow = Append(States(b, map), State(b, Top, map))
           /\ Front(StackNow) = States(b, map) /\ Last(StackNow) = State(b, Top, map)
           /\ StackNow # <<>> /\ Len(StackNow) = Len(txns)
<1>1. b \in Seq(Txn) /\ Top \in Txn /\ txns = Append(b, Top) /\ txns \in Seq(Txn)
  BY TopSound DEF IInv, TypeInv
<1>2. StackNow = States(txns, map)
  BY StackIs DEF IInv
<1>3. Len(StackNow) = Len(txns)
  <2>1. Len(txns) \in Nat
    BY <1>1
  <2> QED BY <2>1 DEF StackNow
<1>4. IsPushed(States(txns, map), States(b, map), State(b, Top, map))
  BY <1>1, StatesPushed
<1> QED BY <1>2, <1>3, <1>4 DEF IsPushed

\* The stack after a step.
LEMMA MappedNext ==
    ASSUME IInv', NEW b \in Seq(Txn), NEW u \in Txn, txns' = Append(b, u)
    PROVE  StackNow' = Append(States(b, map'), State(b, u, map'))
<1>1. StackNow' = States(txns', map')
  BY StackNext DEF IInv
<1> QED BY <1>1, StatesPush

\* A transaction of which nothing but the page of k was touched sees the rest as
\* before.
SeesRest(b, u, n, k) == \A j \in Keys : j # k => Seen(b, u, n)[j] = Seen(Front(txns), Top, map)[j]
LEMMA SeenUntouched ==
    ASSUME NEW w, NEW f, Started(w, f), txns # <<>>, TypeInv, LevelInv, NEW k, NEW u \in Txn, NEW n, n = w.map,
           Untouched(w.t, u, k)
    PROVE  SeesRest(w.below, u, n, k)
<1> SUFFICES ASSUME NEW j \in Keys, j # k PROVE Seen(w.below, u, n)[j] = Seen(Front(txns), Top, map)[j]
  BY DEF SeesRest
<1>1. PICK b, c, t, p : b = Front(txns) /\ c = w.below /\ t = w.t /\ p = Top.root[j]
  OBVIOUS
<1>2. txns = Append(b, Top) /\ Top \in Txn
  BY <1>1, TopSound
<1>3. c \in Seq(Txn) /\ t \in Txn /\ t.root = Top.root
  BY <1>1 DEF Started, Sound, Records
<1>4. u.root[j] = p
  BY <1>1, <1>3 DEF Untouched
<1>5. PICK r, s : r = Append(c, t) /\ s = Append(c, u)
  OBVIOUS
<1>6. p # NoPage => PageGet(s, n, p).page.val = PageGet(txns, map, p).page.val
  <2> SUFFICES ASSUME p # NoPage PROVE PageGet(s, n, p).page.val = PageGet(txns, map, p).page.val
    OBVIOUS
  <2>2. p \in Pages
    BY <1>1, <1>2 DEF Txn, Roots
  <2>3. SameAt(t, u, p)
    BY <1>1, <1>3 DEF Untouched
  <2>4. PICK g, h, l : g = PageGet(r, n, p) /\ h = PageGet(s, n, p) /\ l = PageGet(c, n, p)
    OBVIOUS
  <2>5. GotTop(c, t, n, p, g, l) /\ GotTop(c, u, n, p, h, l)
    BY <1>3, <1>5, <2>4, GotTopIs
  <2>7. h = g
    BY <2>3, <2>5 DEF SameAt, GotTop
  <2>8. Lookup(w, p) = g
    BY <1>1, <1>5, <2>4 DEF Lookup, Stack
  <2>9. g.page.val = PageGet(txns, map, p).page.val
    BY <2>2, <2>8 DEF Started
  <2> QED BY <2>4, <2>7, <2>9
<1>7. Seen(c, u, n)[j] = IF p = NoPage THEN Blank ELSE PageGet(s, n, p).page.val
  BY <1>4, <1>5 DEF Seen
<1>8. Seen(b, Top, map)[j] = IF p = NoPage THEN Blank ELSE PageGet(txns, map, p).page.val
  BY <1>1, <1>2 DEF Seen
<1> QED BY <1>1, <1>6, <1>7, <1>8

\* A writing operation changes what the last transaction sees of one key, or fails.
LEMMA OperationUpdates ==
    ASSUME IInv, CanWrite, NEW k \in Keys, Operation(k)
    PROVE  Nested!Update \/ Nested!Fail
<1>1. PICK f, b : b = Front(txns) /\ f = Frame(db.root, b)
  OBVIOUS
<1>2. PICK w, r : Started(w, f) /\ Step(w, r, f, k) /\ Finish(r)
  BY <1>1 DEF Operation
<1>3. txns # <<>> /\ TypeInv /\ LevelInv /\ db \in DbType /\ map \in [Pages -> Contents]
  BY DEF CanWrite, IInv, TypeInv, DbType
<1>4. /\ Sound(r, f, {}) /\ r.below = w.below /\ r.map = w.map /\ r.t.saved = Top.saved
      /\ Alike(b, w.below) /\ w.below \in Seq(Txn)
  BY <1>1, <1>2 DEF Started, Step, Kept, Sound, Records
<1>5. IInv' /\ \E u \in Txn : /\ txns' = Append(r.below, u) /\ AlikeTxn(r.t, u) /\ u.dirty = r.t.dirty
                              /\ map' = r.map /\ db' = db
  BY <1>1, <1>2, <1>4, FinishSound
<1>6. PICK u \in Txn : /\ txns' = Append(w.below, u) /\ AlikeTxn(r.t, u) /\ u.dirty = r.t.dirty
                       /\ map' = w.map /\ db' = db
  BY <1>4, <1>5
<1>7. \A q \in Pages : map'[q] # map[q] => q \in Listed(Top) /\ q \notin Frame(db.root, Front(txns)).spilled
  BY <1>1, <1>2, <1>6 DEF Started
<1>8. States(w.below, map') = States(b, map) /\ Committed' = Committed
  <2>1. /\ States(w.below, map') = States(b, map)
        /\ \A j \in Keys : db.root[j] # NoPage => map'[db.root[j]] = map[db.root[j]]
    BY <1>1, <1>3, <1>4, <1>7, BelowKept
  <2> QED BY <1>6, <2>1, CommittedKept
<1>9. /\ StackNow # <<>> /\ Front(StackNow) = States(b, map) /\ Last(StackNow) = State(b, Top, map)
  BY <1>1, <1>3, Mapped
<1>10. StackNow' = Append(Front(StackNow), State(w.below, u, map'))
  BY <1>4, <1>5, <1>6, <1>8, <1>9, MappedNext
<1>11. CASE u.error
  <2>1. StackNow' = Append(Front(StackNow), Failed)
    BY <1>10, <1>11 DEF State
  <2> QED BY <1>8, <1>9, <2>1, StoreSteps
<1>12. CASE ~u.error
  <2>1. ~Top.error /\ ~r.t.error
    BY <1>6, <1>12 DEF CanWrite, AlikeTxn
  <2>2. Top \in Txn /\ b \in Seq(Txn)
    BY <1>1, <1>3, TopSound
  <2>3. PICK x, y : x = Seen(b, Top, map) /\ y = Seen(w.below, u, map')
    OBVIOUS
  <2>4. map' \in [Pages -> Contents]
    BY <1>5 DEF IInv, TypeInv
  <2>5. x \in [Keys -> Contents] /\ x # Failed /\ y \in [Keys -> Contents]
    BY <1>3, <1>4, <2>2, <2>3, <2>4, SeenType
  <2>6. Untouched(w.t, u, k)
    <3>1. Untouched(w.t, r.t, k)
      BY <1>2, <2>1 DEF Step
    <3> QED BY <1>6, <3>1 DEF Untouched, SameAt, AlikeTxn
  <2>7. \A j \in Keys : j # k => y[j] = x[j]
    <3>1. PICK n : n = w.map /\ n = map'
      BY <1>6
    <3>2. txns # <<>> /\ TypeInv /\ LevelInv /\ Started(w, f)
      BY <1>2, <1>3
    <3>3. SeesRest(w.below, u, n, k)
      BY <2>6, <3>1, <3>2, SeenUntouched
    <3> QED BY <1>1, <2>3, <3>1, <3>3 DEF SeesRest
  <2>8. y = [x EXCEPT ![k] = y[k]] /\ y[k] \in Contents
    BY <2>5, <2>7
  <2>9. Last(StackNow) = x /\ StackNow' = Append(Front(StackNow), y)
    BY <1>9, <1>10, <1>12, <2>1, <2>3 DEF State
  <2>10. StackNow' = Append(Front(StackNow), [Last(StackNow) EXCEPT ![k] = y[k]]) /\ Last(StackNow) # Failed
    BY <2>5, <2>8, <2>9
  <2>11. /\ StackNow # <<>> /\ Last(StackNow) # Failed /\ Committed' = Committed
         /\ \E j \in Keys, v \in Values \cup {Blank} :
               StackNow' = Append(Front(StackNow), [Last(StackNow) EXCEPT ![j] = v])
    BY <1>8, <1>9, <2>8, <2>10 DEF Contents
  <2> QED BY <2>11, StoreSteps
<1> QED BY <1>11, <1>12

\* The pages seen, one by one.
LEMMA SeenKey ==
    ASSUME NEW b, NEW t, NEW s, s = Append(b, t), NEW m, NEW k \in Keys, NEW p, p = t.root[k]
    PROVE  Seen(b, t, m)[k] = IF p = NoPage THEN Blank ELSE PageGet(s, m, p).page.val
BY DEF Seen

\* What is seen with roots in the pages of the transactions s.
SeenIn(s, root, m) == [k \in Keys |-> IF root[k] = NoPage THEN Blank ELSE PageGet(s, m, root[k]).page.val]
LEMMA SeenIsIn ==
    ASSUME NEW b, NEW t, NEW s, s = Append(b, t), NEW m
    PROVE  Seen(b, t, m) = SeenIn(s, t.root, m)
BY DEF Seen, SeenIn

\* A transaction that lists no pages sees what the one below it sees.
LEMMA SeenThrough ==
    ASSUME NEW s \in Seq(Txn), NEW t \in Txn, DOMAIN t.dirty = {}, t.spill = {}, NEW m
    PROVE  Seen(s, t, m) = SeenIn(s, t.root, m)
<1>1. PICK r : r = Append(s, t)
  OBVIOUS
<1>2. ASSUME NEW k \in Keys PROVE PageGet(r, m, t.root[k]) = PageGet(s, m, t.root[k])
  <2>1. PICK p, g, h : p = t.root[k] /\ g = PageGet(r, m, p) /\ h = PageGet(s, m, p)
    OBVIOUS
  <2>2. GotTop(s, t, m, p, g, h)
    BY <1>1, <2>1, GotTopIs
  <2> QED BY <2>1, <2>2 DEF GotTop
<1> QED BY <1>1, <1>2 DEF Seen, SeenIn

\* The outermost transaction begins with the committed state.
LEMMA BeginBegins ==
    ASSUME IInv, Begin
    PROVE  Nested!Begin
<1>1. PICK t \in Txn : /\ txns' = Append(<<>>, t) /\ t.root = db.root /\ DOMAIN t.dirty = {} /\ t.spill = {}
                       /\ t.error = FALSE /\ map' = map /\ db' = db
  BY BeginSound
<1>2. PICK e : e = <<>> /\ e \in Seq(Txn) /\ Len(e) = 0
  BY EmptySeq
<1>3. ASSUME NEW p PROVE PageGet(e, map, p).page.val = map[p]
  <2>1. {i \in 1..Len(e) : p \in e[i].spill \cup DOMAIN e[i].dirty} = {}
    BY <1>2
  <2> QED BY <2>1 DEF PageGet
<1>4. Seen(e, t, map) = Committed
  <2>1. Seen(e, t, map) = SeenIn(e, t.root, map)
    BY <1>1, <1>2, SeenThrough
  <2> QED BY <1>1, <1>3, <2>1 DEF Committed, SeenIn
<1>5. IInv' /\ txns = <<>>
  BY BeginSound DEF Begin
<1>6. StackNow' = Append(States(e, map'), State(e, t, map'))
  BY <1>1, <1>2, <1>5, MappedNext
<1>7. States(e, map') = <<>>
  BY <1>2 DEF States
<1>8. State(e, t, map') = Committed
  BY <1>1, <1>4 DEF State
<1>9. StackNow = <<>> /\ StackNow' = <<Committed>>
  <2>1. StackNow' = <<Committed>>
    BY <1>6, <1>7, <1>8
  <2>2. StackNow = <<>>
    BY <1>5 DEF StackNow
  <2> QED BY <2>1, <2>2
<1>10. Committed' = Committed
  BY <1>1 DEF Committed
<1> QED BY <1>9, <1>10 DEF Nested!Begin, StackNow

\* A nested transaction begins with its parent's state.
LEMMA NestedBegins ==
    ASSUME IInv, BeginNested
    PROVE  Nested!BeginNested
<1>1. PICK t \in Txn : /\ txns' = Append(txns, t) /\ t.root = Top.root /\ DOMAIN t.dirty = {} /\ t.spill = {}
                       /\ t.error = FALSE /\ map' = map /\ db' = db
  BY BeginNestedSound
<1>2. PICK b, s, z : b = Front(txns) /\ s = StackNow /\ z = StackNow'
  OBVIOUS
<1>3. IInv' /\ txns # <<>> /\ ~Top.error
  BY BeginNestedSound DEF BeginNested, CanWrite
<1>4. b \in Seq(Txn) /\ Top \in Txn /\ txns = Append(b, Top) /\ txns \in Seq(Txn) /\ map \in [Pages -> Contents]
  BY <1>2, <1>3, TopSound DEF IInv, TypeInv
<1>5. s # <<>> /\ Last(s) = State(b, Top, map) /\ s = States(txns, map)
  BY <1>2, <1>3, Mapped, StackIs DEF IInv
<1>6. Seen(txns, t, map) = Seen(b, Top, map)
  <2>1. Seen(txns, t, map) = SeenIn(txns, t.root, map)
    BY <1>1, <1>4, SeenThrough
  <2>2. Seen(b, Top, map) = SeenIn(txns, Top.root, map)
    BY <1>4, SeenIsIn
  <2> QED BY <1>1, <2>1, <2>2
<1>7. z = Append(States(txns, map'), State(txns, t, map'))
  BY <1>1, <1>2, <1>3, <1>4, MappedNext
<1>8. Last(s) = Seen(b, Top, map) /\ State(txns, t, map) = Seen(b, Top, map)
  BY <1>1, <1>3, <1>5, <1>6 DEF State
<1>9. Last(s) # Failed
  BY <1>4, <1>8, SeenType
<1>10. z = Append(s, Last(s))
  BY <1>1, <1>5, <1>7, <1>8
<1>11. Committed' = Committed
  BY <1>1 DEF Committed
<1> QED BY <1>2, <1>5, <1>9, <1>10, <1>11, StoreSteps

\* Dropping everything.
LEMMA DropDrops ==
    ASSUME IInv, Drop
    PROVE  Nested!Drop
<1>1. PICK u \in Txn : /\ txns' = Append(Front(txns), u) /\ map' = map /\ db' = db
                       /\ u.error = Top.error /\ \A k \in Keys : u.root[k] = NoPage
  BY DropSound
<1>2. PICK b, s, z : b = Front(txns) /\ s = StackNow /\ z = StackNow'
  OBVIOUS
<1>3. IInv' /\ txns # <<>> /\ ~Top.error
  BY DropSound DEF Drop, CanWrite
<1>4. b \in Seq(Txn) /\ Top \in Txn /\ map \in [Pages -> Contents]
  BY <1>2, <1>3, TopSound DEF IInv, TypeInv
<1>5. s # <<>> /\ Last(s) = State(b, Top, map) /\ Front(s) = States(b, map)
  BY <1>2, <1>3, Mapped
<1>6. z = Append(States(b, map'), State(b, u, map'))
  BY <1>1, <1>2, <1>3, <1>4, MappedNext
<1>7. State(b, u, map') = [k \in Keys |-> Blank]
  BY <1>1, <1>3 DEF State, Seen
<1>8. Last(s) = Seen(b, Top, map)
  BY <1>3, <1>5 DEF State
<1>9. Last(s) # Failed
  BY <1>4, <1>8, SeenType
<1>10. Committed' = Committed
  BY <1>1 DEF Committed
<1>11. z = Append(Front(s), [k \in Keys |-> Blank])
  BY <1>1, <1>5, <1>6, <1>7
<1> QED BY <1>2, <1>5, <1>9, <1>10, <1>11, StoreSteps

\* A spill that fails.
LEMMA SpillFailsFails ==
    ASSUME IInv, SpillFails
    PROVE  Nested!Fail
<1>1. PICK c \in Seq(Txn), u \in Txn :
         /\ txns' = Append(c, u) /\ Alike(Front(txns), c) /\ db' = db /\ u.error = TRUE
         /\ \A q \in Pages : map'[q] # map[q] => q \in Listed(Top) /\ q \notin Frame(db.root, Front(txns)).spilled
  BY SpillFailsSound
<1>2. PICK b, s, z, n : b = Front(txns) /\ s = StackNow /\ z = StackNow' /\ n = map'
  OBVIOUS
<1>3. IInv' /\ txns # <<>>
  BY SpillFailsSound DEF SpillFails, CanWrite
<1>4. /\ States(c, n) = States(b, map)
      /\ \A k \in Keys : db.root[k] # NoPage => n[db.root[k]] = map[db.root[k]]
  BY <1>1, <1>2, <1>3, BelowKept
<1>5. s # <<>> /\ Front(s) = States(b, map)
  BY <1>2, <1>3, Mapped
<1>6. z = Append(States(c, map'), State(c, u, map'))
  BY <1>1, <1>2, <1>3, MappedNext
<1>7. z = Append(Front(s), Failed)
  BY <1>1, <1>2, <1>4, <1>5, <1>6 DEF State
<1>8. Committed' = Committed
  BY <1>1, <1>2, <1>4, CommittedKept
<1> QED BY <1>2, <1>5, <1>7, <1>8, StoreSteps

\* The last transaction goes, and the ones below it stand as they were.
LEMMA FrontAborts ==
    ASSUME IInv, txns # <<>>, IInv', txns' = Front(txns), map' = map, db' = db
    PROVE  Nested!Abort
<1>1. PICK b, s, z : b = Front(txns) /\ s = StackNow /\ z = StackNow'
  OBVIOUS
<1>2. s # <<>> /\ Front(s) = States(b, map)
  BY <1>1, Mapped
<1>3. z = States(txns', map')
  BY <1>1, StackNext DEF IInv
<1>4. Committed' = Committed
  BY DEF Committed
<1>5. z = Front(s)
  BY <1>1, <1>2, <1>3
<1> QED BY <1>1, <1>2, <1>4, <1>5, StoreSteps

LEMMA AbortAborts ==
    ASSUME IInv, Abort
    PROVE  Nested!Abort
BY AbortSound, FrontAborts DEF Abort

\* A page is found in the merged transaction where it was found before.
SameValue(r, s, m, q) == PageGet(r, m, q).page.val = PageGet(s, m, q).page.val
LEMMA MergedFinds ==
    ASSUME NEW b \in Seq(Txn), NEW p \in Txn, NEW t \in Txn, NEW c, c = Append(b, p), NEW s, s = Append(c, t),
           NEW u, u = Merged(p, t), NEW r, r = Append(b, u), NEW m, NEW q
    PROVE  SameValue(r, s, m, q)
<1> USE DEF SameValue
<1>1. PICK g, h, l, o : /\ g = PageGet(r, m, q) /\ h = PageGet(s, m, q) /\ l = PageGet(c, m, q)
                        /\ o = PageGet(b, m, q)
  OBVIOUS
<1>2. c \in Seq(Txn)
  OBVIOUS
<1>3. /\ u \in Txn /\ u.dirty = MergedDirty(p, t) /\ u.spill = (p.spill \ DOMAIN t.dirty) \cup t.spill
      /\ DOMAIN u.dirty = DOMAIN t.dirty \cup (DOMAIN p.dirty \ t.spill)
  <2>1. /\ Merged(p, t) \in Txn
        /\ Merged(p, t).free = p.free \cup t.free /\ Merged(p, t).next = t.next
        /\ Merged(p, t).root = t.root /\ Merged(p, t).room = t.room
        /\ Merged(p, t).spill = (p.spill \ DOMAIN t.dirty) \cup t.spill
        /\ Merged(p, t).dirty = MergedDirty(p, t)
        /\ DOMAIN MergedDirty(p, t) = DOMAIN t.dirty \cup (DOMAIN p.dirty \ t.spill)
        /\ Merged(p, t).loose = p.loose \o t.loose
        /\ Merged(p, t).saved = p.saved
    BY MergedFields
  <2> QED BY <2>1
<1>4. \A x \in DOMAIN u.dirty : u.dirty[x] = IF x \in DOMAIN t.dirty THEN t.dirty[x] ELSE p.dirty[x]
  BY <1>3 DEF MergedDirty
<1>5. GotTop(b, u, m, q, g, o) /\ GotTop(c, t, m, q, h, l) /\ GotTop(b, p, m, q, l, o)
  BY <1>1, <1>2, <1>3, GotTopIs
<1>6. CASE q \in t.spill
  <2>1. q \in u.spill
    BY <1>3, <1>6
  <2>2. g.page.val = m[q] /\ h.page.val = m[q]
    BY <1>5, <1>6, <2>1 DEF GotTop
  <2> QED BY <1>1, <2>2
<1>7. CASE q \notin t.spill /\ q \in DOMAIN t.dirty
  <2>1. q \notin u.spill /\ q \in DOMAIN u.dirty /\ u.dirty[q] = t.dirty[q]
    BY <1>3, <1>4, <1>7
  <2>2. g.page = t.dirty[q] /\ h.page = t.dirty[q]
    BY <1>5, <1>7, <2>1 DEF GotTop
  <2> QED BY <1>1, <2>2
<1>8. CASE q \notin t.spill /\ q \notin DOMAIN t.dirty
  <2>1. /\ q \in u.spill <=> q \in p.spill
        /\ q \in DOMAIN u.dirty <=> q \in DOMAIN p.dirty
    BY <1>3, <1>8
  <2>2. q \in DOMAIN p.dirty => u.dirty[q] = p.dirty[q]
    BY <1>4, <1>8, <2>1
  <2>3. h = l
    BY <1>5, <1>8 DEF GotTop
  <2>4. g = l
    BY <1>5, <2>1, <2>2 DEF GotTop
  <2> QED BY <1>1, <2>3, <2>4
<1> QED BY <1>6, <1>7, <1>8

\* A nested transaction commits: its parent sees what it saw.
LEMMA NestedCommits ==
    ASSUME IInv, CommitNested
    PROVE  Nested!CommitNested
<1>1. PICK n, c, b, p, u : /\ n = Len(txns) /\ c = Front(txns) /\ b = Front(c) /\ p = txns[n - 1]
                           /\ u = Merged(p, Top)
  OBVIOUS
<1>2. n > 1 /\ ~Top.error /\ txns # <<>> /\ n \in Nat
  BY <1>1 DEF CommitNested, IInv, TypeInv
<1>3. Parent(n, c, b, p)
  BY <1>1, <1>2, TwoTop
<1>4. b \in Seq(Txn) /\ p \in Txn /\ c = Append(b, p)
  BY <1>3 DEF Parent
<1>5. p.error = FALSE
  BY <1>3 DEF Parent
<1>6. Top \in Txn /\ txns = Append(c, Top)
  BY <1>1, <1>2, TopSound DEF IInv
<1>7. u \in Txn /\ u.root = Top.root
  BY <1>1, <1>4, <1>6, MergedFields
<1>8. u.error = FALSE
  BY <1>1, <1>4, <1>5 DEF Merged, Txn
<1>9. PICK s, z : s = StackNow /\ z = StackNow'
  OBVIOUS
<1>10. s # <<>> /\ Front(s) = States(c, map) /\ Last(s) = State(c, Top, map) /\ Len(s) = n
  BY <1>1, <1>2, <1>9, Mapped
<1>11. Front(States(c, map)) = States(b, map)
  <2>1. IsPushed(States(c, map), States(b, map), State(b, p, map))
    BY <1>4, StatesPushed
  <2> QED BY <2>1 DEF IsPushed
<1>12. txns' = Append(b, u) /\ map' = map /\ db' = db
  BY <1>1 DEF CommitNested
<1>13. IInv'
  BY CommitNestedSound
<1>14. z = Append(States(b, map'), State(b, u, map'))
  BY <1>4, <1>7, <1>9, <1>12, <1>13, MappedNext
<1>15. Seen(b, u, map) = Seen(c, Top, map)
  <2>1. PICK r, x : r = Append(b, u) /\ x = Append(c, Top)
    OBVIOUS
  <2>2. PICK m, t : m = map /\ t = Top
    OBVIOUS
  <2>3. Seen(b, u, m) = SeenIn(r, u.root, m)
    BY <2>1, SeenIsIn
  <2>4. Seen(c, t, m) = SeenIn(x, t.root, m)
    BY <2>1, <2>2, SeenIsIn
  <2>5. ASSUME NEW q PROVE PageGet(r, m, q).page.val = PageGet(x, m, q).page.val
    <3>1. t \in Txn /\ x = Append(c, t) /\ u = Merged(p, t)
      BY <1>1, <1>6, <2>1, <2>2
    <3>2. SameValue(r, x, m, q)
      BY <1>4, <2>1, <3>1, MergedFinds
    <3> QED BY <3>2 DEF SameValue
  <2> QED BY <1>7, <2>2, <2>3, <2>4, <2>5 DEF SeenIn
<1>16. State(b, u, map) = State(c, Top, map)
  BY <1>2, <1>8, <1>15 DEF State
<1>17. Committed' = Committed
  BY <1>12 DEF Committed
<1>18. Len(s) > 1 /\ z = Append(Front(Front(s)), Last(s))
  BY <1>2, <1>10, <1>11, <1>12, <1>14, <1>16
<1> QED BY <1>9, <1>10, <1>17, <1>18, StoreSteps

\* The attempt to commit a failed transaction.
LEMMA FailedCommits ==
    ASSUME IInv, CommitFailed
    PROVE  Nested!Abort \/ Nested!CommitNested
<1>1. PICK n, c, b, p : n = Len(txns) /\ c = Front(txns) /\ b = Front(c) /\ p = txns[n - 1]
  OBVIOUS
<1>2. TypeInv /\ LevelInv /\ txns # <<>> /\ n \in Nat /\ n # 0 /\ Top.error /\ map' = map /\ db' = db
  BY <1>1 DEF IInv, CommitFailed, TypeInv
<1>3. IInv'
  BY CommitFailedSound
<1>4. CASE n = 1
  <2>1. txns' = <<>>
    BY <1>1, <1>4 DEF CommitFailed
  <2>2. Front(txns) = <<>>
    BY <1>1, <1>2, <1>4, FrontSound
  <2> QED BY <1>2, <1>3, <2>1, <2>2, FrontAborts
<1>5. CASE n # 1
  <2>0. n > 1
    BY <1>2, <1>5
  <2>1. Parent(n, c, b, p)
    BY <1>1, <2>0, TwoTop
  <2>2. b \in Seq(Txn) /\ p \in Txn /\ c = Append(b, p)
    BY <2>1 DEF Parent
  <2>3. PICK u : u = [p EXCEPT !.error = TRUE]
    OBVIOUS
  <2>4. u \in Txn
    BY <2>2, <2>3 DEF Txn
  <2>5. u.error = TRUE
    BY <2>2, <2>3 DEF Txn
  <2>6. txns' = Append(b, u)
    BY <1>1, <2>0, <2>3, FailedParent
  <2>7. PICK s, z : s = StackNow /\ z = StackNow'
    OBVIOUS
  <2>8. s # <<>> /\ Front(s) = States(c, map) /\ Last(s) = State(c, Top, map) /\ Len(s) = n
    BY <1>1, <1>2, <2>7, Mapped
  <2>9. Front(States(c, map)) = States(b, map)
    <3>1. IsPushed(States(c, map), States(b, map), State(b, p, map))
      BY <2>2, StatesPushed
    <3> QED BY <3>1 DEF IsPushed
  <2>10. z = Append(States(b, map'), State(b, u, map'))
    BY <1>3, <2>2, <2>4, <2>6, <2>7, MappedNext
  <2>11. State(b, u, map') = Failed /\ Last(s) = Failed
    BY <1>2, <2>5, <2>8 DEF State
  <2>12. Committed' = Committed
    BY <1>2 DEF Committed
  <2>13. Len(s) > 1 /\ z = Append(Front(Front(s)), Last(s))
    BY <1>2, <2>0, <2>8, <2>9, <2>10, <2>11
  <2> QED BY <2>7, <2>8, <2>12, <2>13, StoreSteps
<1> QED BY <1>4, <1>5

\* A page that no transaction lists is the one in the map.
LEMMA FoundInMap ==
    ASSUME NEW e, e = <<>>, NEW m, NEW p
    PROVE  PageGet(e, m, p).page.val = m[p]
<1>1. {i \in 1..Len(e) : p \in e[i].spill \cup DOMAIN e[i].dirty} = {}
  OBVIOUS
<1> QED BY <1>1 DEF PageGet

\* The outermost transaction as the only one.
LEMMA OneState ==
    ASSUME IInv, Len(txns) = 1, ~Top.error, NEW x, x = Seen(<<>>, Top, map)
    PROVE  StackNow = <<x>> /\ Front(StackNow) = <<>> /\ x # Failed /\ View(1) = x
<1>1. PICK e : e = <<>> /\ e \in Seq(Txn) /\ Len(e) = 0
  BY EmptySeq
<1>2. Front(txns) = e /\ txns = Append(e, Top) /\ Top \in Txn /\ map \in [Pages -> Contents] /\ txns # <<>>
  <2>1. Front(txns) = <<>> /\ txns = Append(<<>>, Top) /\ Top \in Txn /\ map \in [Pages -> Contents]
    BY OnlyOne
  <2>2. txns # <<>>
    OBVIOUS
  <2> QED BY <1>1, <2>1, <2>2
<1>3. x = Seen(e, Top, map)
  BY <1>1
<1>4. x # Failed
  BY <1>1, <1>2, <1>3, SeenType
<1>5. States(e, map) = <<>>
  BY <1>1 DEF States
<1>6. State(e, Top, map) = x
  BY <1>3 DEF State
<1>7. StackNow = Append(<<>>, x) /\ Front(StackNow) = <<>>
  BY <1>2, <1>5, <1>6, Mapped
<1>8. View(1) = x
  <2>1. SubSeq(txns, 1, 1) = txns /\ txns[1] = Top
    BY DEF Top, IInv, TypeInv
  <2>2. View(1) = SeenIn(txns, Top.root, map)
    BY <2>1 DEF View, SeenIn
  <2>3. Seen(e, Top, map) = SeenIn(txns, Top.root, map)
    BY <1>2, SeenIsIn
  <2> QED BY <1>3, <2>2, <2>3
<1> QED BY <1>4, <1>7, <1>8

\* After the commit the map and the roots hold what the transaction saw.
LEMMA CommitWrites ==
    ASSUME IInv, KeepInv, Commit, Top.wrote, NEW x, x = Seen(<<>>, Top, map)
    PROVE  Committed' = x
<1>1. PICK e : e = <<>> /\ e \in Seq(Txn)
  BY EmptySeq
<1>2. Len(txns) = 1 /\ ~Top.error
  BY DEF Commit
<1>3. PICK f : f = Frame(db.root, <<>>)
  OBVIOUS
<1>4. /\ Top \in Txn /\ Level(db, f, Top, pgstate, {}) /\ Top.dirty \in DirtyLists
      /\ map \in [Pages -> Contents] /\ txns = Append(e, Top)
  BY <1>1, <1>2, <1>3, OnlyOne
<1>5. map' = Flushed(Top.dirty, ToFlush) /\ db'.root = Top.root
  BY DEF Commit
<1>6. \A q \in Pages : map'[q] = IF q \in ToFlush THEN Top.dirty[q].val ELSE map[q]
  <2>1. PICK d, P : d = Top.dirty /\ P = ToFlush
    OBVIOUS
  <2>2. P \subseteq DOMAIN d /\ d \in DirtyLists /\ map' = Flushed(d, P)
    BY <1>4, <1>5, <2>1 DEF ToFlush
  <2> QED BY <1>4, <2>1, <2>2, FlushedMap
<1>7. \A q \in DOMAIN Top.dirty : Top.dirty[q].keep = FALSE
  <2>1. CanWrite /\ TypeInv /\ LevelInv /\ ErrorInv
    BY <1>2 DEF CanWrite, IInv
  <2> QED BY <2>1, KeepUnflagged
<1>8. DOMAIN Top.dirty \cap Top.spill = {} /\ UsedBy(Top.root) \cap Range(Top.loose) = {}
  <2>1. ListsOK(f, Top) /\ Placed(db, Top.root, f.free \cup Top.free, f.loose \cup Range(Top.loose), pgstate, Top.next, {})
    BY <1>2, <1>4 DEF Level
  <2>2. UsedBy(Top.root) \cap (f.loose \cup Range(Top.loose)) = {}
    BY <2>1 DEF Placed
  <2> QED BY <2>1, <2>2 DEF ListsOK
<1>9. ASSUME NEW k \in Keys, NEW p, p = Top.root[k], p # NoPage
      PROVE  map'[p] = PageGet(txns, map, p).page.val
  <2>1. p \in Pages /\ p \in UsedBy(Top.root)
    BY <1>4, <1>9 DEF Txn, Roots, UsedBy
  <2>2. p \notin Range(Top.loose)
    BY <1>8, <2>1
  <2>3. p \in ToFlush <=> p \in DOMAIN Top.dirty
    BY <1>7, <2>2 DEF ToFlush
  <2>4. PICK g, h, m : g = PageGet(txns, m, p) /\ h = PageGet(e, m, p) /\ m = map
    OBVIOUS
  <2>5. GotTop(e, Top, m, p, g, h)
    BY <1>1, <1>4, <2>4, GotTopIs
  <2>6. h.page.val = m[p]
    BY <1>1, <2>4, FoundInMap
  <2>7. CASE p \in Top.spill
    <3>1. p \notin ToFlush
      BY <1>8, <2>3, <2>7
    <3>2. g.page.val = m[p]
      BY <2>5, <2>7 DEF GotTop
    <3> QED BY <1>6, <2>1, <2>4, <3>1, <3>2
  <2>8. CASE p \notin Top.spill /\ p \in DOMAIN Top.dirty
    <3>1. g.page = Top.dirty[p]
      BY <2>5, <2>8 DEF GotTop
    <3> QED BY <1>6, <2>1, <2>3, <2>4, <2>8, <3>1
  <2>9. CASE p \notin Top.spill /\ p \notin DOMAIN Top.dirty
    <3>1. g = h
      BY <2>5, <2>9 DEF GotTop
    <3> QED BY <1>6, <2>1, <2>3, <2>4, <2>6, <2>9, <3>1
  <2> QED BY <2>7, <2>8, <2>9
<1>10. Seen(e, Top, map) = SeenIn(txns, Top.root, map)
  BY <1>4, SeenIsIn
<1>11. Committed' = [k \in Keys |-> IF Top.root[k] = NoPage THEN Blank ELSE map'[Top.root[k]]]
  BY <1>5 DEF Committed
<1> QED BY <1>1, <1>9, <1>10, <1>11 DEF SeenIn

\* The outermost commit.
LEMMA CommitCommits ==
    ASSUME IInv, KeepInv, Commit
    PROVE  Nested!Commit \/ Nested!Abort
<1>1. Len(txns) = 1 /\ ~Top.error /\ txns' = <<>> /\ txns # <<>>
  BY DEF Commit
<1>2. PICK x, s, z : x = Seen(<<>>, Top, map) /\ s = StackNow /\ z = StackNow'
  OBVIOUS
<1>3. s = <<x>> /\ x # Failed
  BY <1>1, <1>2, OneState
<1>4. z = <<>>
  BY <1>1, <1>2 DEF StackNow
<1>5. CASE Top.wrote
  <2>1. Committed' = x
    BY <1>2, <1>5, CommitWrites
  <2>2. Len(s) = 1 /\ s[1] = x /\ s # <<>>
    BY <1>3
  <2> QED BY <1>2, <1>3, <1>4, <2>1, <2>2, StoreSteps
<1>6. CASE ~Top.wrote
  <2>1. map' = map /\ db' = db
    BY <1>6 DEF Commit
  <2>2. Front(txns) = <<>>
    BY <1>1, OnlyOne
  <2> QED BY <1>1, <2>1, <2>2, CommitSound, FrontAborts
<1> QED BY <1>5, <1>6

\* A commit that fails.
LEMMA CommitFailsAborts ==
    ASSUME IInv, CommitFails
    PROVE  Nested!Abort
<1>1. Len(txns) = 1 /\ ~Top.error /\ txns' = <<>> /\ db' = db /\ txns # <<>>
  BY DEF CommitFails
<1>2. PICK P \in SUBSET ToFlush : map' = Flushed(Top.dirty, P)
  BY DEF CommitFails
<1>3. /\ Top.dirty \in DirtyLists /\ map \in [Pages -> Contents] /\ Front(txns) = <<>>
      /\ Frame(db.root, <<>>).spilled = {}
  BY <1>1, OnlyOne
<1>4. PICK d, n : d = Top.dirty /\ n = map'
  OBVIOUS
<1>5. \A q \in Pages : n[q] # map[q] => q \in Listed(Top) /\ q \notin Frame(db.root, Front(txns)).spilled
  <2>1. P \subseteq DOMAIN d /\ d \in DirtyLists /\ n = Flushed(d, P)
    BY <1>2, <1>3, <1>4 DEF ToFlush
  <2>2. \A q \in Pages : n[q] = IF q \in P THEN d[q].val ELSE map[q]
    BY <1>3, <2>1, FlushedMap
  <2> QED BY <1>3, <1>4, <2>1, <2>2 DEF Listed
<1>6. PICK b : b = Front(txns) /\ b \in Seq(Txn) /\ Alike(Front(txns), b)
  BY <1>3, AlikeSelf, EmptySeq
<1>7. \A k \in Keys : db.root[k] # NoPage => n[db.root[k]] = map[db.root[k]]
  BY <1>1, <1>5, <1>6, BelowKept
<1>8. Committed' = Committed
  BY <1>1, <1>4, <1>7, CommittedKept
<1>9. PICK s, z : s = StackNow /\ z = StackNow'
  OBVIOUS
<1>10. z = <<>>
  BY <1>1, <1>9 DEF StackNow
<1>11. Front(s) = <<>> /\ s # <<>>
  BY <1>1, <1>9, OneState
<1> QED BY <1>8, <1>9, <1>10, <1>11, StoreSteps

\* The steps of a cursor.
LEMMA WritesAre ==
    ASSUME IInv,
           \/ \E k \in Leaves : DelLeaf(k) \/ MergeLeaf(k) \/ \E v \in Values : PutLeaf(k, v)
           \/ \E k \in Overflows : DelOverflow(k) \/ \E v \in Values : PutOverflow(k, v)
    PROVE  CanWrite /\ db' = db /\ \E k \in Keys : Operation(k)
<1>1. CASE \E k \in Leaves : DelLeaf(k) \/ MergeLeaf(k) \/ \E v \in Values : PutLeaf(k, v)
  <2>1. PICK k \in Leaves : DelLeaf(k) \/ MergeLeaf(k) \/ \E v \in Values : PutLeaf(k, v)
    BY <1>1
  <2>2. k \in Keys
    BY DEF Keys
  <2>3. CanWrite
    BY <2>1 DEF DelLeaf, MergeLeaf, PutLeaf
  <2>4. Operation(k)
    BY <2>1, <2>2, DelLeafIs, MergeLeafIs, PutLeafIs
  <2>5. db' = db
    BY <2>4 DEF Operation, Finish
  <2> QED BY <2>2, <2>3, <2>4, <2>5
<1>2. CASE \E k \in Overflows : DelOverflow(k) \/ \E v \in Values : PutOverflow(k, v)
  <2>1. PICK k \in Overflows : DelOverflow(k) \/ \E v \in Values : PutOverflow(k, v)
    BY <1>2
  <2>2. k \in Keys
    BY DEF Keys
  <2>3. CanWrite
    BY <2>1 DEF DelOverflow, PutOverflow
  <2>4. Operation(k)
    BY <2>1, <2>2, DelOverflowIs, PutOverflowIs
  <2>5. db' = db
    BY <2>4 DEF Operation, Finish
  <2> QED BY <2>2, <2>3, <2>4, <2>5
<1> QED BY <1>1, <1>2

\* When only the outermost transaction can fail to spill, no transaction that goes
\* on has a flagged page.
LEMMA NextKeep ==
    ASSUME IInv, KeepInv, [Next]_vars, SpillFailsAt \subseteq {0, 1}
    PROVE  KeepInv'
<1>1. CASE UNCHANGED vars
  <2>1. txns' = txns
    BY <1>1 DEF vars
  <2> QED BY <2>1 DEF KeepInv
<1>2. CASE Begin \/ BeginNested \/ Abort
  BY <1>2, BeginSound, BeginNestedSound, AbortSound
<1>3. CASE CommitNested \/ CommitFailed
  BY <1>3, CommitNestedSound, CommitFailedSound
<1>4. CASE Commit \/ CommitFails \/ Drop
  BY <1>4, CommitSound, CommitFailsSound, DropSound
<1>5. CASE SpillFails
  <2>1. PICK b \in Seq(Txn), u \in Txn : txns' = Append(b, u) /\ Alike(Front(txns), b) /\ u.error = TRUE
    BY <1>5, SpillFailsSound
  <2>2. txns # <<>> /\ Len(txns) \in {0, 1}
    BY <1>5 DEF SpillFails, CanWrite
  <2>3. Len(Front(txns)) + 1 = Len(txns) /\ Len(Front(txns)) \in Nat
    BY <2>2, TopSound DEF IInv
  <2>4. Len(b) = 0
    BY <2>1, <2>2, <2>3 DEF Alike
  <2>5. PICK s : s = Append(b, u)
    OBVIOUS
  <2>6. Len(s) = 1 /\ s[1] = u
    BY <2>1, <2>4, <2>5
  <2>7. \A i \in 1..Len(s) : s[i].error = TRUE
    BY <2>1, <2>6
  <2> QED BY <2>1, <2>5, <2>7 DEF KeepInv
<1>6. CASE \/ \E k \in Leaves : DelLeaf(k) \/ MergeLeaf(k) \/ \E v \in Values : PutLeaf(k, v)
           \/ \E k \in Overflows : DelOverflow(k) \/ \E v \in Values : PutOverflow(k, v)
  <2>1. PICK k \in Keys : Operation(k)
    BY <1>6, WritesAre
  <2>2. CanWrite
    BY <1>6, WritesAre
  <2> QED BY <2>1, <2>2, OperationSound
<1> QED BY <1>1, <1>2, <1>3, <1>4, <1>5, <1>6 DEF Next

\* Every step is one of NestedStore or leaves its variables as they are.
StoreStep == [Nested!Next]_(Nested!vars)
LEMMA NextStore ==
    ASSUME IInv, KeepInv, [Next]_vars
    PROVE  StoreStep
<1>1. CASE UNCHANGED vars
  <2>1. txns' = txns /\ map' = map /\ db' = db
    BY <1>1 DEF vars
  <2>2. Committed' = Committed
    BY <2>1 DEF Committed
  <2>3. TypeInv /\ TypeInv'
    BY NextInv DEF IInv
  <2>4. StackNow = States(txns, map) /\ StackNow' = States(txns', map')
    BY <2>3, StackIs, StackNext
  <2>5. StackNow' = StackNow
    BY <2>1, <2>4
  <2> QED BY <2>2, <2>5 DEF StoreStep, Nested!vars, StackNow
<1>2. CASE Begin
  BY <1>2, BeginBegins DEF StoreStep, Nested!Next
<1>3. CASE BeginNested
  BY <1>3, NestedBegins DEF StoreStep, Nested!Next
<1>4. CASE Abort
  BY <1>4, AbortAborts DEF StoreStep, Nested!Next
<1>5. CASE CommitNested
  BY <1>5, NestedCommits DEF StoreStep, Nested!Next
<1>6. CASE CommitFailed
  BY <1>6, FailedCommits DEF StoreStep, Nested!Next
<1>7. CASE Commit
  BY <1>7, CommitCommits DEF StoreStep, Nested!Next
<1>8. CASE CommitFails
  BY <1>8, CommitFailsAborts DEF StoreStep, Nested!Next
<1>9. CASE SpillFails
  BY <1>9, SpillFailsFails DEF StoreStep, Nested!Next
<1>10. CASE Drop
  BY <1>10, DropDrops DEF StoreStep, Nested!Next
<1>11. CASE \/ \E k \in Leaves : DelLeaf(k) \/ MergeLeaf(k) \/ \E v \in Values : PutLeaf(k, v)
            \/ \E k \in Overflows : DelOverflow(k) \/ \E v \in Values : PutOverflow(k, v)
  <2>1. PICK k \in Keys : Operation(k)
    BY <1>11, WritesAre
  <2>2. CanWrite
    BY <1>11, WritesAre
  <2>3. Nested!Update \/ Nested!Fail
    BY <2>1, <2>2, OperationUpdates
  <2> QED BY <2>3 DEF StoreStep, Nested!Next
<1> QED BY <1>1, <1>2, <1>3, <1>4, <1>5, <1>6, <1>7, <1>8, <1>9, <1>10, <1>11 DEF Next

\* The step that changes the meta page writes what the transaction saw.
LEMMA NextSaves ==
    ASSUME IInv, KeepInv, [Next]_vars, Len(txns) = 1, txns' = <<>>, db' # db
    PROVE  Committed' = View(1)
<1>1. CASE Commit
  <2>1. Top.wrote /\ ~Top.error
    BY <1>1 DEF Commit
  <2>2. PICK x : x = Seen(<<>>, Top, map)
    OBVIOUS
  <2>3. Committed' = x
    BY <1>1, <2>1, <2>2, CommitWrites
  <2>4. View(1) = x
    BY <2>1, <2>2, OneState
  <2> QED BY <2>3, <2>4
<1>2. CASE UNCHANGED vars
  BY <1>2 DEF vars
<1>3. CASE Begin \/ BeginNested \/ Abort \/ CommitNested \/ CommitFailed \/ CommitFails
  BY <1>3 DEF Begin, BeginNested, Abort, CommitNested, CommitFailed, CommitFails
<1>4. CASE SpillFails \/ Drop
  BY <1>4, SpillFailsSound, DropSound
<1>5. CASE \/ \E k \in Leaves : DelLeaf(k) \/ MergeLeaf(k) \/ \E v \in Values : PutLeaf(k, v)
           \/ \E k \in Overflows : DelOverflow(k) \/ \E v \in Values : PutOverflow(k, v)
  BY <1>5, WritesAre
<1> QED BY <1>1, <1>2, <1>3, <1>4, <1>5 DEF Next

\* Nested transactions implement the stack of copies of NestedStore: whatever was
\* spilled, copied or reused, each one sees its own state, an aborted child leaves
\* its parent's as it was, and only the outermost commit changes the committed
\* state.  A spill that fails in a nested transaction leaves its ancestors' pages
\* flagged, so it must not happen.
THEOREM NestedStoreImplemented ==
    ASSUME SpillFailsAt \subseteq {0, 1}
    PROVE  Spec => ImplementsNestedStore
<1>1. Init => IInv /\ KeepInv
  BY InitInv
<1>2. IInv /\ KeepInv /\ [Next]_vars => IInv' /\ KeepInv'
  BY NextInv, NextKeep
<1>3. Init => Nested!Init
  <2> SUFFICES ASSUME Init PROVE Nested!Init
    OBVIOUS
  <2>1. txns = <<>> /\ map \in [Pages -> Contents] /\ db.root \in Roots
    BY InitInv DEF Init, IInv, TypeInv
  <2>2. Committed \in [Keys -> Values \cup {Blank}]
    BY <2>1 DEF Committed, Roots, Contents
  <2>3. [i \in 1..Len(txns) |-> IF txns[i].error THEN Failed ELSE View(i)] = <<>>
    BY <2>1
  <2> QED BY <2>2, <2>3 DEF Nested!Init
<1>4. IInv /\ KeepInv /\ [Next]_vars => [Nested!Next]_(Nested!vars)
  BY NextStore DEF StoreStep
<1> QED BY <1>1, <1>2, <1>3, <1>4, PTL DEF Spec, ImplementsNestedStore, Nested!Spec

\* What the outermost commit leaves in the map is what the transaction saw.
THEOREM CommitTheorem ==
    ASSUME SpillFailsAt \subseteq {0, 1}
    PROVE  Spec => CommitSavesAll
<1>1. Init => IInv /\ KeepInv
  BY InitInv
<1>2. IInv /\ KeepInv /\ [Next]_vars => IInv' /\ KeepInv'
  BY NextInv, NextKeep
<1>3. IInv /\ KeepInv /\ [Next]_vars => [Len(txns) = 1 /\ txns' = <<>> /\ db' # db => Committed' = View(1)]_vars
  BY NextSaves
<1> QED BY <1>1, <1>2, <1>3, PTL DEF Spec, CommitSavesAll
=============================================================================
