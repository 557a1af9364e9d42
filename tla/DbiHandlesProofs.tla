-------------------------- MODULE DbiHandlesProofs --------------------------
(* Proofs about DbiHandles, for any number of threads, databases and levels   *)
(* of nesting.                                                                *)
EXTENDS DbiHandles, OrderLemmas, SequenceTheorems, TLAPS

\* Types.
Contents == Values \cup {0, Absent}
View == [Names -> Contents]
Pairs == Dbis \X Names
FlagNames == {"NEW", "VALID", "STALE", "DIRTY"}
Level == [numdbs : 0..MaxDbs, flags : [Dbis -> SUBSET FlagNames], dbs : [Dbis -> Contents],
          main : View, mine : SUBSET Pairs, want : View]
Txn == [kind : {"ro", "rw"}, pc : {"begin", "live", "written"}, seqs : [Dbis -> Nat] \cup {<<>>},
        levels : Seq(Level), offered : SUBSET Pairs, opened : BOOLEAN, overlap : BOOLEAN]
Call == [op : {"open", "create"}, name : Names, done : BOOLEAN]

TypeInv ==
    /\ names \in [Dbis -> Names \cup {NoName}] /\ valid \in [Dbis -> BOOLEAN]
    /\ seqs \in [Dbis -> Nat] /\ numdbs \in 0..MaxDbs /\ main \in View
    /\ wmutex \in Threads \cup {Nobody} /\ dbimutex \in Threads \cup {Nobody}
    /\ txn \in [Threads -> Txn \cup {NoTxn}] /\ call \in [Threads -> Call \cup {NoCall}]
    /\ held \in SUBSET Pairs

\* What the transactions share: open is the set of the numbers that are valid.
Shared == [names |-> names, open |-> {s \in Dbis : valid[s]}, seqs |-> seqs, numdbs |-> numdbs,
           main |-> main, held |-> held]
Tables == [names : [Dbis -> Names \cup {NoName}], open : SUBSET Dbis, seqs : [Dbis -> Nat],
           numdbs : 0..MaxDbs, main : View, held : SUBSET Pairs]

-----------------------------------------------------------------------------
(* The inductive invariant.  Of a transaction T and what it shares, g. *)

N(T) == Len(T.levels)
Has(x, f, s) == f \in x.flags[s]
\* The transaction has the record of the database.
Known(x, s) == Has(x, "VALID", s) /\ ~Has(x, "STALE", s)

FlagsOK(x) == \A s \in Dbis :
    /\ Has(x, "VALID", s) => s <= x.numdbs
    /\ Has(x, "NEW", s) \/ Has(x, "DIRTY", s) => Known(x, s)

Shape(T) ==
    /\ N(T) >= 1
    /\ \A i \in 1..N(T) : FlagsOK(T.levels[i])
    /\ \A i, j \in 1..N(T) : i <= j => T.levels[i].numdbs <= T.levels[j].numdbs
    /\ T.pc = "begin" => N(T) = 1 /\ ~T.opened /\ \A s \in Dbis : T.levels[1].flags[s] = {}

\* A transaction that has not used mdb_dbi_open.
Unused(T, g) == ~T.opened => \A i \in 1..N(T) :
    /\ T.levels[i].mine = {} /\ T.levels[i].numdbs <= g.numdbs
    /\ \A s \in Dbis : ~Has(T.levels[i], "NEW", s)

\* The handles it has opened are those of the environment, or its own until it
\* ends, and those it began with are accepted on every level.
NewBelow(T, i, s) == \E j \in 1..i : Has(T.levels[j], "NEW", s)
MineOK(T, g) == \A i \in 1..N(T) : \A h \in T.levels[i].mine :
    /\ g.names[h[1]] = h[2]
    /\ h[1] \in g.open \/ NewBelow(T, i, h[1])
    /\ \A j \in i..N(T) : Has(T.levels[j], "VALID", h[1])
OfferedOK(T, g) ==
    /\ T.offered \subseteq g.held
    /\ T.pc # "begin" => \A h \in T.offered : \A i \in 1..N(T) : Has(T.levels[i], "VALID", h[1])

\* What it can see of the environment's table.
SeesOK(T, g) ==
    /\ T.pc # "begin" /\ ~T.overlap => \A i \in 1..N(T) :
           /\ g.numdbs <= T.levels[i].numdbs
           /\ \A s \in g.open : Has(T.levels[i], "VALID", s)
    /\ \A i \in 1..N(T) : \A s \in Dbis : Has(T.levels[i], "NEW", s) => s \notin g.open

\* A write transaction.  A number may have been dropped or closed behind a level
\* that has not read its record (its sequence number tells), or got a new name in
\* a deeper level.
NewAbove(T, i, s) == \E j \in (i + 1)..N(T) : Has(T.levels[j], "NEW", s)
KnownOK(T, i, g) == \A s \in Dbis : Known(T.levels[i], s) =>
    /\ T.seqs[s] = g.seqs[s] /\ g.names[s] # NoName
    /\ T.levels[i].dbs[s] = T.levels[i].want[g.names[s]] /\ T.levels[i].want[g.names[s]] # Absent
    /\ \A j \in (i + 1)..N(T) : Known(T.levels[j], s) /\ ~Has(T.levels[j], "NEW", s)
StaleOK(T, i, g) == \A s \in Dbis :
    Has(T.levels[i], "VALID", s) /\ Has(T.levels[i], "STALE", s) /\ T.seqs[s] = g.seqs[s] /\ ~NewAbove(T, i, s) =>
        /\ g.names[s] # NoName
        /\ T.levels[i].main[g.names[s]] = T.levels[i].want[g.names[s]]
        /\ T.levels[i].want[g.names[s]] # Absent
RecordsOK(T, i, g) == \A n \in Names :
    \/ T.levels[i].main[n] = T.levels[i].want[n]
    \/ \E s \in Dbis : Has(T.levels[i], "DIRTY", s) /\ g.names[s] = n
OpenOK(T, i, g) ==
    /\ \A s \in g.open : /\ Has(T.levels[i], "VALID", s) => T.seqs[s] = g.seqs[s]
                         /\ T.levels[i].want[g.names[s]] # Absent
    /\ ~T.opened => /\ \A s \in Dbis : Has(T.levels[i], "VALID", s) => s \in g.open
                    /\ \A n \in Names : g.main[n] # Absent => T.levels[i].want[n] # Absent
LevelOK(T, i, g) == KnownOK(T, i, g) /\ StaleOK(T, i, g) /\ RecordsOK(T, i, g) /\ OpenOK(T, i, g)
RwOK(T, g) ==
    /\ T.seqs \in [Dbis -> Nat] /\ \A s \in Dbis : T.seqs[s] <= g.seqs[s]
    /\ \A i \in 1..N(T) : LevelOK(T, i, g)
    /\ T.pc = "begin" => /\ \A s \in Dbis : g.names[s] # NoName => T.seqs[s] = g.seqs[s]
                         /\ g.main = T.levels[1].main /\ g.main = T.levels[1].want
    /\ T.pc = "written" => N(T) = 1 /\ g.main = T.levels[1].want

\* A read transaction.
RoOK(T, g) ==
    /\ N(T) = 1 /\ T.pc # "written" /\ T.levels[1].main = T.levels[1].want
    /\ \A s \in Dbis : Known(T.levels[1], s) =>
           /\ g.names[s] # NoName /\ T.levels[1].dbs[s] = T.levels[1].want[g.names[s]]
           /\ T.levels[1].dbs[s] # Absent
           /\ s \in g.open \/ Has(T.levels[1], "NEW", s)
    /\ ~T.overlap => \A n \in Names : T.levels[1].main[n] # Absent => g.main[n] # Absent
    /\ \A s \in Dbis : Has(T.levels[1], "NEW", s) => g.main[g.names[s]] # Absent

TxnOK(T, g) ==
    /\ Shape(T) /\ Unused(T, g) /\ MineOK(T, g) /\ OfferedOK(T, g) /\ SeesOK(T, g)
    /\ T.kind = "rw" => RwOK(T, g)
    /\ T.kind = "ro" => RoOK(T, g)

\* The table: a number that has a name is valid, or new in a transaction that
\* has opened the name.
NewIn(T, s) == \E i \in 1..N(T) : Has(T.levels[i], "NEW", s)
TableOK(g) ==
    /\ \A s \in g.open : g.names[s] # NoName /\ s <= g.numdbs /\ g.main[g.names[s]] # Absent
    /\ \A s, r \in Dbis : g.names[s] # NoName /\ g.names[s] = g.names[r] => s = r
    /\ \A h \in g.held : h[1] \in g.open /\ g.names[h[1]] = h[2]
NamedInv == \A s \in Dbis : names[s] # NoName => valid[s] \/ \E t \in Threads : NewIn(txn[t], s)
TableInv == TableOK(Shared) /\ NamedInv /\ main = saved

TxnsInv == \A t \in Threads : txn[t] # NoTxn => TxnOK(txn[t], Shared)

\* mdb_dbi_open is used by one transaction at a time, as its documentation asks:
\* the others that are open have overlapped it.
SoleInv ==
    /\ \A t, u \in Threads : txn[t].opened /\ txn[u].opened => t = u
    /\ \A t, u \in Threads : call[t] # NoCall /\ txn[u].opened => t = u
    /\ \A t, u \in Threads : txn[t].opened /\ u # t /\ txn[u] # NoTxn => txn[u].overlap
MutexInv ==
    /\ \A t \in Threads : txn[t].kind = "rw" <=> wmutex = t
    /\ \A t \in Threads : call[t] # NoCall <=> dbimutex = t
    /\ \A t \in Threads : call[t] # NoCall /\ txn[t] # NoTxn =>
          ~txn[t].overlap /\ N(txn[t]) = 1 /\ (txn[t].kind = "rw" <=> call[t].op = "create")

IInv == TypeInv /\ TableInv /\ TxnsInv /\ SoleInv /\ MutexInv

-----------------------------------------------------------------------------
(* Sequences of levels: the last is replaced, or taken away. *)

\* The last level is taken away: the others stay.
LEMMA TakenAway ==
    ASSUME NEW L \in Seq(Level), L # <<>>, NEW K, K = Front(L)
    PROVE  /\ K \in Seq(Level) /\ Len(K) = Len(L) - 1 /\ Len(L) \in Nat \ {0}
           /\ \A i \in 1..(Len(L) - 1) : K[i] = L[i]
<1>1. PICK n : n = Len(L) - 1
  OBVIOUS
<1>2. n \in 0..Len(L) /\ n + 1 = Len(L)
  BY <1>1
<1>3. K = SubSeq(L, 1, n)
  BY <1>1 DEF Front
<1>4. K \in Seq(Level) /\ Len(K) = n /\ \A i \in 1..n : K[i] = L[i]
  BY <1>2, <1>3
<1> QED BY <1>1, <1>2, <1>4

Tipped(L, x) == Append(Front(L), x)
TopOf(K, L, x) == /\ K \in Seq(Level) /\ Len(K) = Len(L) /\ Len(L) \in Nat \ {0}
                  /\ K[Len(L)] = x /\ \A i \in 1..(Len(L) - 1) : K[i] = L[i]

\* The last level is replaced, as the steps of a transaction do.
LEMMA Replaced ==
    ASSUME NEW L \in Seq(Level), L # <<>>, NEW x \in Level, NEW K, K = Tipped(L, x)
    PROVE  TopOf(K, L, x)
<1>1. PICK F : F = Front(L)
  OBVIOUS
<1>2. F \in Seq(Level) /\ Len(F) = Len(L) - 1 /\ \A i \in 1..(Len(L) - 1) : F[i] = L[i]
  BY <1>1, TakenAway
<1>3. K = Append(F, x) /\ Len(L) \in Nat \ {0}
  BY <1>1 DEF Tipped
<1> QED BY <1>2, <1>3 DEF TopOf

\* The last level.
LEMMA LastIs ==
    ASSUME NEW L \in Seq(Level), L # <<>>
    PROVE  Last(L) = L[Len(L)] /\ Last(L) \in Level /\ Len(L) \in Nat \ {0}
BY DEF Last

-----------------------------------------------------------------------------
(* Types. *)

\* What the transactions share has its type.
LEMMA SharedType ==
    ASSUME TypeInv
    PROVE  Shared \in Tables
<1>1. {s \in Dbis : valid[s]} \in SUBSET Dbis
  OBVIOUS
<1> QED BY <1>1 DEF TypeInv, Shared, Tables

\* The same after a step.
LEMMA TypeNext ==
    ASSUME TypeInv'
    PROVE  Shared' \in Tables
<1>1. {s \in Dbis : valid'[s]} \in SUBSET Dbis
  OBVIOUS
<1> QED BY <1>1 DEF TypeInv, Shared, Tables

\* A transaction that there is has levels.
LEMMA TxnType ==
    ASSUME NEW T \in Txn
    PROVE  /\ T.levels \in Seq(Level) /\ N(T) \in Nat /\ T.offered \in SUBSET Pairs
           /\ T.kind \in {"ro", "rw"} /\ T.pc \in {"begin", "live", "written"}
           /\ T.opened \in BOOLEAN /\ T.overlap \in BOOLEAN
           /\ T.seqs \in [Dbis -> Nat] \cup {<<>>}
           /\ \A i \in 1..N(T) : T.levels[i] \in Level
<1>1. T.levels \in Seq(Level)
  BY DEF Txn
<1> QED BY <1>1 DEF Txn, N

\* The fields of a level.
LEMMA LevelType ==
    ASSUME NEW x \in Level
    PROVE  /\ x.numdbs \in 0..MaxDbs /\ x.flags \in [Dbis -> SUBSET FlagNames]
           /\ x.dbs \in [Dbis -> Contents] /\ x.main \in View /\ x.mine \in SUBSET Pairs
           /\ x.want \in View
BY DEF Level

\* A thread without a transaction.
LEMMA NoTxnIs ==
    /\ NoTxn.kind = "none" /\ NoTxn.pc = "none" /\ NoTxn.levels = <<>> /\ NoTxn.opened = FALSE
    /\ NoTxn.overlap = FALSE /\ NoTxn \notin Txn /\ N(NoTxn) = 0
<1>1. NoTxn.kind = "none" /\ NoTxn.pc = "none" /\ NoTxn.levels = <<>>
  BY DEF NoTxn
<1>2. NoTxn.opened = FALSE /\ NoTxn.overlap = FALSE
  BY DEF NoTxn
<1>3. NoTxn \notin Txn
  BY <1>1 DEF Txn
<1> QED BY <1>1, <1>2, <1>3 DEF N

-----------------------------------------------------------------------------
(* What the others do to a transaction U. *)

Overlapping(U) == [U EXCEPT !.overlap = TRUE]

\* It has overlapped a use of mdb_dbi_open.
OverlappedIs(V, U, g) ==
    /\ TxnOK(V, g) /\ V \in Txn /\ V.opened = U.opened /\ V.overlap = TRUE /\ V.kind = U.kind
    /\ V.levels = U.levels /\ V.pc = U.pc /\ V.offered = U.offered

\* A transaction that overlaps a use of mdb_dbi_open keeps its invariant.
LEMMA Overlapped ==
    ASSUME NEW g, NEW U \in Txn, TxnOK(U, g), NEW V, V = Overlapping(U)
    PROVE  OverlappedIs(V, U, g)
<1>1. /\ V.levels = U.levels /\ V.pc = U.pc /\ V.kind = U.kind /\ V.seqs = U.seqs
      /\ V.offered = U.offered /\ V \in Txn
  BY DEF Txn, Overlapping
<1>2. V.opened = U.opened /\ V.overlap = TRUE
  BY DEF Txn, Overlapping
<1>3. N(V) = N(U) /\ (Shape(V) <=> Shape(U)) /\ (Unused(V, g) <=> Unused(U, g))
  BY <1>1, <1>2 DEF N, Shape, Unused
<1>4. (MineOK(V, g) <=> MineOK(U, g)) /\ (OfferedOK(V, g) <=> OfferedOK(U, g))
  BY <1>1, <1>3 DEF MineOK, NewBelow, OfferedOK
<1>5. SeesOK(U, g) => SeesOK(V, g)
  BY <1>1, <1>2, <1>3 DEF SeesOK
<1>6. RwOK(U, g) => RwOK(V, g)
  <2>1. ASSUME NEW i \in 1..N(U), LevelOK(U, i, g) PROVE LevelOK(V, i, g)
    <3>1. KnownOK(V, i, g)
      BY <1>1, <1>3, <2>1 DEF LevelOK, KnownOK
    <3>2. StaleOK(V, i, g)
      BY <1>1, <1>3, <2>1 DEF LevelOK, StaleOK, NewAbove
    <3>3. RecordsOK(V, i, g) /\ OpenOK(V, i, g)
      BY <1>1, <1>2, <2>1 DEF LevelOK, RecordsOK, OpenOK
    <3> QED BY <3>1, <3>2, <3>3 DEF LevelOK
  <2> QED BY <1>1, <1>3, <2>1 DEF RwOK
<1>7. RoOK(U, g) => RoOK(V, g)
  BY <1>1, <1>2, <1>3 DEF RoOK
<1>8. TxnOK(V, g)
  BY <1>1, <1>3, <1>4, <1>5, <1>6, <1>7 DEF TxnOK
<1> QED BY <1>1, <1>2, <1>8 DEF OverlappedIs

\* Another transaction opens or closes numbers S, which are not valid for U.
LEMMA Elsewhere ==
    ASSUME NEW g \in Tables, NEW h \in Tables, NEW U \in Txn, TxnOK(U, g), ~U.opened, U.overlap,
           NEW S, S \cap g.open = {},
           h.open = g.open, h.numdbs = g.numdbs, h.main = g.main, h.held = g.held,
           \A r \in Dbis \ S : h.names[r] = g.names[r] /\ h.seqs[r] = g.seqs[r],
           \A r \in Dbis : g.seqs[r] <= h.seqs[r],
           U.kind = "rw" /\ U.pc = "begin" => \A r \in S : h.names[r] = NoName
    PROVE  TxnOK(U, h)
<1>1. /\ Shape(U) /\ Unused(U, g) /\ OfferedOK(U, g) /\ SeesOK(U, g)
      /\ \A i \in 1..N(U) : U.levels[i].mine = {} /\ \A s \in Dbis : ~Has(U.levels[i], "NEW", s)
  BY DEF TxnOK, Unused
<1>2. N(U) >= 1 /\ N(U) \in Nat
  BY <1>1, TxnType DEF Shape
<1>3. Unused(U, h) /\ OfferedOK(U, h) /\ SeesOK(U, h)
  BY <1>1 DEF Unused, OfferedOK, SeesOK
<1>4. MineOK(U, h)
  BY <1>1 DEF MineOK
<1>5. ASSUME U.kind = "rw" PROVE RwOK(U, h)
  <2>1. RwOK(U, g)
    BY <1>5 DEF TxnOK
  <2>2. U.seqs \in [Dbis -> Nat]
    BY <2>1 DEF RwOK
  <2>3. \A s \in Dbis : U.seqs[s] <= h.seqs[s]
    BY <2>1, <2>2 DEF RwOK, Tables
  <2>4. ASSUME NEW i \in 1..N(U) PROVE LevelOK(U, i, h)
    <3>1. LevelOK(U, i, g)
      BY <2>1, <2>4 DEF RwOK
    <3>2. OpenOK(U, i, g)
      BY <3>1 DEF LevelOK
    <3>3. \A s \in Dbis : Has(U.levels[i], "VALID", s) => s \in g.open /\ s \notin S
      BY <3>2 DEF OpenOK
    <3>4. KnownOK(U, i, h)
      BY <3>1, <3>3 DEF LevelOK, KnownOK, Known
    <3>5. StaleOK(U, i, h)
      BY <3>1, <3>3 DEF LevelOK, StaleOK
    <3>6. RecordsOK(U, i, h)
      <4> SUFFICES ASSUME NEW n \in Names, U.levels[i].main[n] # U.levels[i].want[n]
                   PROVE  \E s \in Dbis : Has(U.levels[i], "DIRTY", s) /\ h.names[s] = n
        BY DEF RecordsOK
      <4>1. PICK s \in Dbis : Has(U.levels[i], "DIRTY", s) /\ g.names[s] = n
        BY <3>1 DEF LevelOK, RecordsOK
      <4>2. Has(U.levels[i], "VALID", s)
        BY <1>1, <4>1 DEF Shape, FlagsOK, Known
      <4> QED BY <3>3, <4>1, <4>2
    <3>7. OpenOK(U, i, h)
      <4>1. \A s \in g.open : s \in Dbis \ S
        BY DEF Tables
      <4> QED BY <3>2, <3>3, <4>1 DEF OpenOK
    <3> QED BY <3>4, <3>5, <3>6, <3>7 DEF LevelOK
  <2>5. U.pc = "begin" => \A s \in Dbis : h.names[s] # NoName => U.seqs[s] = h.seqs[s]
    BY <1>5, <2>1 DEF RwOK
  <2> QED BY <2>1, <2>2, <2>3, <2>4, <2>5 DEF RwOK
<1>6. ASSUME U.kind = "ro" PROVE RoOK(U, h)
  <2>1. RoOK(U, g)
    BY <1>6 DEF TxnOK
  <2>2. 1 \in 1..N(U)
    BY <1>2
  <2>3. \A s \in Dbis : Known(U.levels[1], s) => s \in g.open /\ s \notin S
    BY <1>1, <2>1, <2>2 DEF RoOK
  <2>4. \A s \in Dbis : ~Has(U.levels[1], "NEW", s)
    BY <1>1, <2>2
  <2> QED BY <2>1, <2>3, <2>4 DEF RoOK
<1> QED BY <1>1, <1>3, <1>4, <1>5, <1>6 DEF TxnOK

\* Another transaction ends and exports its handles.
LEMMA Exports ==
    ASSUME NEW g \in Tables, NEW h \in Tables, NEW U \in Txn, TxnOK(U, g), ~U.opened, U.overlap,
           g.open \subseteq h.open, g.held \subseteq h.held, g.numdbs <= h.numdbs,
           h.names = g.names, h.seqs = g.seqs, h.main = g.main,
           \A s \in h.open : g.names[s] \in Names /\ g.main[g.names[s]] # Absent
    PROVE  TxnOK(U, h)
<1>1. /\ Shape(U) /\ Unused(U, g) /\ OfferedOK(U, g) /\ SeesOK(U, g)
      /\ \A i \in 1..N(U) : U.levels[i].mine = {} /\ \A s \in Dbis : ~Has(U.levels[i], "NEW", s)
  BY DEF TxnOK, Unused
<1>2. N(U) >= 1 /\ N(U) \in Nat
  BY <1>1, TxnType DEF Shape
<1>3. Unused(U, h)
  <2>1. \A i \in 1..N(U) : U.levels[i].numdbs \in 0..MaxDbs
    BY TxnType, LevelType
  <2>2. \A i \in 1..N(U) : U.levels[i].numdbs <= h.numdbs
    BY <1>1, <2>1 DEF Unused, Tables
  <2> QED BY <1>1, <2>2 DEF Unused
<1>4. OfferedOK(U, h) /\ SeesOK(U, h) /\ MineOK(U, h)
  BY <1>1 DEF OfferedOK, SeesOK, MineOK
<1>5. ASSUME U.kind = "rw" PROVE RwOK(U, h)
  <2>1. RwOK(U, g)
    BY <1>5 DEF TxnOK
  <2>2. ASSUME NEW i \in 1..N(U) PROVE LevelOK(U, i, h)
    <3>1. LevelOK(U, i, g)
      BY <2>1, <2>2 DEF RwOK
    <3>2. KnownOK(U, i, h) /\ StaleOK(U, i, h) /\ RecordsOK(U, i, h)
      BY <3>1 DEF LevelOK, KnownOK, StaleOK, RecordsOK
    <3>3. \A s \in Dbis : Has(U.levels[i], "VALID", s) => s \in g.open
      BY <3>1 DEF LevelOK, OpenOK
    <3>4. \A s \in h.open : s \in Dbis
      BY DEF Tables
    <3>5. \A n \in Names : g.main[n] # Absent => U.levels[i].want[n] # Absent
      BY <3>1 DEF LevelOK, OpenOK
    <3>6. OpenOK(U, i, h)
      BY <3>1, <3>3, <3>4, <3>5 DEF LevelOK, OpenOK
    <3> QED BY <3>2, <3>6 DEF LevelOK
  <2> QED BY <2>1, <2>2 DEF RwOK
<1>6. ASSUME U.kind = "ro" PROVE RoOK(U, h)
  BY <1>6 DEF TxnOK, RoOK
<1> QED BY <1>1, <1>3, <1>4, <1>5, <1>6 DEF TxnOK

\* A write transaction saves what it has changed while U reads.
LEMMA Saves ==
    ASSUME NEW g, NEW h, NEW U \in Txn, TxnOK(U, g), U.kind = "ro",
           h.names = g.names, h.open = g.open, h.seqs = g.seqs, h.numdbs = g.numdbs, h.held = g.held,
           \/ \A n \in Names : g.main[n] # Absent => h.main[n] # Absent
           \/ U.overlap /\ ~U.opened,
           \A s \in Dbis : NewIn(U, s) => g.names[s] \in Names
    PROVE  TxnOK(U, h)
<1>1. Shape(U) /\ Unused(U, g) /\ OfferedOK(U, g) /\ SeesOK(U, g) /\ MineOK(U, g) /\ RoOK(U, g)
  BY DEF TxnOK
<1>2. Unused(U, h) /\ OfferedOK(U, h) /\ SeesOK(U, h) /\ MineOK(U, h)
  BY <1>1 DEF Unused, OfferedOK, SeesOK, MineOK
<1>3. N(U) = 1 /\ 1 \in 1..N(U)
  BY <1>1 DEF RoOK
<1>4. \A s \in Dbis : Has(U.levels[1], "NEW", s) => h.main[g.names[s]] # Absent
  <2>1. CASE U.overlap /\ ~U.opened
    BY <1>1, <1>3, <2>1 DEF Unused
  <2>2. CASE \A n \in Names : g.main[n] # Absent => h.main[n] # Absent
    BY <1>1, <1>3, <2>2 DEF RoOK, NewIn
  <2> QED BY <2>1, <2>2
<1>5. ~U.overlap => \A n \in Names : U.levels[1].main[n] # Absent => h.main[n] # Absent
  BY <1>1 DEF RoOK
<1>6. RoOK(U, h)
  BY <1>1, <1>4, <1>5 DEF RoOK
<1> QED BY <1>1, <1>2, <1>6 DEF TxnOK

\* It began with a handle that is not there any more.
Withdrawn(U, d) == [U EXCEPT !.offered = @ \ {d}]

\* A write transaction drops the database s, of which U has no record.
LEMMA Drops ==
    ASSUME NEW g \in Tables, NEW h \in Tables, NEW U \in Txn, TxnOK(U, g), ~U.opened, U.overlap,
           U.kind = "ro", NEW s, NEW d,
           ~Known(U.levels[1], s), h.open = g.open \ {s}, h.numdbs = g.numdbs, h.main = g.main,
           h.held = g.held \ {d},
           \A r \in Dbis \ {s} : h.names[r] = g.names[r] /\ h.seqs[r] = g.seqs[r],
           NEW V, V = Withdrawn(U, d)
    PROVE  TxnOK(V, h) /\ V \in Txn /\ V.opened = U.opened /\ V.overlap = U.overlap /\ V.kind = U.kind
           /\ V.levels = U.levels
<1>1. /\ Shape(U) /\ Unused(U, g) /\ OfferedOK(U, g) /\ SeesOK(U, g) /\ RoOK(U, g)
      /\ \A i \in 1..N(U) : U.levels[i].mine = {} /\ \A r \in Dbis : ~Has(U.levels[i], "NEW", r)
  BY DEF TxnOK, Unused
<1>2. /\ V.levels = U.levels /\ V.pc = U.pc /\ V.kind = U.kind /\ V.seqs = U.seqs
      /\ V.offered = U.offered \ {d} /\ V.opened = U.opened /\ V.overlap = U.overlap /\ V \in Txn
  BY DEF Txn, Withdrawn
<1>3. N(V) = N(U) /\ N(U) = 1 /\ 1 \in 1..N(U)
  BY <1>1, <1>2 DEF N, RoOK
<1>4. Shape(V) /\ Unused(V, h)
  BY <1>1, <1>2, <1>3 DEF Shape, Unused
<1>5. MineOK(V, h)
  BY <1>1, <1>2, <1>3 DEF MineOK
<1>6. OfferedOK(V, h)
  BY <1>1, <1>2, <1>3 DEF OfferedOK
<1>7. SeesOK(V, h)
  BY <1>1, <1>2, <1>3 DEF SeesOK
<1>8. RoOK(V, h)
  <2>1. \A r \in Dbis : ~Has(U.levels[1], "NEW", r)
    BY <1>1, <1>3
  <2>2. \A r \in Dbis : Known(U.levels[1], r) => r # s /\ r \in h.open
    BY <1>1, <2>1 DEF RoOK
  <2> QED BY <1>1, <1>2, <1>3, <2>1, <2>2 DEF RoOK
<1> QED BY <1>2, <1>4, <1>5, <1>6, <1>7, <1>8 DEF TxnOK

-----------------------------------------------------------------------------
(* What a transaction T does to itself.  V is T after the step. *)

\* Only the levels, pc and opened differ; and of the levels, only the last.
Same(V, T) ==
    /\ V \in Txn /\ V.kind = T.kind /\ V.seqs = T.seqs /\ V.offered = T.offered
    /\ V.overlap = T.overlap
Topped(V, T, x) ==
    /\ N(V) = N(T) /\ V.levels[N(T)] = x /\ \A i \in 1..(N(T) - 1) : V.levels[i] = T.levels[i]

\* A number that is new on a level has its record there and on those above it.
LEMMA NewKnown ==
    ASSUME NEW g, NEW T \in Txn, TxnOK(T, g), NEW s \in Dbis, NEW i \in 1..N(T), NEW j \in 1..N(T),
           i <= j, Has(T.levels[i], "NEW", s)
    PROVE  Known(T.levels[j], s) /\ (i # j => ~Has(T.levels[j], "NEW", s))
<1>1. Known(T.levels[i], s)
  BY DEF TxnOK, Shape, FlagsOK
<1>2. CASE i = j
  BY <1>1, <1>2
<1>3. CASE i # j /\ T.kind = "rw"
  <2>1. KnownOK(T, i, g)
    BY <1>3 DEF TxnOK, RwOK, LevelOK
  <2>2. j \in (i + 1)..N(T)
    BY <1>3, TxnType
  <2> QED BY <1>1, <2>1, <2>2 DEF KnownOK
<1>4. CASE i # j /\ T.kind = "ro"
  <2>1. N(T) = 1
    BY <1>4 DEF TxnOK, RoOK
  <2> QED BY <1>4, <2>1
<1> QED BY <1>2, <1>3, <1>4, TxnType

\* mdb_txn_begin.
LEMMA BegunOK ==
    ASSUME TypeInv, TableInv, NEW kind \in {"ro", "rw"}, NEW q, kind = "rw" => q = seqs,
           kind = "ro" => q = <<>>, NEW T, T = Begun(kind, q)
    PROVE  /\ T \in Txn /\ TxnOK(T, Shared) /\ T.kind = kind /\ T.opened = FALSE /\ N(T) = 1
           /\ T.overlap \in BOOLEAN /\ (T.overlap <=> \E u \in Threads : txn[u].opened)
           /\ \A s \in Dbis : ~NewIn(T, s)
<1>1. PICK x : x = [numdbs |-> 0, flags |-> [s \in Dbis |-> {}], dbs |-> [s \in Dbis |-> Absent],
                    main |-> main, mine |-> {}, want |-> saved]
  OBVIOUS
<1>2. PICK o \in BOOLEAN : o <=> \E u \in Threads : txn[u].opened
  OBVIOUS
<1>3. T = [NoTxn EXCEPT !.kind = kind, !.pc = "begin", !.seqs = q, !.offered = held,
                        !.overlap = \E u \in Threads : txn[u].opened, !.levels = <<x>>]
  BY <1>1 DEF Begun
<1>4. /\ T.kind = kind /\ T.pc = "begin" /\ T.seqs = q /\ T.offered = held /\ T.levels = <<x>>
      /\ T.opened = FALSE
  BY <1>3 DEF NoTxn
<1>5. T.overlap = (\E u \in Threads : txn[u].opened)
  BY <1>3 DEF NoTxn
<1>6. T.overlap \in BOOLEAN /\ (T.overlap <=> \E u \in Threads : txn[u].opened)
  BY <1>5
<1>7. MaxDbs \in Nat /\ 0 \in 0..MaxDbs
  BY DbiAssumption
<1>8. x \in Level
  <2>1. main \in View /\ saved \in View
    BY DEF TypeInv, TableInv
  <2>2. [s \in Dbis |-> {}] \in [Dbis -> SUBSET FlagNames] /\ [s \in Dbis |-> Absent] \in [Dbis -> Contents]
    BY DEF Contents
  <2> QED BY <1>1, <1>7, <2>1, <2>2 DEF Level
<1>9. T \in Txn
  <2>1. <<x>> \in Seq(Level)
    BY <1>8
  <2>2. q \in [Dbis -> Nat] \cup {<<>>}
    BY DEF TypeInv
  <2>3. T = [kind |-> kind, pc |-> "begin", seqs |-> q, levels |-> <<x>>, offered |-> held,
             opened |-> FALSE, overlap |-> T.overlap]
    BY <1>3, <1>5 DEF NoTxn
  <2>4. held \in SUBSET Pairs
    BY DEF TypeInv
  <2>5. PICK v : v = T.overlap
    OBVIOUS
  <2>6. v \in BOOLEAN /\ FALSE \in BOOLEAN
    BY <1>6, <2>5
  <2>7. T = [kind |-> kind, pc |-> "begin", seqs |-> q, levels |-> <<x>>, offered |-> held,
             opened |-> FALSE, overlap |-> v]
    BY <2>3, <2>5
  <2> QED BY <2>1, <2>2, <2>4, <2>6, <2>7 DEF Txn
<1>10. /\ N(T) = 1 /\ T.levels[1] = x /\ x.numdbs = 0 /\ \A s \in Dbis : x.flags[s] = {}
       /\ x.main = main /\ x.want = saved /\ x.mine = {} /\ 1..N(T) = {1}
  BY <1>1, <1>4 DEF N
<1>11. PICK g : g = Shared
  OBVIOUS
<1>12. /\ g.names = names /\ g.seqs = seqs /\ g.numdbs = numdbs /\ g.main = main /\ g.held = held
       /\ TableOK(g) /\ main = saved /\ g \in Tables
  BY <1>11, SharedType DEF Shared, TableInv
<1>13. \A s \in Dbis, f \in FlagNames : ~Has(x, f, s)
  BY <1>10 DEF Has
<1>14. Shape(T)
  BY <1>4, <1>10, <1>13 DEF Shape, FlagsOK, Has
<1>15. Unused(T, g)
  BY <1>10, <1>12 DEF Unused, Has, Tables
<1>16. MineOK(T, g) /\ OfferedOK(T, g) /\ SeesOK(T, g)
  BY <1>4, <1>10, <1>12 DEF MineOK, OfferedOK, SeesOK, Has
<1>17. ASSUME kind = "rw" PROVE RwOK(T, g)
  <2>1. T.seqs = seqs /\ seqs \in [Dbis -> Nat]
    BY <1>4, <1>17 DEF TypeInv
  <2>2. KnownOK(T, 1, g) /\ StaleOK(T, 1, g) /\ RecordsOK(T, 1, g)
    BY <1>10, <1>12, <1>13 DEF KnownOK, StaleOK, RecordsOK, Known, Has
  <2>3. OpenOK(T, 1, g)
    <3>1. \A s \in g.open : s \in Dbis /\ g.names[s] \in Names /\ main[g.names[s]] # Absent
      BY <1>12 DEF TableOK, Tables
    <3> QED BY <1>10, <1>12, <3>1 DEF OpenOK, Has
  <2>4. \A s \in Dbis : T.seqs[s] <= g.seqs[s]
    BY <1>12, <2>1
  <2> QED BY <1>4, <1>10, <1>12, <2>1, <2>2, <2>3, <2>4 DEF RwOK, LevelOK
<1>18. ASSUME kind = "ro" PROVE RoOK(T, g)
  BY <1>4, <1>10, <1>12 DEF RoOK, Known, Has
<1>19. TxnOK(T, g)
  BY <1>4, <1>14, <1>15, <1>16, <1>17, <1>18 DEF TxnOK
<1>20. \A s \in Dbis : ~NewIn(T, s)
  BY <1>10 DEF NewIn, Has
<1> QED BY <1>4, <1>6, <1>9, <1>10, <1>11, <1>19, <1>20

\* The flags are copied.
LEMMA FlagsRead ==
    ASSUME NEW g \in Tables, TableOK(g), NEW T \in Txn, TxnOK(T, g), T.pc = "begin", NEW x,
           x = [T.levels[1] EXCEPT !.numdbs = g.numdbs,
                   !.flags = [s \in Dbis |-> IF s <= g.numdbs /\ s \in g.open
                                             THEN {"VALID", "STALE"} ELSE {}]],
           NEW V, Same(V, T), V.levels = <<x>>, V.pc = "live", V.opened = T.opened
    PROVE  TxnOK(V, g) /\ N(V) = 1 /\ \A s \in Dbis : ~NewIn(V, s)
<1>1. Shape(T) /\ N(T) = 1 /\ 1 \in 1..N(T) /\ T.opened = FALSE
  BY TxnType DEF TxnOK, Shape
<1>2. PICK y \in Level : y = T.levels[1]
  BY <1>1, TxnType
<1>3. /\ N(V) = 1 /\ V.levels[1] = x /\ 1 \in 1..N(V)
      /\ \A i \in 1..N(V) : i = 1 /\ V.levels[i] = x
  <2>1. N(V) = 1 /\ V.levels[1] = x
    BY DEF N
  <2> QED BY <2>1
<1>4. /\ x.numdbs = g.numdbs /\ x.main = y.main /\ x.want = y.want /\ x.mine = y.mine
      /\ x.flags = [s \in Dbis |-> IF s <= g.numdbs /\ s \in g.open THEN {"VALID", "STALE"} ELSE {}]
  BY <1>2 DEF Level
<1>5. \A s \in Dbis : /\ Has(x, "VALID", s) <=> s \in g.open
                      /\ Has(x, "STALE", s) <=> s \in g.open
                      /\ ~Has(x, "NEW", s) /\ ~Has(x, "DIRTY", s)
  <2>1. \A s \in g.open : s <= g.numdbs
    BY DEF TableOK
  <2> QED BY <1>4, <2>1 DEF Has
<1>6. Shape(V)
  <2>1. FlagsOK(x)
    BY <1>4, <1>5 DEF FlagsOK, TableOK
  <2>2. x.numdbs <= x.numdbs
    BY <1>4 DEF Tables
  <2>3. \A i, j \in 1..N(V) : i <= j => V.levels[i].numdbs <= V.levels[j].numdbs
    BY <1>3, <2>2
  <2>4. \A i \in 1..N(V) : FlagsOK(V.levels[i])
    BY <1>3, <2>1
  <2> QED BY <1>3, <2>3, <2>4 DEF Shape
<1>7. y.mine = {}
  BY <1>1, <1>2 DEF TxnOK, Unused
<1>8. Unused(V, g) /\ MineOK(V, g)
  <2>1. g.numdbs <= g.numdbs
    BY DEF Tables
  <2> QED BY <1>3, <1>4, <1>5, <1>7, <2>1 DEF Unused, MineOK
<1>9. OfferedOK(V, g)
  <2>1. V.offered \subseteq g.held
    BY DEF Same, TxnOK, OfferedOK
  <2>2. \A h \in V.offered : h[1] \in g.open /\ h[1] \in Dbis
    BY <2>1 DEF TableOK, Tables
  <2> QED BY <1>3, <1>5, <2>1, <2>2 DEF OfferedOK
<1>10. SeesOK(V, g)
  <2>1. g.open \subseteq Dbis /\ g.numdbs <= g.numdbs
    BY DEF Tables
  <2> QED BY <1>3, <1>4, <1>5, <2>1 DEF SeesOK
<1>11. ASSUME V.kind = "rw" PROVE RwOK(V, g)
  <2>1. RwOK(T, g) /\ V.seqs = T.seqs
    BY <1>11 DEF TxnOK, Same
  <2>2. LevelOK(T, 1, g) /\ g.main = y.main /\ g.main = y.want
    BY <1>1, <1>2, <2>1 DEF RwOK
  <2>3. \A s \in g.open : /\ s \in Dbis /\ g.names[s] # NoName /\ g.names[s] \in Names
                          /\ g.main[g.names[s]] # Absent /\ V.seqs[s] = g.seqs[s]
    BY <2>1 DEF TableOK, Tables, RwOK
  <2>4. KnownOK(V, 1, g)
    BY <1>3, <1>5 DEF KnownOK, Known
  <2>5. StaleOK(V, 1, g)
    <3>1. \A s \in g.open : x.main[g.names[s]] = x.want[g.names[s]] /\ x.want[g.names[s]] # Absent
      BY <1>4, <2>2, <2>3
    <3> QED BY <1>3, <1>5, <2>3, <3>1 DEF StaleOK
  <2>6. RecordsOK(V, 1, g)
    BY <1>3, <1>4, <2>2 DEF RecordsOK
  <2>7. OpenOK(V, 1, g)
    BY <1>3, <1>4, <1>5, <2>2, <2>3, ZenonT(60) DEF OpenOK
  <2> QED BY <1>3, <2>1, <2>4, <2>5, <2>6, <2>7 DEF RwOK, LevelOK
<1>12. ASSUME V.kind = "ro" PROVE RoOK(V, g)
  <2>1. RoOK(T, g) /\ V.overlap = T.overlap
    BY <1>12 DEF TxnOK, Same
  <2>2. x.main = x.want /\ (~V.overlap => \A n \in Names : x.main[n] # Absent => g.main[n] # Absent)
    BY <1>2, <1>4, <2>1 DEF RoOK
  <2> QED BY <1>3, <1>5, <2>2 DEF RoOK, Known
<1>13. \A s \in Dbis : ~NewIn(V, s)
  BY <1>3, <1>5 DEF NewIn
<1> QED BY <1>3, <1>6, <1>8, <1>9, <1>10, <1>11, <1>12, <1>13 DEF TxnOK

\* A nested transaction begins.
LEMMA NestedOK ==
    ASSUME NEW g \in Tables, NEW T \in Txn, TxnOK(T, g), T.kind = "rw", T.pc = "live",
           NEW y, y = T.levels[N(T)],
           NEW x, x.numdbs = y.numdbs, x.dbs = y.dbs, x.main = y.main, x.want = y.want, x.mine = {},
           \A s \in Dbis : x.flags[s] = y.flags[s] \ {"NEW"},
           NEW V, Same(V, T), V.pc = T.pc, V.opened = T.opened, N(V) = N(T) + 1,
           V.levels[N(T) + 1] = x, \A i \in 1..N(T) : V.levels[i] = T.levels[i]
    PROVE  TxnOK(V, g) /\ \A s \in Dbis : NewIn(V, s) <=> NewIn(T, s)
<1>1. PICK n : n = N(T)
  OBVIOUS
<1>2. /\ n \in Nat /\ n >= 1 /\ N(V) = n + 1 /\ V.levels[n + 1] = x /\ y = T.levels[n]
      /\ \A i \in 1..n : V.levels[i] = T.levels[i]
  BY <1>1, TxnType DEF TxnOK, Shape
<1>3. \A i \in 1..N(V) : (i \in 1..n /\ V.levels[i] = T.levels[i]) \/ (i = n + 1 /\ V.levels[i] = x)
  BY <1>2
<1>4. y \in Level
  BY <1>1, <1>2, TxnType
<1>5. /\ x.numdbs = y.numdbs /\ x.dbs = y.dbs /\ x.main = y.main /\ x.want = y.want /\ x.mine = {}
  OBVIOUS
<1>6. \A s \in Dbis : /\ Has(x, "VALID", s) <=> Has(y, "VALID", s)
                      /\ Has(x, "STALE", s) <=> Has(y, "STALE", s)
                      /\ Has(x, "DIRTY", s) <=> Has(y, "DIRTY", s)
                      /\ ~Has(x, "NEW", s)
                      /\ Known(x, s) <=> Known(y, s)
  BY DEF Has, Known
<1>7. n \in 1..n /\ \A i \in 1..n : i <= n
  BY <1>2
<1>8. Shape(V)
  <2>1. \A i \in 1..n : FlagsOK(T.levels[i])
    BY <1>1 DEF TxnOK, Shape
  <2>2. FlagsOK(x)
    BY <1>2, <1>5, <1>6, <1>7, <2>1 DEF FlagsOK
  <2>3. \A i, j \in 1..n : i <= j => T.levels[i].numdbs <= T.levels[j].numdbs
    BY <1>1 DEF TxnOK, Shape
  <2>4. x.numdbs <= x.numdbs
    BY <1>4, <1>5, LevelType
  <2>5. ASSUME NEW i \in 1..N(V), NEW j \in 1..N(V), i <= j
        PROVE  V.levels[i].numdbs <= V.levels[j].numdbs
    <3>1. CASE i = n + 1
      <4>1. j = n + 1
        BY <1>2, <2>5, <3>1
      <4>2. V.levels[i] = x /\ V.levels[j] = x
        BY <1>2, <3>1, <4>1
      <4> QED BY <2>4, <4>2
    <3>2. CASE i \in 1..n /\ j = n + 1
      BY <1>2, <1>5, <1>7, <2>3, <3>2
    <3>3. CASE i \in 1..n /\ j \in 1..n
      BY <1>2, <2>3, <2>5, <3>3
    <3> QED BY <1>3, <3>1, <3>2, <3>3
  <2>6. \A i \in 1..N(V) : FlagsOK(V.levels[i])
    BY <1>3, <2>1, <2>2
  <2>7. N(V) >= 1
    BY <1>2
  <2> QED BY <2>5, <2>6, <2>7 DEF Shape
<1>9. Unused(V, g)
  <2> SUFFICES ASSUME ~V.opened, NEW i \in 1..N(V)
               PROVE  /\ V.levels[i].mine = {} /\ V.levels[i].numdbs <= g.numdbs
                      /\ \A s \in Dbis : ~Has(V.levels[i], "NEW", s)
    BY DEF Unused
  <2>1. \A j \in 1..n : /\ T.levels[j].mine = {} /\ T.levels[j].numdbs <= g.numdbs
                        /\ \A s \in Dbis : ~Has(T.levels[j], "NEW", s)
    BY <1>1 DEF TxnOK, Unused
  <2> QED BY <1>2, <1>3, <1>5, <1>6, <1>7, <2>1
<1>10. MineOK(V, g)
  <2> SUFFICES ASSUME NEW i \in 1..N(V), NEW h \in V.levels[i].mine
               PROVE  /\ g.names[h[1]] = h[2]
                      /\ h[1] \in g.open \/ NewBelow(V, i, h[1])
                      /\ \A j \in i..N(V) : Has(V.levels[j], "VALID", h[1])
    BY DEF MineOK
  <2>1. i \in 1..n /\ h \in T.levels[i].mine
    BY <1>3, <1>5
  <2>2. /\ g.names[h[1]] = h[2]
        /\ h[1] \in g.open \/ NewBelow(T, i, h[1])
        /\ \A j \in i..n : Has(T.levels[j], "VALID", h[1])
    BY <1>1, <2>1 DEF TxnOK, MineOK
  <2>3. h[1] \in Dbis
    BY <1>1, <2>1, TxnType, LevelType DEF Pairs
  <2>4. NewBelow(T, i, h[1]) => NewBelow(V, i, h[1])
    BY <1>2, <2>1 DEF NewBelow
  <2>5. Has(x, "VALID", h[1])
    <3>1. n \in i..n
      BY <1>2, <2>1
    <3>2. Has(y, "VALID", h[1])
      BY <1>2, <2>2, <3>1
    <3> QED BY <1>6, <2>3, <3>2
  <2>6. \A j \in i..N(V) : Has(V.levels[j], "VALID", h[1])
    <3>1. \A j \in i..N(V) : j \in 1..N(V) /\ (j # n + 1 => j \in i..n)
      BY <1>2, <2>1
    <3> QED BY <1>2, <1>3, <2>2, <2>5, <3>1
  <2> QED BY <2>2, <2>4, <2>6
<1>11. OfferedOK(V, g)
  <2>1. /\ T.offered \subseteq g.held /\ V.offered = T.offered
        /\ \A h \in T.offered : \A i \in 1..n : Has(T.levels[i], "VALID", h[1])
    BY <1>1 DEF TxnOK, OfferedOK, Same
  <2>2. \A h \in T.offered : h[1] \in Dbis
    BY TxnType DEF Pairs
  <2> QED BY <1>2, <1>3, <1>6, <1>7, <2>1, <2>2 DEF OfferedOK
<1>12. SeesOK(V, g)
  <2>1. /\ ~T.overlap => \A i \in 1..n :
              g.numdbs <= T.levels[i].numdbs /\ \A s \in g.open : Has(T.levels[i], "VALID", s)
        /\ \A i \in 1..n : \A s \in Dbis : Has(T.levels[i], "NEW", s) => s \notin g.open
        /\ V.overlap = T.overlap
    BY <1>1 DEF TxnOK, SeesOK, Same
  <2>2. g.open \subseteq Dbis
    BY DEF Tables
  <2>3. ~T.overlap => g.numdbs <= x.numdbs /\ \A s \in g.open : Has(x, "VALID", s)
    <3>1. ~T.overlap => g.numdbs <= y.numdbs /\ \A s \in g.open : Has(y, "VALID", s)
      BY <1>2, <1>7, <2>1
    <3> QED BY <1>5, <1>6, <2>2, <3>1
  <2> QED BY <1>3, <1>6, <2>1, <2>3 DEF SeesOK
<1>13. RwOK(V, g)
  <2>1. RwOK(T, g) /\ V.seqs = T.seqs
    BY DEF TxnOK, Same
  <2>2. ASSUME NEW i \in 1..n PROVE LevelOK(V, i, g)
    <3>1. LevelOK(T, i, g)
      BY <1>1, <2>1, <2>2 DEF RwOK
    <3>2. KnownOK(V, i, g)
      <4> SUFFICES ASSUME NEW s \in Dbis, Known(V.levels[i], s)
                   PROVE  /\ V.seqs[s] = g.seqs[s] /\ g.names[s] # NoName
                          /\ V.levels[i].dbs[s] = V.levels[i].want[g.names[s]]
                          /\ V.levels[i].want[g.names[s]] # Absent
                          /\ \A j \in (i + 1)..N(V) : Known(V.levels[j], s) /\ ~Has(V.levels[j], "NEW", s)
        BY DEF KnownOK
      <4>1. /\ T.seqs[s] = g.seqs[s] /\ g.names[s] # NoName
            /\ T.levels[i].dbs[s] = T.levels[i].want[g.names[s]]
            /\ T.levels[i].want[g.names[s]] # Absent
            /\ \A j \in (i + 1)..n : Known(T.levels[j], s) /\ ~Has(T.levels[j], "NEW", s)
        BY <1>1, <1>2, <2>2, <3>1 DEF LevelOK, KnownOK
      <4>2. Known(y, s)
        <5>1. i = n \/ n \in (i + 1)..n
          BY <1>2, <2>2
        <5> QED BY <1>2, <2>2, <4>1, <5>1
      <4>3. \A j \in (i + 1)..N(V) : j = n + 1 \/ (j \in (i + 1)..n /\ j \in 1..n)
        BY <1>2, <2>2
      <4>4. \A j \in (i + 1)..N(V) : Known(V.levels[j], s) /\ ~Has(V.levels[j], "NEW", s)
        BY <1>2, <1>6, <4>1, <4>2, <4>3
      <4> QED BY <1>2, <2>1, <2>2, <4>1, <4>4
    <3>3. StaleOK(V, i, g)
      <4>1. \A s \in Dbis : NewAbove(V, i, s) <=> NewAbove(T, i, s)
        <5>1. \A j \in (i + 1)..n : j \in (i + 1)..N(V) /\ j \in 1..n
          BY <1>2, <2>2
        <5>2. \A j \in (i + 1)..N(V) : j = n + 1 \/ (j \in (i + 1)..n /\ j \in 1..n)
          BY <1>2, <2>2
        <5>3. ASSUME NEW s \in Dbis PROVE NewAbove(V, i, s) <=> NewAbove(T, i, s)
          <6>1. ASSUME NEW j \in (i + 1)..n, Has(T.levels[j], "NEW", s) PROVE NewAbove(V, i, s)
            BY <1>2, <5>1, <6>1 DEF NewAbove
          <6>2. ASSUME NEW j \in (i + 1)..N(V), Has(V.levels[j], "NEW", s) PROVE NewAbove(T, i, s)
            BY <1>1, <1>2, <1>6, <5>2, <6>2 DEF NewAbove
          <6> QED BY <1>1, <6>1, <6>2 DEF NewAbove
        <5> QED BY <5>3
      <4> QED BY <1>2, <2>1, <2>2, <3>1, <4>1 DEF LevelOK, StaleOK
    <3>4. RecordsOK(V, i, g) /\ OpenOK(V, i, g)
      BY <1>2, <2>1, <2>2, <3>1 DEF LevelOK, RecordsOK, OpenOK
    <3> QED BY <3>2, <3>3, <3>4 DEF LevelOK
  <2>3. LevelOK(V, n + 1, g)
    <3>1. KnownOK(T, n, g) /\ StaleOK(T, n, g) /\ RecordsOK(T, n, g) /\ OpenOK(T, n, g)
      BY <1>1, <1>7, <2>1 DEF RwOK, LevelOK
    <3>2. V.levels[n + 1] = x /\ ((n + 1) + 1)..N(V) = {} /\ (n + 1)..n = {} /\ T.levels[n] = y
      BY <1>2
    <3>3. KnownOK(V, n + 1, g)
      <4>1. \A s \in Dbis : Known(y, s) =>
               /\ T.seqs[s] = g.seqs[s] /\ g.names[s] # NoName
               /\ y.dbs[s] = y.want[g.names[s]] /\ y.want[g.names[s]] # Absent
        BY <3>1, <3>2 DEF KnownOK
      <4>2. \A s \in Dbis : Known(x, s) =>
               /\ V.seqs[s] = g.seqs[s] /\ g.names[s] # NoName
               /\ x.dbs[s] = x.want[g.names[s]] /\ x.want[g.names[s]] # Absent
        BY <1>5, <1>6, <2>1, <4>1
      <4> QED BY <3>2, <4>2 DEF KnownOK
    <3>4. StaleOK(V, n + 1, g)
      <4>1. \A s \in Dbis : ~NewAbove(T, n, s)
        BY <1>1, <3>2 DEF NewAbove
      <4>2. \A s \in Dbis : Has(y, "VALID", s) /\ Has(y, "STALE", s) /\ T.seqs[s] = g.seqs[s] =>
               /\ g.names[s] # NoName /\ y.main[g.names[s]] = y.want[g.names[s]]
               /\ y.want[g.names[s]] # Absent
        BY <3>1, <3>2, <4>1 DEF StaleOK
      <4>3. \A s \in Dbis : Has(x, "VALID", s) /\ Has(x, "STALE", s) /\ V.seqs[s] = g.seqs[s] =>
               /\ g.names[s] # NoName /\ x.main[g.names[s]] = x.want[g.names[s]]
               /\ x.want[g.names[s]] # Absent
        BY <1>5, <1>6, <2>1, <4>2
      <4> QED BY <3>2, <4>3 DEF StaleOK
    <3>5. RecordsOK(V, n + 1, g)
      <4>1. \A m \in Names : y.main[m] = y.want[m] \/ \E s \in Dbis : Has(y, "DIRTY", s) /\ g.names[s] = m
        BY <3>1, <3>2 DEF RecordsOK
      <4>2. \A m \in Names : x.main[m] = x.want[m] \/ \E s \in Dbis : Has(x, "DIRTY", s) /\ g.names[s] = m
        BY <1>5, <1>6, <4>1
      <4> QED BY <3>2, <4>2 DEF RecordsOK
    <3>6. OpenOK(V, n + 1, g)
      <4>1. g.open \subseteq Dbis
        BY DEF Tables
      <4>2. \A s \in g.open : (Has(x, "VALID", s) => V.seqs[s] = g.seqs[s]) /\ x.want[g.names[s]] # Absent
        BY <1>5, <1>6, <2>1, <3>1, <3>2, <4>1 DEF OpenOK
      <4>3. ~V.opened => /\ \A s \in Dbis : Has(x, "VALID", s) => s \in g.open
                         /\ \A m \in Names : g.main[m] # Absent => x.want[m] # Absent
        BY <1>5, <1>6, <3>1, <3>2 DEF OpenOK
      <4> QED BY <3>2, <4>2, <4>3 DEF OpenOK
    <3> QED BY <3>3, <3>4, <3>5, <3>6 DEF LevelOK
  <2>4. \A i \in 1..N(V) : LevelOK(V, i, g)
    BY <1>3, <2>2, <2>3
  <2> QED BY <2>1, <2>4 DEF RwOK
<1>14. ASSUME NEW s \in Dbis PROVE NewIn(V, s) <=> NewIn(T, s)
  <2>1. \A i \in 1..n : i \in 1..N(V)
    BY <1>2
  <2> QED BY <1>1, <1>2, <1>3, <1>6, <2>1 DEF NewIn
<1>15. V.kind = "rw"
  BY DEF Same
<1> QED BY <1>8, <1>9, <1>10, <1>11, <1>12, <1>13, <1>14, <1>15 DEF TxnOK

\* The levels differ in nothing but the handles they have opened.
Alike(x, y) == /\ x.numdbs = y.numdbs /\ x.flags = y.flags /\ x.dbs = y.dbs /\ x.main = y.main
               /\ x.want = y.want

\* A transaction of which only the handles it has opened change.
LEMMA AlikeOK ==
    ASSUME NEW g, NEW T \in Txn, TxnOK(T, g), T.pc = "live",
           NEW V, Same(V, T), V.pc = T.pc, V.opened = TRUE, N(V) = N(T),
           \A i \in 1..N(T) : Alike(V.levels[i], T.levels[i]), MineOK(V, g)
    PROVE  TxnOK(V, g) /\ \A s \in Dbis : NewIn(V, s) <=> NewIn(T, s)
<1>1. \A i \in 1..N(T), s \in Dbis :
         /\ \A f \in FlagNames : Has(V.levels[i], f, s) <=> Has(T.levels[i], f, s)
         /\ Known(V.levels[i], s) <=> Known(T.levels[i], s)
  BY DEF Alike, Has, Known
<1>2. /\ V.kind = T.kind /\ V.seqs = T.seqs /\ V.offered = T.offered /\ V.overlap = T.overlap
  BY DEF Same
<1>3. Shape(V)
  <2>1. \A i \in 1..N(T) : FlagsOK(T.levels[i]) => FlagsOK(V.levels[i])
    BY <1>1 DEF FlagsOK, Alike, FlagNames
  <2>2. \A i, j \in 1..N(T) : i <= j => V.levels[i].numdbs <= V.levels[j].numdbs
    BY DEF TxnOK, Shape, Alike
  <2>3. N(T) >= 1 /\ \A i \in 1..N(T) : FlagsOK(T.levels[i])
    BY DEF TxnOK, Shape
  <2>4. \A i \in 1..N(V) : FlagsOK(V.levels[i])
    BY <2>1, <2>3
  <2> QED BY <2>2, <2>3, <2>4 DEF Shape
<1>4. Unused(V, g)
  BY DEF Unused
<1>5. OfferedOK(V, g)
  <2>1. \A i \in 1..N(T) : \A s : Has(V.levels[i], "VALID", s) <=> Has(T.levels[i], "VALID", s)
    BY DEF Alike, Has
  <2> QED BY <1>2, <2>1 DEF TxnOK, OfferedOK
<1>6. SeesOK(V, g)
  <2>1. SeesOK(T, g)
    BY DEF TxnOK
  <2>2. ASSUME NEW i \in 1..N(T)
        PROVE  V.levels[i].numdbs = T.levels[i].numdbs /\ V.levels[i].flags = T.levels[i].flags
    BY DEF Alike
  <2>3. ASSUME V.pc # "begin", ~V.overlap, NEW i \in 1..N(T)
        PROVE  g.numdbs <= V.levels[i].numdbs /\ \A s \in g.open : Has(V.levels[i], "VALID", s)
    <3>1. g.numdbs <= T.levels[i].numdbs /\ \A s \in g.open : Has(T.levels[i], "VALID", s)
      BY <1>2, <2>1, <2>3 DEF SeesOK
    <3> QED BY <2>2, <3>1 DEF Has
  <2>4. ASSUME NEW i \in 1..N(T), NEW s \in Dbis, Has(V.levels[i], "NEW", s) PROVE s \notin g.open
    <3>1. Has(T.levels[i], "NEW", s)
      BY <2>2, <2>4 DEF Has
    <3> QED BY <2>1, <3>1 DEF SeesOK
  <2> QED BY <2>3, <2>4 DEF SeesOK
<1>7. ASSUME T.kind = "rw" PROVE RwOK(V, g)
  <2>1. RwOK(T, g)
    BY <1>7 DEF TxnOK
  <2>2. ASSUME NEW i \in 1..N(T) PROVE LevelOK(V, i, g)
    <3>1. LevelOK(T, i, g) /\ Alike(V.levels[i], T.levels[i])
      BY <2>1, <2>2 DEF RwOK
    <3>2. N(T) \in Nat /\ \A j \in (i + 1)..N(T) : j \in 1..N(T)
      BY TxnType
    <3>3. KnownOK(V, i, g)
      <4> SUFFICES ASSUME NEW s \in Dbis, Known(V.levels[i], s)
                   PROVE  /\ V.seqs[s] = g.seqs[s] /\ g.names[s] # NoName
                          /\ V.levels[i].dbs[s] = V.levels[i].want[g.names[s]]
                          /\ V.levels[i].want[g.names[s]] # Absent
                          /\ \A j \in (i + 1)..N(V) : Known(V.levels[j], s) /\ ~Has(V.levels[j], "NEW", s)
        BY DEF KnownOK
      <4>1. /\ T.seqs[s] = g.seqs[s] /\ g.names[s] # NoName
            /\ T.levels[i].dbs[s] = T.levels[i].want[g.names[s]]
            /\ T.levels[i].want[g.names[s]] # Absent
            /\ \A j \in (i + 1)..N(T) : Known(T.levels[j], s) /\ ~Has(T.levels[j], "NEW", s)
        BY <1>1, <3>1 DEF LevelOK, KnownOK
      <4>2. \A j \in (i + 1)..N(V) : Known(V.levels[j], s) /\ ~Has(V.levels[j], "NEW", s)
        BY <1>1, <3>2, <4>1 DEF FlagNames
      <4> QED BY <1>2, <3>1, <4>1, <4>2 DEF Alike
    <3>4. StaleOK(V, i, g)
      <4>1. \A s \in Dbis : NewAbove(V, i, s) <=> NewAbove(T, i, s)
        BY <1>1, <3>2 DEF NewAbove, FlagNames
      <4>2. \A s \in Dbis : /\ Has(V.levels[i], "VALID", s) <=> Has(T.levels[i], "VALID", s)
                            /\ Has(V.levels[i], "STALE", s) <=> Has(T.levels[i], "STALE", s)
        BY <1>1 DEF FlagNames
      <4> QED BY <1>2, <3>1, <4>1, <4>2 DEF LevelOK, StaleOK, Alike
    <3>5. RecordsOK(V, i, g)
      BY <3>1 DEF LevelOK, RecordsOK, Alike, Has
    <3>6. OpenOK(V, i, g)
      BY <1>2, <3>1 DEF LevelOK, OpenOK, Alike, Has
    <3> QED BY <3>3, <3>4, <3>5, <3>6 DEF LevelOK
  <2> QED BY <1>2, <2>1, <2>2 DEF RwOK
<1>8. ASSUME T.kind = "ro" PROVE RoOK(V, g)
  <2>1. RoOK(T, g) /\ 1 \in 1..N(T)
    BY <1>8 DEF TxnOK, RoOK
  <2>2. Alike(V.levels[1], T.levels[1])
    BY <2>1
  <2> QED BY <1>2, <2>1, <2>2 DEF RoOK, Alike, Known, Has
<1>9. \A s \in Dbis : NewIn(V, s) <=> NewIn(T, s)
  BY <1>1 DEF NewIn, FlagNames
<1> QED BY <1>2, <1>3, <1>4, <1>5, <1>6, <1>7, <1>8, <1>9 DEF TxnOK

\* mdb_dbi_open of a database that is open.
LEMMA OpenedOK ==
    ASSUME NEW g \in Tables, NEW T \in Txn, TxnOK(T, g), T.pc = "live", ~T.overlap,
           NEW s \in Dbis, s \in g.open \/ NewIn(T, s),
           NEW y, y = T.levels[N(T)],
           NEW x, Alike(x, y), x.mine = y.mine \cup {<<s, g.names[s]>>},
           NEW V, Same(V, T), V.pc = T.pc, V.opened = TRUE, Topped(V, T, x)
    PROVE  TxnOK(V, g) /\ \A r \in Dbis : NewIn(V, r) <=> NewIn(T, r)
<1>1. PICK n : n = N(T)
  OBVIOUS
<1>2. n \in Nat /\ n >= 1 /\ n \in 1..n
  BY <1>1, TxnType DEF TxnOK, Shape
<1>3. N(V) = n /\ V.levels[n] = x /\ \A i \in 1..(n - 1) : V.levels[i] = T.levels[i]
  BY <1>1 DEF Topped
<1>4. \A i \in 1..n : (i = n /\ V.levels[i] = x) \/ (i # n /\ V.levels[i] = T.levels[i])
  BY <1>2, <1>3
<1>5. \A i \in 1..n : Alike(V.levels[i], T.levels[i])
  BY <1>1, <1>4 DEF Alike
<1>6. \A i \in 1..n : \A r, f : Has(V.levels[i], f, r) <=> Has(T.levels[i], f, r)
  BY <1>5 DEF Alike, Has
<1>7. Has(y, "VALID", s) /\ (s \in g.open \/ NewBelow(T, n, s))
  <2>1. CASE s \in g.open
    BY <1>1, <1>2, <2>1 DEF TxnOK, SeesOK
  <2>2. CASE NewIn(T, s)
    <3>1. PICK j \in 1..n : Has(T.levels[j], "NEW", s)
      BY <1>1, <2>2 DEF NewIn
    <3>2. Known(y, s)
      BY <1>1, <1>2, <3>1, NewKnown
    <3> QED BY <3>1, <3>2 DEF Known, NewBelow
  <2> QED BY <2>1, <2>2
<1>8. MineOK(V, g)
  <2> SUFFICES ASSUME NEW i \in 1..n, NEW h \in V.levels[i].mine
               PROVE  /\ g.names[h[1]] = h[2]
                      /\ h[1] \in g.open \/ NewBelow(V, i, h[1])
                      /\ \A j \in i..n : Has(V.levels[j], "VALID", h[1])
    BY <1>3 DEF MineOK
  <2>1. CASE h \in T.levels[i].mine
    <3>1. /\ g.names[h[1]] = h[2]
          /\ h[1] \in g.open \/ NewBelow(T, i, h[1])
          /\ \A j \in i..n : Has(T.levels[j], "VALID", h[1])
      BY <1>1, <2>1 DEF TxnOK, MineOK
    <3>2. \A j \in i..n : j \in 1..n
      BY <1>2
    <3>3. \A j \in 1..i : j \in 1..n
      BY <1>2
    <3>4. NewBelow(T, i, h[1]) => NewBelow(V, i, h[1])
      BY <1>6, <3>3 DEF NewBelow
    <3> QED BY <1>6, <3>1, <3>2, <3>4
  <2>2. CASE h \notin T.levels[i].mine
    <3>1. i = n /\ h = <<s, g.names[s]>>
      BY <1>1, <1>4, <2>2
    <3>2. h[1] = s /\ h[2] = g.names[s]
      BY <3>1
    <3>3. NewBelow(T, n, s) => NewBelow(V, n, s)
      BY <1>6 DEF NewBelow
    <3>4. \A j \in i..n : j = n
      BY <1>2, <3>1
    <3>5. Has(V.levels[n], "VALID", s)
      BY <1>1, <1>2, <1>6, <1>7
    <3> QED BY <1>7, <3>1, <3>2, <3>3, <3>4, <3>5
  <2> QED BY <2>1, <2>2
<1>9. N(V) = N(T) /\ \A i \in 1..N(T) : Alike(V.levels[i], T.levels[i])
  BY <1>1, <1>3, <1>5
<1> QED BY <1>8, <1>9, AlikeOK

\* A number gets a name.
Renamed(h, g, s, m) ==
    /\ h.open = g.open /\ h.numdbs = g.numdbs /\ h.main = g.main /\ h.held = g.held
    /\ h.names[s] = m /\ \A r \in Dbis \ {s} : h.names[r] = g.names[r] /\ h.seqs[r] = g.seqs[r]
    /\ g.seqs[s] <= h.seqs[s]

\* The level gets the record of the database, which is new if there is none.
NewRecord(x, y, s, m) ==
    /\ y.numdbs <= x.numdbs /\ s <= x.numdbs /\ Has(x, "NEW", s) /\ Known(x, s)
    /\ y.main[m] = Absent => Has(x, "DIRTY", s)
    /\ \A r \in Dbis \ {s} : x.flags[r] = y.flags[r] /\ x.dbs[r] = y.dbs[r]
    /\ x.dbs[s] = IF y.main[m] = Absent THEN 0 ELSE y.main[m]
    /\ x.main[m] = x.dbs[s] /\ x.want[m] = IF y.main[m] = Absent THEN 0 ELSE y.want[m]
    /\ \A a \in Names \ {m} : x.main[a] = y.main[a] /\ x.want[a] = y.want[a]
    /\ x.mine = y.mine \cup {<<s, m>>}

\* The transaction has the number's sequence number.
Renewed(V, T, h, s) ==
    /\ V.kind = T.kind /\ V.offered = T.offered /\ V.overlap = T.overlap /\ V.pc = T.pc
    /\ V.opened = TRUE
    /\ T.kind = "rw" => /\ V.seqs \in [Dbis -> Nat] /\ V.seqs[s] = h.seqs[s]
                        /\ \A r \in Dbis \ {s} : V.seqs[r] = T.seqs[r]

\* mdb_dbi_open of another database, named m: a number s that has no name gets it.
LEMMA NewlyOpenedOK ==
    ASSUME NEW g \in Tables, NEW h \in Tables, TableOK(g), NEW T \in Txn, TxnOK(T, g), T.pc = "live",
           ~T.overlap, NEW m \in Names, NEW s \in Dbis, g.names[s] = NoName,
           \A r \in Dbis : g.names[r] # m,
           Renamed(h, g, s, m),
           NEW y, y = T.levels[N(T)],
           T.kind = "ro" => y.main[m] # Absent,
           NEW x \in Level, NewRecord(x, y, s, m),
           T.kind = "ro" => x.main = y.main /\ x.want = y.want,
           NEW V \in Txn, Renewed(V, T, h, s), Topped(V, T, x)
    PROVE  TxnOK(V, h) /\ \A r \in Dbis : NewIn(V, r) <=> NewIn(T, r) \/ r = s
<1>a. PICK new \in BOOLEAN : (new <=> y.main[m] = Absent) /\ (T.kind = "ro" => ~new)
  OBVIOUS
<1>c. /\ h.open = g.open /\ h.numdbs = g.numdbs /\ h.main = g.main /\ h.held = g.held
      /\ h.names[s] = m /\ \A r \in Dbis \ {s} : h.names[r] = g.names[r] /\ h.seqs[r] = g.seqs[r]
      /\ g.seqs[s] <= h.seqs[s]
  BY DEF Renamed
<1>d. /\ y.numdbs <= x.numdbs /\ s <= x.numdbs /\ Has(x, "NEW", s) /\ Known(x, s)
      /\ new => Has(x, "DIRTY", s)
      /\ \A r \in Dbis \ {s} : x.flags[r] = y.flags[r] /\ x.dbs[r] = y.dbs[r]
  BY <1>a DEF NewRecord
<1>e. /\ x.dbs[s] = IF new THEN 0 ELSE y.main[m]
      /\ x.main[m] = x.dbs[s] /\ x.want[m] = IF new THEN 0 ELSE y.want[m]
      /\ \A a \in Names \ {m} : x.main[a] = y.main[a] /\ x.want[a] = y.want[a]
      /\ x.mine = y.mine \cup {<<s, m>>}
  BY <1>a DEF NewRecord
<1>b. /\ V.kind = T.kind /\ V.offered = T.offered /\ V.overlap = T.overlap /\ V.pc = T.pc
      /\ V.opened = TRUE
      /\ T.kind = "rw" => /\ V.seqs \in [Dbis -> Nat] /\ V.seqs[s] = h.seqs[s]
                          /\ \A r \in Dbis \ {s} : V.seqs[r] = T.seqs[r]
  BY DEF Renewed
<1>1. PICK n : n = N(T)
  OBVIOUS
<1>2. n \in Nat /\ n >= 1 /\ n \in 1..n
  BY <1>1, TxnType DEF TxnOK, Shape
<1>3. N(V) = n /\ V.levels[n] = x /\ T.levels[n] = y /\ \A i \in 1..(n - 1) : V.levels[i] = T.levels[i]
  BY <1>1 DEF Topped
<1>4. \A i \in 1..n : (i = n /\ V.levels[i] = x) \/ (i # n /\ V.levels[i] = T.levels[i])
  BY <1>2, <1>3
<1>5. s \notin g.open
  BY DEF TableOK
<1>6. ASSUME NEW i \in 1..n
      PROVE  ~Known(T.levels[i], s) /\ ~Has(T.levels[i], "NEW", s) /\ ~Has(T.levels[i], "DIRTY", s)
  <2>1. ~Known(T.levels[i], s)
    <3>1. CASE T.kind = "rw"
      BY <1>1, <3>1 DEF TxnOK, RwOK, LevelOK, KnownOK
    <3>2. CASE T.kind = "ro"
      <4>1. RoOK(T, g) /\ i = 1
        BY <1>1, <1>6, <3>2 DEF TxnOK, RoOK
      <4> QED BY <4>1 DEF RoOK
    <3> QED BY <3>1, <3>2, TxnType
  <2>2. FlagsOK(T.levels[i])
    BY <1>1 DEF TxnOK, Shape
  <2> QED BY <2>1, <2>2 DEF FlagsOK
<1>7. \A i \in 1..n, r \in Dbis \ {s} : \A f : Has(V.levels[i], f, r) <=> Has(T.levels[i], f, r)
  BY <1>d, <1>3, <1>4 DEF Has
<1>8. \A i \in 1..n, r \in Dbis \ {s} : Known(V.levels[i], r) <=> Known(T.levels[i], r)
  BY <1>7 DEF Known
<1>9. \A i \in 1..n, r \in Dbis : Known(T.levels[i], r) => r # s /\ Known(V.levels[i], r)
  BY <1>6, <1>8
<1>10. \A r \in Dbis : h.names[r] = m => r = s
  BY <1>c
<1>11. \A i \in 1..n, r \in Dbis : Has(T.levels[i], "NEW", r) => r # s /\ Has(V.levels[i], "NEW", r)
  BY <1>6, <1>7
<1>12. Shape(V)
  <2>1. FlagsOK(x)
    <3> SUFFICES ASSUME NEW r \in Dbis
                 PROVE  /\ Has(x, "VALID", r) => r <= x.numdbs
                        /\ Has(x, "NEW", r) \/ Has(x, "DIRTY", r) => Known(x, r)
      BY DEF FlagsOK
    <3>1. CASE r = s
      BY <1>d, <3>1
    <3>2. CASE r # s
      <4>1. FlagsOK(y)
        BY <1>1, <1>2 DEF TxnOK, Shape
      <4>2. \A f : Has(x, f, r) <=> Has(y, f, r)
        BY <1>d, <3>2 DEF Has
      <4>3. r \in Nat /\ y.numdbs \in Nat /\ x.numdbs \in Nat
        <5>1. y \in Level /\ MaxDbs \in Nat
          BY <1>1, <1>2, TxnType, DbiAssumption
        <5> QED BY <5>1, LevelType DEF Dbis
      <4>4. Has(x, "VALID", r) => r <= x.numdbs
        BY <1>d, <4>1, <4>2, <4>3 DEF FlagsOK
      <4> QED BY <4>1, <4>2, <4>4 DEF FlagsOK, Known
    <3> QED BY <3>1, <3>2
  <2>2. \A i \in 1..n : FlagsOK(V.levels[i])
    BY <1>1, <1>4, <2>1 DEF TxnOK, Shape
  <2>3. ASSUME NEW i \in 1..n, NEW j \in 1..n, i <= j PROVE V.levels[i].numdbs <= V.levels[j].numdbs
    <3>1. /\ \A k, l \in 1..n : k <= l => T.levels[k].numdbs <= T.levels[l].numdbs
          /\ \A k \in 1..n : T.levels[k].numdbs \in 0..MaxDbs
      BY <1>1, TxnType, LevelType DEF TxnOK, Shape
    <3>2. x.numdbs \in 0..MaxDbs /\ MaxDbs \in Nat
      BY LevelType, DbiAssumption
    <3>3. CASE i # n /\ j # n
      BY <1>4, <2>3, <3>1, <3>3
    <3>4. CASE i # n /\ j = n
      <4>1. V.levels[i].numdbs = T.levels[i].numdbs /\ V.levels[j].numdbs = x.numdbs
        BY <1>4, <3>4
      <4>2. T.levels[i].numdbs <= y.numdbs /\ y.numdbs \in 0..MaxDbs
        BY <1>2, <1>3, <2>3, <3>1, <3>4
      <4> QED BY <1>d, <3>1, <3>2, <4>1, <4>2
    <3>5. CASE i = n
      <4>1. j = n
        BY <1>2, <2>3, <3>5
      <4>2. V.levels[i] = x /\ V.levels[j] = x
        BY <1>3, <3>5, <4>1
      <4> QED BY <3>2, <4>2
    <3> QED BY <3>3, <3>4, <3>5
  <2> QED BY <1>b, <1>2, <1>3, <2>2, <2>3 DEF Shape
<1>13. Unused(V, h)
  BY <1>b DEF Unused
<1>14. MineOK(V, h)
  <2> SUFFICES ASSUME NEW i \in 1..n, NEW a \in V.levels[i].mine
               PROVE  /\ h.names[a[1]] = a[2]
                      /\ a[1] \in h.open \/ NewBelow(V, i, a[1])
                      /\ \A j \in i..n : Has(V.levels[j], "VALID", a[1])
    BY <1>3 DEF MineOK
  <2>1. CASE a \in T.levels[i].mine
    <3>1. /\ g.names[a[1]] = a[2]
          /\ a[1] \in g.open \/ NewBelow(T, i, a[1])
          /\ \A j \in i..n : Has(T.levels[j], "VALID", a[1])
      BY <1>1, <2>1 DEF TxnOK, MineOK
    <3>2. a[1] \in Dbis /\ a[2] \in Names
      BY <1>1, <2>1, TxnType, LevelType DEF Pairs
    <3>3. a[1] # s
      BY <3>1, <3>2, DbiAssumption
    <3>4. (\A j \in i..n : j \in 1..n) /\ (\A j \in 1..i : j \in 1..n)
      BY <1>2
    <3>5. NewBelow(T, i, a[1]) => NewBelow(V, i, a[1])
      BY <1>7, <3>2, <3>3, <3>4 DEF NewBelow
    <3> QED BY <1>c, <1>7, <3>1, <3>2, <3>3, <3>4, <3>5
  <2>2. CASE a \notin T.levels[i].mine
    <3>1. i = n /\ a = <<s, m>>
      BY <1>e, <1>3, <1>4, <2>2
    <3>2. a[1] = s /\ a[2] = m
      BY <3>1
    <3>3. NewBelow(V, i, s)
      BY <1>d, <1>2, <1>3, <3>1 DEF NewBelow
    <3>4. \A j \in i..n : j = n
      BY <1>2, <3>1
    <3> QED BY <1>c, <1>d, <1>3, <3>2, <3>3, <3>4 DEF Known
  <2> QED BY <2>1, <2>2
<1>15. OfferedOK(V, h)
  <2>1. T.offered \subseteq g.held /\ \A a \in T.offered : \A i \in 1..n : Has(T.levels[i], "VALID", a[1])
    BY <1>1 DEF TxnOK, OfferedOK
  <2>2. \A a \in T.offered : a[1] \in g.open /\ a[1] \in Dbis
    BY <2>1 DEF TableOK, Tables
  <2>3. \A a \in T.offered : a[1] # s
    BY <1>5, <2>2
  <2>4. \A a \in T.offered, i \in 1..n : Has(V.levels[i], "VALID", a[1])
    <3> TAKE a \in T.offered, i \in 1..n
    <3>1. a[1] \in Dbis \ {s} /\ Has(T.levels[i], "VALID", a[1])
      BY <2>1, <2>2, <2>3
    <3> QED BY <1>7, <3>1
  <2>5. V.offered \subseteq h.held
    BY <1>b, <1>c, <2>1
  <2> QED BY <1>b, <1>3, <2>4, <2>5 DEF OfferedOK
<1>16. SeesOK(V, h)
  <2>1. \A i \in 1..n : /\ g.numdbs <= T.levels[i].numdbs
                        /\ \A r \in g.open : Has(T.levels[i], "VALID", r)
                        /\ \A r \in Dbis : Has(T.levels[i], "NEW", r) => r \notin g.open
    BY <1>1 DEF TxnOK, SeesOK
  <2>2. g.open \subseteq Dbis \ {s}
    BY <1>5 DEF Tables
  <2>3. g.numdbs <= x.numdbs
    <3>1. g.numdbs <= y.numdbs
      BY <1>2, <1>3, <2>1
    <3>2. y \in Level
      BY <1>1, <1>2, TxnType
    <3>3. y.numdbs \in 0..MaxDbs /\ x.numdbs \in 0..MaxDbs /\ g.numdbs \in 0..MaxDbs /\ MaxDbs \in Nat
      BY <3>2, LevelType, DbiAssumption DEF Tables
    <3> QED BY <1>d, <3>1, <3>3
  <2>4. \A i \in 1..n : /\ g.numdbs <= V.levels[i].numdbs
                        /\ \A r \in g.open : Has(V.levels[i], "VALID", r)
    BY <1>4, <1>7, <2>1, <2>2, <2>3
  <2>5. \A i \in 1..n : \A r \in Dbis : Has(V.levels[i], "NEW", r) => r \notin g.open
    BY <1>5, <1>7, <2>1
  <2> QED BY <1>c, <1>3, <2>4, <2>5 DEF SeesOK
<1>17. new \/ (y.main[m] = y.want[m] /\ y.main[m] # Absent)
  <2> SUFFICES ASSUME ~new PROVE y.main[m] = y.want[m]
    BY <1>a
  <2>1. CASE T.kind = "rw"
    BY <1>1, <1>2, <1>3, <2>1 DEF TxnOK, RwOK, LevelOK, RecordsOK
  <2>2. CASE T.kind = "ro"
    <3>1. RoOK(T, g) /\ n = 1
      BY <1>1, <2>2 DEF TxnOK, RoOK
    <3> QED BY <1>3, <3>1 DEF RoOK
  <2> QED BY <2>1, <2>2, TxnType
<1>18. x.dbs[s] = x.want[m] /\ x.main[m] = x.want[m] /\ x.want[m] # Absent
  BY <1>e, <1>17, DbiAssumption
<1>19. ASSUME NEW i \in 1..n, NEW a \in Names, a # m
       PROVE  V.levels[i].main[a] = T.levels[i].main[a] /\ V.levels[i].want[a] = T.levels[i].want[a]
  BY <1>e, <1>3, <1>4, <1>19
<1>20. ASSUME NEW i \in 1..n, NEW r \in Dbis, r # s
       PROVE  V.levels[i].dbs[r] = T.levels[i].dbs[r] /\ h.names[r] = g.names[r] /\ h.names[r] # m
  BY <1>c, <1>d, <1>3, <1>4, <1>20
<1>21. \A r \in Dbis : g.names[r] \in Names \cup {NoName}
  BY DEF Tables
<1>22. ASSUME V.kind = "rw" PROVE RwOK(V, h)
  <2>1. RwOK(T, g) /\ V.seqs \in [Dbis -> Nat]
    BY <1>b, <1>22 DEF TxnOK
  <2>2. \A r \in Dbis : V.seqs[r] <= h.seqs[r]
    <3>1. h.seqs[s] <= h.seqs[s]
      BY DEF Tables
    <3> QED BY <1>b, <1>c, <1>22, <2>1, <3>1 DEF RwOK
  <2>3. ASSUME NEW i \in 1..n PROVE LevelOK(V, i, h)
    <3>1. KnownOK(T, i, g) /\ StaleOK(T, i, g) /\ RecordsOK(T, i, g) /\ OpenOK(T, i, g)
      BY <1>1, <2>1, <2>3 DEF RwOK, LevelOK
    <3>2. KnownOK(V, i, h)
      <4> SUFFICES ASSUME NEW r \in Dbis, Known(V.levels[i], r)
                   PROVE  /\ V.seqs[r] = h.seqs[r] /\ h.names[r] # NoName
                          /\ V.levels[i].dbs[r] = V.levels[i].want[h.names[r]]
                          /\ V.levels[i].want[h.names[r]] # Absent
                          /\ \A j \in (i + 1)..n : Known(V.levels[j], r) /\ ~Has(V.levels[j], "NEW", r)
        BY <1>3 DEF KnownOK
      <4>1. CASE r = s
        <5>1. i = n
          BY <1>4, <1>6, <4>1
        <5>2. (i + 1)..n = {}
          BY <1>2, <5>1
        <5>3. V.levels[i] = x /\ h.names[r] = m /\ m # NoName
          BY <1>c, <1>3, <4>1, <5>1, DbiAssumption
        <5> QED BY <1>b, <1>18, <1>22, <4>1, <5>2, <5>3
      <4>2. CASE r # s
        <5>1. /\ T.seqs[r] = g.seqs[r] /\ g.names[r] # NoName
              /\ T.levels[i].dbs[r] = T.levels[i].want[g.names[r]]
              /\ T.levels[i].want[g.names[r]] # Absent
              /\ \A j \in (i + 1)..n : Known(T.levels[j], r) /\ ~Has(T.levels[j], "NEW", r)
          BY <1>1, <1>8, <3>1, <4>2 DEF KnownOK
        <5>2. g.names[r] \in Names /\ h.names[r] = g.names[r] /\ g.names[r] # m
          BY <1>20, <1>21, <4>2, <5>1
        <5>3. /\ V.levels[i].dbs[r] = T.levels[i].dbs[r]
              /\ V.levels[i].want[g.names[r]] = T.levels[i].want[g.names[r]]
          BY <1>19, <1>20, <4>2, <5>2
        <5>4. \A j \in (i + 1)..n : j \in 1..n
          BY <1>2, <2>3
        <5>5. \A j \in (i + 1)..n : Known(V.levels[j], r) /\ ~Has(V.levels[j], "NEW", r)
          BY <1>7, <1>8, <4>2, <5>1, <5>4
        <5> QED BY <1>b, <1>c, <1>22, <4>2, <5>1, <5>2, <5>3, <5>5
      <4> QED BY <4>1, <4>2
    <3>3. StaleOK(V, i, h)
      <4> SUFFICES ASSUME NEW r \in Dbis, Has(V.levels[i], "VALID", r), Has(V.levels[i], "STALE", r),
                          V.seqs[r] = h.seqs[r], ~NewAbove(V, i, r)
                   PROVE  /\ h.names[r] # NoName
                          /\ V.levels[i].main[h.names[r]] = V.levels[i].want[h.names[r]]
                          /\ V.levels[i].want[h.names[r]] # Absent
        BY DEF StaleOK
      <4>1. r # s
        <5> SUFFICES ASSUME r = s PROVE FALSE
          OBVIOUS
        <5>1. i # n
          BY <1>d, <1>3 DEF Known
        <5>2. n \in (i + 1)..n
          BY <1>2, <2>3, <5>1
        <5> QED BY <1>d, <1>3, <5>2 DEF NewAbove
      <4>2. Has(T.levels[i], "VALID", r) /\ Has(T.levels[i], "STALE", r) /\ T.seqs[r] = g.seqs[r]
        BY <1>b, <1>c, <1>7, <1>22, <4>1
      <4>3. ~NewAbove(T, i, r)
        <5>1. \A j \in (i + 1)..n : j \in 1..n
          BY <1>2, <2>3
        <5> QED BY <1>1, <1>3, <1>7, <4>1, <5>1 DEF NewAbove
      <4>4. /\ g.names[r] # NoName
            /\ T.levels[i].main[g.names[r]] = T.levels[i].want[g.names[r]]
            /\ T.levels[i].want[g.names[r]] # Absent
        BY <3>1, <4>2, <4>3 DEF StaleOK
      <4>5. g.names[r] \in Names /\ h.names[r] = g.names[r] /\ g.names[r] # m
        BY <1>20, <1>21, <4>1, <4>4
      <4>6. /\ V.levels[i].main[g.names[r]] = T.levels[i].main[g.names[r]]
            /\ V.levels[i].want[g.names[r]] = T.levels[i].want[g.names[r]]
        BY <1>19, <4>5
      <4> QED BY <4>4, <4>5, <4>6
    <3>4. RecordsOK(V, i, h)
      <4> SUFFICES ASSUME NEW a \in Names, V.levels[i].main[a] # V.levels[i].want[a]
                   PROVE  \E r \in Dbis : Has(V.levels[i], "DIRTY", r) /\ h.names[r] = a
        BY DEF RecordsOK
      <4>1. \E r \in Dbis : Has(T.levels[i], "DIRTY", r) /\ g.names[r] = a
        <5>1. CASE a # m
          BY <1>19, <3>1, <5>1 DEF RecordsOK
        <5>2. CASE a = m
          <6>1. i # n
            BY <1>3, <1>18, <5>2
          <6>2. V.levels[i] = T.levels[i]
            BY <1>4, <6>1
          <6> QED BY <3>1, <6>2 DEF RecordsOK
        <5> QED BY <5>1, <5>2
      <4>2. PICK r \in Dbis : Has(T.levels[i], "DIRTY", r) /\ g.names[r] = a
        BY <4>1
      <4>3. r # s
        BY <1>6, <4>2
      <4> QED BY <1>7, <1>20, <4>2, <4>3
    <3>5. OpenOK(V, i, h)
      <4> SUFFICES ASSUME NEW r \in g.open
                   PROVE  /\ Has(V.levels[i], "VALID", r) => V.seqs[r] = h.seqs[r]
                          /\ V.levels[i].want[h.names[r]] # Absent
        BY <1>b, <1>c DEF OpenOK
      <4>1. r \in Dbis /\ r # s
        BY <1>5 DEF Tables
      <4>2. /\ Has(T.levels[i], "VALID", r) => T.seqs[r] = g.seqs[r]
            /\ T.levels[i].want[g.names[r]] # Absent
        BY <3>1 DEF OpenOK
      <4>3. h.names[r] = g.names[r] /\ g.names[r] # m /\ g.names[r] \in Names
        BY <1>20, <1>21, <4>1 DEF TableOK
      <4>4. V.levels[i].want[g.names[r]] = T.levels[i].want[g.names[r]]
        BY <1>19, <4>3
      <4>5. Has(V.levels[i], "VALID", r) => Has(T.levels[i], "VALID", r)
        BY <1>7, <4>1
      <4>6. V.seqs[r] = T.seqs[r] /\ h.seqs[r] = g.seqs[r]
        BY <1>b, <1>c, <1>22, <4>1
      <4> QED BY <4>2, <4>3, <4>4, <4>5, <4>6
    <3> QED BY <3>2, <3>3, <3>4, <3>5 DEF LevelOK
  <2> QED BY <1>b, <1>3, <2>1, <2>2, <2>3 DEF RwOK
<1>23. ASSUME V.kind = "ro" PROVE RoOK(V, h)
  <2>1. RoOK(T, g) /\ n = 1 /\ V.levels[1] = x /\ T.levels[1] = y
    BY <1>b, <1>1, <1>3, <1>23 DEF TxnOK, RoOK
  <2>2. ~new /\ x.main = y.main /\ x.want = y.want /\ y.main = y.want /\ m \in Names
    BY <1>a, <1>b, <1>23, <2>1 DEF RoOK
  <2>3. \A a \in Names : x.main[a] # Absent => g.main[a] # Absent
    BY <2>1, <2>2 DEF RoOK
  <2>4. \A r \in Dbis : Known(x, r) => /\ h.names[r] # NoName /\ x.dbs[r] = x.want[h.names[r]] /\ x.dbs[r] # Absent
                                       /\ r \in h.open \/ Has(x, "NEW", r)
    <3> SUFFICES ASSUME NEW r \in Dbis, Known(x, r)
                 PROVE  /\ h.names[r] # NoName /\ x.dbs[r] = x.want[h.names[r]] /\ x.dbs[r] # Absent
                        /\ r \in h.open \/ Has(x, "NEW", r)
      OBVIOUS
    <3>1. CASE r = s
      BY <1>c, <1>d, <1>18, <3>1, DbiAssumption
    <3>2. CASE r # s
      <4>1. Known(y, r)
        BY <1>2, <1>3, <1>8, <3>2
      <4>2. g.names[r] # NoName /\ y.dbs[r] = y.want[g.names[r]] /\ y.dbs[r] # Absent /\ (r \in g.open \/ Has(y, "NEW", r))
        BY <2>1, <4>1 DEF RoOK
      <4>3. Has(y, "NEW", r) => Has(x, "NEW", r)
        BY <1>d, <3>2 DEF Has
      <4> QED BY <1>c, <1>d, <2>2, <3>2, <4>2, <4>3
    <3> QED BY <3>1, <3>2
  <2>5. \A r \in Dbis : Has(x, "NEW", r) => g.main[h.names[r]] # Absent
    <3> SUFFICES ASSUME NEW r \in Dbis, Has(x, "NEW", r) PROVE g.main[h.names[r]] # Absent
      OBVIOUS
    <3>1. CASE r = s
      BY <1>c, <1>18, <2>2, <2>3, <3>1
    <3>2. CASE r # s
      <4>1. Has(y, "NEW", r)
        BY <1>d, <3>2 DEF Has
      <4> QED BY <1>c, <2>1, <3>2, <4>1 DEF RoOK
    <3> QED BY <3>1, <3>2
  <2>6. V.pc # "written"
    BY <1>b
  <2> QED BY <1>c, <1>3, <2>1, <2>2, <2>3, <2>4, <2>5, <2>6 DEF RoOK
<1>24. ASSUME NEW r \in Dbis PROVE NewIn(V, r) <=> NewIn(T, r) \/ r = s
  <2>1. CASE r = s
    BY <1>d, <1>2, <1>3, <2>1 DEF NewIn
  <2>2. CASE r # s
    <3>1. \A i \in 1..n : Has(V.levels[i], "NEW", r) <=> Has(T.levels[i], "NEW", r)
      BY <1>7, <2>2
    <3>2. NewIn(V, r) <=> NewIn(T, r)
      BY <1>1, <1>3, <3>1 DEF NewIn
    <3> QED BY <2>2, <3>2
  <2> QED BY <2>1, <2>2
<1> QED BY <1>12, <1>13, <1>14, <1>15, <1>16, <1>22, <1>23, <1>24 DEF TxnOK

\* A nested transaction aborts: the numbers S it has opened are closed.
LEMMA PoppedOK ==
    ASSUME NEW g \in Tables, NEW h \in Tables, NEW T \in Txn, TxnOK(T, g), T.kind = "rw", T.pc = "live",
           NEW n, n = N(T), n # 1, NEW S, S = {r \in Dbis : Has(T.levels[n], "NEW", r)},
           h.open = g.open, h.numdbs = g.numdbs, h.main = g.main, h.held = g.held,
           \A r \in S : g.seqs[r] < h.seqs[r],
           \A r \in Dbis \ S : h.names[r] = g.names[r] /\ h.seqs[r] = g.seqs[r],
           NEW V, Same(V, T), V.pc = T.pc, V.opened = T.opened, N(V) = n - 1,
           \A i \in 1..(n - 1) : V.levels[i] = T.levels[i]
    PROVE  /\ TxnOK(V, h)
           /\ \A r \in Dbis : /\ NewIn(V, r) => NewIn(T, r)
                              /\ NewIn(T, r) /\ r \notin S => NewIn(V, r)
<1>1. PICK k : k = n - 1
  OBVIOUS
<1>2. n \in Nat /\ k \in Nat /\ k >= 1 /\ n = k + 1 /\ N(V) = k /\ \A i \in 1..k : i \in 1..n /\ i < n
  BY <1>1, TxnType DEF TxnOK, Shape
<1>3. \A i \in 1..k : V.levels[i] = T.levels[i]
  BY <1>1
<1>4. n \in 1..n
  BY <1>2
<1>5. ASSUME NEW i \in 1..k, NEW r \in Dbis, Known(T.levels[i], r) PROVE r \notin S
  <2>1. KnownOK(T, i, g)
    BY <1>2 DEF TxnOK, RwOK, LevelOK
  <2>2. n \in (i + 1)..n
    BY <1>2
  <2> QED BY <1>5, <2>1, <2>2 DEF KnownOK
<1>6. ASSUME NEW i \in 1..k, NEW r \in Dbis, Has(T.levels[i], "NEW", r) \/ Has(T.levels[i], "DIRTY", r)
      PROVE  r \notin S
  <2>1. FlagsOK(T.levels[i])
    BY <1>2 DEF TxnOK, Shape
  <2> QED BY <1>5, <1>6, <2>1 DEF FlagsOK
<1>7. \A r \in S : r \notin g.open
  BY <1>4 DEF TxnOK, SeesOK
<1>8. /\ V.kind = T.kind /\ V.seqs = T.seqs /\ V.offered = T.offered /\ V.overlap = T.overlap
  BY DEF Same
<1>9. Shape(V)
  <2>1. \A i \in 1..k : FlagsOK(V.levels[i])
    BY <1>2, <1>3 DEF TxnOK, Shape
  <2>2. \A i, j \in 1..k : i <= j => V.levels[i].numdbs <= V.levels[j].numdbs
    BY <1>2, <1>3 DEF TxnOK, Shape
  <2> QED BY <1>2, <2>1, <2>2 DEF Shape
<1>10. Unused(V, h)
  BY <1>2, <1>3 DEF TxnOK, Unused
<1>11. MineOK(V, h)
  <2> SUFFICES ASSUME NEW i \in 1..k, NEW a \in V.levels[i].mine
               PROVE  /\ h.names[a[1]] = a[2]
                      /\ a[1] \in h.open \/ NewBelow(V, i, a[1])
                      /\ \A j \in i..k : Has(V.levels[j], "VALID", a[1])
    BY <1>2 DEF MineOK
  <2>1. a \in T.levels[i].mine /\ i \in 1..n
    BY <1>2, <1>3
  <2>2. /\ g.names[a[1]] = a[2]
        /\ a[1] \in g.open \/ NewBelow(T, i, a[1])
        /\ \A j \in i..n : Has(T.levels[j], "VALID", a[1])
    BY <2>1 DEF TxnOK, MineOK
  <2>3. a[1] \in Dbis
    BY <2>1, TxnType, LevelType DEF Pairs
  <2>4. (\A j \in 1..i : j \in 1..k) /\ (\A j \in i..k : j \in i..n /\ j \in 1..k)
    BY <1>2
  <2>5. a[1] \notin S
    BY <1>6, <1>7, <2>2, <2>3, <2>4 DEF NewBelow
  <2>6. NewBelow(T, i, a[1]) => NewBelow(V, i, a[1])
    BY <1>3, <2>4 DEF NewBelow
  <2> QED BY <1>3, <2>2, <2>3, <2>4, <2>5, <2>6
<1>12. OfferedOK(V, h)
  BY <1>2, <1>3, <1>8 DEF TxnOK, OfferedOK
<1>13. SeesOK(V, h)
  BY <1>2, <1>3, <1>8 DEF TxnOK, SeesOK
<1>14. RwOK(V, h)
  <2>1. RwOK(T, g)
    BY DEF TxnOK
  <2>2. \A r \in Dbis : V.seqs[r] <= h.seqs[r]
    <3> TAKE r \in Dbis
    <3>1. T.seqs[r] <= g.seqs[r] /\ T.seqs[r] \in Nat /\ g.seqs[r] \in Nat /\ h.seqs[r] \in Nat
      BY <2>1 DEF RwOK, Tables
    <3>2. CASE r \in S
      BY <1>8, <3>1, <3>2
    <3>3. CASE r \notin S
      BY <1>8, <3>1, <3>3
    <3> QED BY <3>2, <3>3
  <2>3. \A r \in S : T.seqs[r] # h.seqs[r]
    <3> TAKE r \in S
    <3>1. r \in Dbis
      OBVIOUS
    <3>2. T.seqs[r] <= g.seqs[r] /\ T.seqs[r] \in Nat /\ g.seqs[r] \in Nat /\ h.seqs[r] \in Nat
      BY <2>1, <3>1 DEF RwOK, Tables
    <3> QED BY <3>2
  <2>4. ASSUME NEW i \in 1..k PROVE LevelOK(V, i, h)
    <3>1. KnownOK(T, i, g) /\ StaleOK(T, i, g) /\ RecordsOK(T, i, g) /\ OpenOK(T, i, g)
      BY <1>2, <2>1 DEF RwOK, LevelOK
    <3>2. \A j \in (i + 1)..k : j \in (i + 1)..n /\ j \in 1..k
      BY <1>2
    <3>3. KnownOK(V, i, h)
      <4> SUFFICES ASSUME NEW r \in Dbis, Known(T.levels[i], r)
                   PROVE  /\ V.seqs[r] = h.seqs[r] /\ h.names[r] # NoName
                          /\ T.levels[i].dbs[r] = T.levels[i].want[h.names[r]]
                          /\ T.levels[i].want[h.names[r]] # Absent
                          /\ \A j \in (i + 1)..k : Known(V.levels[j], r) /\ ~Has(V.levels[j], "NEW", r)
        BY <1>2, <1>3 DEF KnownOK
      <4>1. /\ T.seqs[r] = g.seqs[r] /\ g.names[r] # NoName
            /\ T.levels[i].dbs[r] = T.levels[i].want[g.names[r]]
            /\ T.levels[i].want[g.names[r]] # Absent
            /\ \A j \in (i + 1)..n : Known(T.levels[j], r) /\ ~Has(T.levels[j], "NEW", r)
        BY <3>1 DEF KnownOK
      <4>2. r \notin S
        BY <1>5
      <4>3. h.names[r] = g.names[r] /\ h.seqs[r] = g.seqs[r]
        BY <4>2
      <4>4. \A j \in (i + 1)..k : Known(V.levels[j], r) /\ ~Has(V.levels[j], "NEW", r)
        BY <1>3, <3>2, <4>1
      <4> QED BY <1>8, <4>1, <4>3, <4>4
    <3>4. StaleOK(V, i, h)
      <4> SUFFICES ASSUME NEW r \in Dbis, Has(T.levels[i], "VALID", r), Has(T.levels[i], "STALE", r),
                          T.seqs[r] = h.seqs[r], ~NewAbove(V, i, r)
                   PROVE  /\ h.names[r] # NoName
                          /\ T.levels[i].main[h.names[r]] = T.levels[i].want[h.names[r]]
                          /\ T.levels[i].want[h.names[r]] # Absent
        BY <1>3, <1>8 DEF StaleOK
      <4>1. r \notin S
        BY <2>3
      <4>2. h.names[r] = g.names[r] /\ h.seqs[r] = g.seqs[r] /\ ~Has(T.levels[n], "NEW", r)
        BY <4>1
      <4>3. ~NewAbove(T, i, r)
        <5>1. \A j \in (i + 1)..n : j = n \/ (j \in (i + 1)..k /\ j \in 1..k)
          BY <1>2
        <5> QED BY <1>2, <1>3, <4>2, <5>1 DEF NewAbove
      <4> QED BY <3>1, <4>2, <4>3 DEF StaleOK
    <3>5. RecordsOK(V, i, h)
      <4> SUFFICES ASSUME NEW a \in Names, T.levels[i].main[a] # T.levels[i].want[a]
                   PROVE  \E r \in Dbis : Has(T.levels[i], "DIRTY", r) /\ h.names[r] = a
        BY <1>3 DEF RecordsOK
      <4>1. PICK r \in Dbis : Has(T.levels[i], "DIRTY", r) /\ g.names[r] = a
        BY <3>1 DEF RecordsOK
      <4>2. r \notin S
        BY <1>6, <4>1
      <4> QED BY <4>1, <4>2
    <3>6. OpenOK(V, i, h)
      <4>1. \A r \in g.open : r \in Dbis \ S
        BY <1>7 DEF Tables
      <4>2. \A r \in g.open : h.names[r] = g.names[r] /\ h.seqs[r] = g.seqs[r]
        BY <4>1
      <4> QED BY <1>3, <1>8, <3>1, <4>2 DEF OpenOK
    <3> QED BY <3>3, <3>4, <3>5, <3>6 DEF LevelOK
  <2> QED BY <1>2, <1>8, <2>1, <2>2, <2>4 DEF RwOK
<1>15. ASSUME NEW r \in Dbis, NewIn(V, r) PROVE NewIn(T, r)
  BY <1>2, <1>3, <1>15 DEF NewIn
<1>16. ASSUME NEW r \in Dbis, NewIn(T, r), r \notin S PROVE NewIn(V, r)
  <2>1. PICK i \in 1..n : Has(T.levels[i], "NEW", r)
    BY <1>16 DEF NewIn
  <2>2. i # n
    BY <1>16, <2>1
  <2>3. i \in 1..k
    BY <1>2, <2>2
  <2> QED BY <1>2, <1>3, <2>1, <2>3 DEF NewIn
<1> QED BY <1>8, <1>9, <1>10, <1>11, <1>12, <1>13, <1>14, <1>15, <1>16 DEF TxnOK

\* The level z stands for its parent p and the child x, and ends the transaction.
Merged(z, x, p) ==
    /\ z.numdbs = x.numdbs /\ z.dbs = x.dbs /\ z.main = x.main /\ z.want = x.want
    /\ z.mine = p.mine \cup x.mine
    /\ \A r \in Dbis : z.flags[r] = IF r <= x.numdbs THEN x.flags[r] \cup (p.flags[r] \cap {"NEW"})
                                      ELSE p.flags[r]
Lowered(V, T, z) ==
    /\ N(V) = N(T) - 1 /\ V.levels[N(T) - 1] = z
    /\ \A i \in 1..(N(T) - 2) : V.levels[i] = T.levels[i]

\* A nested transaction commits into its parent.
LEMMA MergedOK ==
    ASSUME NEW g \in Tables, NEW T \in Txn, TxnOK(T, g), T.kind = "rw", T.pc = "live",
           NEW n, n = N(T), n # 1, NEW x, x = T.levels[n], NEW p, p = T.levels[n - 1],
           NEW z \in Level, Merged(z, x, p),
           NEW V, Same(V, T), V.pc = T.pc, V.opened = T.opened, Lowered(V, T, z)
    PROVE  TxnOK(V, g) /\ \A r \in Dbis : NewIn(V, r) <=> NewIn(T, r)
<1>a. /\ z.numdbs = x.numdbs /\ z.dbs = x.dbs /\ z.main = x.main /\ z.want = x.want
      /\ z.mine = p.mine \cup x.mine
      /\ \A r \in Dbis : z.flags[r] = IF r <= x.numdbs THEN x.flags[r] \cup (p.flags[r] \cap {"NEW"})
                                        ELSE p.flags[r]
  BY DEF Merged
<1>b. N(V) = n - 1 /\ V.levels[n - 1] = z /\ \A i \in 1..(n - 2) : V.levels[i] = T.levels[i]
  BY DEF Lowered
<1>1. PICK k : k = n - 1
  OBVIOUS
<1>2. n \in Nat /\ k \in Nat /\ k >= 1 /\ n = k + 1 /\ N(V) = k
  BY <1>b, <1>1, TxnType DEF TxnOK, Shape
<1>3. /\ n \in 1..n /\ k \in 1..n /\ k \in 1..k /\ k <= n /\ (k + 1)..n = {n}
      /\ \A i \in 1..k : i \in 1..n /\ i < n
  BY <1>2
<1>4. \A i \in 1..k : (i = k /\ V.levels[i] = z) \/ (i # k /\ V.levels[i] = T.levels[i])
  BY <1>b, <1>1, <1>2
<1>5. x \in Level /\ p \in Level /\ T.levels[k] = p /\ T.levels[n] = x /\ V.levels[k] = z
  BY <1>b, <1>1, <1>3, TxnType
<1>6. x.numdbs \in Nat /\ p.numdbs \in Nat /\ p.numdbs <= x.numdbs /\ Dbis \subseteq Nat
  <2>1. MaxDbs \in Nat
    BY DbiAssumption
  <2>2. x.numdbs \in Nat /\ p.numdbs \in Nat
    BY <1>5, <2>1, LevelType
  <2>3. p.numdbs <= x.numdbs
    BY <1>3, <1>5 DEF TxnOK, Shape
  <2> QED BY <2>2, <2>3 DEF Dbis
<1>7. FlagsOK(x) /\ FlagsOK(p)
  BY <1>3, <1>5 DEF TxnOK, Shape
<1>8. ASSUME NEW r \in Dbis, Known(p, r) PROVE Known(x, r) /\ ~Has(x, "NEW", r)
  <2>1. KnownOK(T, k, g)
    BY <1>3 DEF TxnOK, RwOK, LevelOK
  <2> QED BY <1>3, <1>5, <1>8, <2>1 DEF KnownOK
<1>9. ASSUME NEW r \in Dbis
      PROVE  /\ Has(z, "VALID", r) <=> Has(x, "VALID", r)
             /\ Has(z, "VALID", r) => (Has(z, "STALE", r) <=> Has(x, "STALE", r))
             /\ Has(z, "DIRTY", r) <=> Has(x, "DIRTY", r)
             /\ Has(z, "NEW", r) <=> Has(x, "NEW", r) \/ Has(p, "NEW", r)
             /\ Known(z, r) <=> Known(x, r)
  <2>1. CASE r <= x.numdbs
    <3>1. z.flags[r] = x.flags[r] \cup (p.flags[r] \cap {"NEW"})
      BY <1>a, <2>1
    <3> QED BY <3>1 DEF Has, Known
  <2>2. CASE ~(r <= x.numdbs)
    <3>1. z.flags[r] = p.flags[r]
      BY <1>a, <2>2
    <3>2. ~Has(x, "VALID", r) /\ ~Has(x, "NEW", r) /\ ~Has(x, "DIRTY", r) /\ ~Known(x, r)
      BY <1>7, <2>2 DEF FlagsOK, Known
    <3>3. ~(r <= p.numdbs)
      BY <1>6, <2>2
    <3>4. ~Has(p, "VALID", r) /\ ~Has(p, "NEW", r) /\ ~Has(p, "DIRTY", r) /\ ~Known(p, r)
      BY <1>7, <3>3 DEF FlagsOK, Known
    <3> QED BY <3>1, <3>2, <3>4 DEF Has, Known
  <2> QED BY <2>1, <2>2
<1>10. ASSUME NEW r \in Dbis, Has(p, "NEW", r) PROVE Known(x, r)
  BY <1>7, <1>8, <1>10 DEF FlagsOK
<1>11. /\ V.kind = T.kind /\ V.seqs = T.seqs /\ V.offered = T.offered /\ V.overlap = T.overlap
  BY DEF Same
<1>12. Shape(V)
  <2>1. FlagsOK(z)
    BY <1>a, <1>7, <1>9, <1>10 DEF FlagsOK
  <2>2. \A i \in 1..k : FlagsOK(V.levels[i])
    BY <1>3, <1>4, <2>1 DEF TxnOK, Shape
  <2>3. ASSUME NEW i \in 1..k, NEW j \in 1..k, i <= j PROVE V.levels[i].numdbs <= V.levels[j].numdbs
    <3>1. \A a, b \in 1..n : a <= b => T.levels[a].numdbs <= T.levels[b].numdbs
      BY DEF TxnOK, Shape
    <3>2. CASE i # k /\ j # k
      BY <1>3, <1>4, <2>3, <3>1, <3>2
    <3>3. CASE i # k /\ j = k
      BY <1>a, <1>3, <1>4, <1>5, <3>1, <3>3
    <3>4. CASE i = k
      <4>1. V.levels[i] = z /\ V.levels[j] = z
        BY <1>2, <1>4, <2>3, <3>4
      <4> QED BY <1>a, <1>6, <4>1
    <3> QED BY <3>2, <3>3, <3>4
  <2> QED BY <1>2, <2>2, <2>3 DEF Shape
<1>13. Unused(V, g)
  <2> SUFFICES ASSUME ~V.opened, NEW i \in 1..k
               PROVE  /\ V.levels[i].mine = {} /\ V.levels[i].numdbs <= g.numdbs
                      /\ \A r \in Dbis : ~Has(V.levels[i], "NEW", r)
    BY <1>2 DEF Unused
  <2>1. \A j \in 1..n : /\ T.levels[j].mine = {} /\ T.levels[j].numdbs <= g.numdbs
                        /\ \A r \in Dbis : ~Has(T.levels[j], "NEW", r)
    BY DEF TxnOK, Unused
  <2> QED BY <1>a, <1>3, <1>4, <1>5, <1>9, <2>1
<1>14. MineOK(V, g)
  <2> SUFFICES ASSUME NEW i \in 1..k, NEW a \in V.levels[i].mine
               PROVE  /\ g.names[a[1]] = a[2]
                      /\ a[1] \in g.open \/ NewBelow(V, i, a[1])
                      /\ \A j \in i..k : Has(V.levels[j], "VALID", a[1])
    BY <1>2 DEF MineOK
  <2>1. PICK l \in 1..n : a \in T.levels[l].mine /\ l >= i /\ (l = i \/ i = k)
    <3>1. CASE i # k
      BY <1>3, <1>4, <3>1
    <3>2. CASE i = k /\ a \in p.mine
      BY <1>3, <1>5, <3>2
    <3>3. CASE i = k /\ a \in x.mine
      BY <1>3, <1>5, <3>3
    <3> QED BY <1>a, <1>5, <3>1, <3>2, <3>3
  <2>2. /\ g.names[a[1]] = a[2]
        /\ a[1] \in g.open \/ NewBelow(T, l, a[1])
        /\ \A j \in l..n : Has(T.levels[j], "VALID", a[1])
    BY <2>1 DEF TxnOK, MineOK
  <2>3. a[1] \in Dbis
    BY <2>1, TxnType, LevelType DEF Pairs
  <2>4. NewBelow(T, l, a[1]) => NewBelow(V, i, a[1])
    <3> SUFFICES ASSUME NEW j \in 1..l, Has(T.levels[j], "NEW", a[1]) PROVE NewBelow(V, i, a[1])
      BY DEF NewBelow
    <3>1. CASE i = k
      <4>1. j \in 1..(k - 1) \/ j = k \/ j = n
        BY <1>2, <2>1
      <4>2. CASE j \in 1..(k - 1)
        <5>1. j \in 1..k /\ j # k
          BY <1>2, <4>2
        <5> QED BY <1>4, <3>1, <5>1 DEF NewBelow
      <4>3. CASE j = k \/ j = n
        <5>1. Has(z, "NEW", a[1])
          BY <1>5, <1>9, <2>3, <4>3
        <5> QED BY <1>3, <1>5, <3>1, <5>1 DEF NewBelow
      <4> QED BY <4>1, <4>2, <4>3
    <3>2. CASE i # k
      <4>1. l = i /\ j \in 1..i /\ j \in 1..k /\ j # k
        BY <1>2, <2>1, <3>2
      <4> QED BY <1>4, <4>1 DEF NewBelow
    <3> QED BY <3>1, <3>2
  <2>5. Has(z, "VALID", a[1])
    <3>1. n \in l..n
      BY <1>2, <2>1
    <3> QED BY <1>5, <1>9, <2>2, <2>3, <3>1
  <2>6. \A j \in i..k : Has(V.levels[j], "VALID", a[1])
    <3> SUFFICES ASSUME NEW j \in i..k, j # k PROVE Has(V.levels[j], "VALID", a[1])
      BY <1>5, <2>5
    <3>1. l = i /\ j \in l..n /\ j \in 1..k
      BY <1>2, <2>1
    <3> QED BY <1>4, <2>2, <3>1
  <2> QED BY <2>2, <2>4, <2>6
<1>15. OfferedOK(V, g)
  <2>1. T.offered \subseteq g.held /\ \A a \in T.offered : \A i \in 1..n : Has(T.levels[i], "VALID", a[1])
    BY DEF TxnOK, OfferedOK
  <2>2. \A a \in T.offered : a[1] \in Dbis
    BY TxnType DEF Pairs
  <2>3. \A a \in T.offered, i \in 1..k : Has(V.levels[i], "VALID", a[1])
    BY <1>3, <1>4, <1>5, <1>9, <2>1, <2>2
  <2> QED BY <1>2, <1>11, <2>1, <2>3 DEF OfferedOK
<1>16. SeesOK(V, g)
  <2>1. /\ ~T.overlap => \A i \in 1..n :
              g.numdbs <= T.levels[i].numdbs /\ \A s \in g.open : Has(T.levels[i], "VALID", s)
        /\ \A i \in 1..n : \A s \in Dbis : Has(T.levels[i], "NEW", s) => s \notin g.open
    BY DEF TxnOK, SeesOK
  <2>2. g.open \subseteq Dbis
    BY DEF Tables
  <2>3. ~T.overlap => \A i \in 1..k :
              g.numdbs <= V.levels[i].numdbs /\ \A s \in g.open : Has(V.levels[i], "VALID", s)
    BY <1>a, <1>3, <1>4, <1>5, <1>9, <2>1, <2>2
  <2>4. \A i \in 1..k : \A s \in Dbis : Has(V.levels[i], "NEW", s) => s \notin g.open
    BY <1>3, <1>4, <1>5, <1>9, <2>1
  <2> QED BY <1>2, <1>11, <2>3, <2>4 DEF SeesOK
<1>17. RwOK(V, g)
  <2>1. RwOK(T, g)
    BY DEF TxnOK
  <2>2. ASSUME NEW i \in 1..k, i # k PROVE LevelOK(V, i, g)
    <3>1. KnownOK(T, i, g) /\ StaleOK(T, i, g) /\ RecordsOK(T, i, g) /\ OpenOK(T, i, g)
      BY <1>3, <2>1 DEF RwOK, LevelOK
    <3>2. V.levels[i] = T.levels[i]
      BY <1>4, <2>2
    <3>3. /\ \A j \in (i + 1)..k : j \in (i + 1)..n /\ j \in 1..k
          /\ k \in (i + 1)..n /\ n \in (i + 1)..n /\ k \in (i + 1)..k
          /\ \A j \in (i + 1)..n : j = n \/ (j \in (i + 1)..k /\ j \in 1..k)
      BY <1>2, <2>2
    <3>4. KnownOK(V, i, g)
      <4> SUFFICES ASSUME NEW r \in Dbis, Known(T.levels[i], r)
                   PROVE  /\ V.seqs[r] = g.seqs[r] /\ g.names[r] # NoName
                          /\ T.levels[i].dbs[r] = T.levels[i].want[g.names[r]]
                          /\ T.levels[i].want[g.names[r]] # Absent
                          /\ \A j \in (i + 1)..k : Known(V.levels[j], r) /\ ~Has(V.levels[j], "NEW", r)
        BY <1>2, <3>2 DEF KnownOK
      <4>1. /\ T.seqs[r] = g.seqs[r] /\ g.names[r] # NoName
            /\ T.levels[i].dbs[r] = T.levels[i].want[g.names[r]]
            /\ T.levels[i].want[g.names[r]] # Absent
            /\ \A j \in (i + 1)..n : Known(T.levels[j], r) /\ ~Has(T.levels[j], "NEW", r)
        BY <3>1 DEF KnownOK
      <4>2. Known(z, r) /\ ~Has(z, "NEW", r)
        BY <1>5, <1>9, <3>3, <4>1
      <4>3. \A j \in (i + 1)..k : Known(V.levels[j], r) /\ ~Has(V.levels[j], "NEW", r)
        BY <1>4, <3>3, <4>1, <4>2
      <4> QED BY <1>11, <4>1, <4>3
    <3>5. StaleOK(V, i, g)
      <4>1. ASSUME NEW r \in Dbis, NewAbove(T, i, r) PROVE NewAbove(V, i, r)
        <5>1. PICK j \in (i + 1)..n : Has(T.levels[j], "NEW", r)
          BY <4>1 DEF NewAbove
        <5>2. CASE j = n \/ j = k
          <6>1. Has(V.levels[k], "NEW", r)
            BY <1>5, <1>9, <5>1, <5>2
          <6> QED BY <1>2, <3>3, <6>1 DEF NewAbove
        <5>3. CASE j # n /\ j # k
          <6>1. j \in (i + 1)..k /\ V.levels[j] = T.levels[j]
            BY <1>4, <3>3, <5>3
          <6> QED BY <1>2, <5>1, <6>1 DEF NewAbove
        <5> QED BY <5>2, <5>3
      <4> QED BY <1>11, <3>1, <3>2, <4>1 DEF StaleOK
    <3>6. RecordsOK(V, i, g) /\ OpenOK(V, i, g)
      BY <1>11, <3>1, <3>2 DEF RecordsOK, OpenOK
    <3> QED BY <3>4, <3>5, <3>6 DEF LevelOK
  <2>3. LevelOK(V, k, g)
    <3>1. KnownOK(T, n, g) /\ StaleOK(T, n, g) /\ RecordsOK(T, n, g) /\ OpenOK(T, n, g)
      BY <1>3, <2>1 DEF RwOK, LevelOK
    <3>2. (k + 1)..k = {} /\ (n + 1)..n = {}
      BY <1>2
    <3>3. KnownOK(V, k, g)
      <4>1. \A r \in Dbis : Known(x, r) =>
               /\ T.seqs[r] = g.seqs[r] /\ g.names[r] # NoName
               /\ x.dbs[r] = x.want[g.names[r]] /\ x.want[g.names[r]] # Absent
        BY <1>5, <3>1 DEF KnownOK
      <4>2. \A r \in Dbis : Known(z, r) =>
               /\ V.seqs[r] = g.seqs[r] /\ g.names[r] # NoName
               /\ z.dbs[r] = z.want[g.names[r]] /\ z.want[g.names[r]] # Absent
        BY <1>a, <1>9, <1>11, <4>1
      <4> QED BY <1>2, <1>5, <3>2, <4>2 DEF KnownOK
    <3>4. StaleOK(V, k, g)
      <4>1. \A r \in Dbis : ~NewAbove(T, n, r)
        BY <3>2 DEF NewAbove
      <4>2. \A r \in Dbis : Has(x, "VALID", r) /\ Has(x, "STALE", r) /\ T.seqs[r] = g.seqs[r] =>
               /\ g.names[r] # NoName /\ x.main[g.names[r]] = x.want[g.names[r]]
               /\ x.want[g.names[r]] # Absent
        BY <1>5, <3>1, <4>1 DEF StaleOK
      <4>3. \A r \in Dbis : Has(z, "VALID", r) /\ Has(z, "STALE", r) /\ V.seqs[r] = g.seqs[r] =>
               /\ g.names[r] # NoName /\ z.main[g.names[r]] = z.want[g.names[r]]
               /\ z.want[g.names[r]] # Absent
        BY <1>a, <1>9, <1>11, <4>2
      <4> QED BY <1>5, <4>3 DEF StaleOK
    <3>5. RecordsOK(V, k, g)
      <4>1. \A m \in Names : x.main[m] = x.want[m] \/ \E r \in Dbis : Has(x, "DIRTY", r) /\ g.names[r] = m
        BY <1>5, <3>1 DEF RecordsOK
      <4>2. \A m \in Names : z.main[m] = z.want[m] \/ \E r \in Dbis : Has(z, "DIRTY", r) /\ g.names[r] = m
        BY <1>a, <1>9, <4>1
      <4> QED BY <1>5, <4>2 DEF RecordsOK
    <3>6. OpenOK(V, k, g)
      <4>1. g.open \subseteq Dbis
        BY DEF Tables
      <4>2. \A r \in g.open : (Has(z, "VALID", r) => V.seqs[r] = g.seqs[r]) /\ z.want[g.names[r]] # Absent
        BY <1>a, <1>5, <1>9, <1>11, <3>1, <4>1 DEF OpenOK
      <4>3. ~V.opened => /\ \A r \in Dbis : Has(z, "VALID", r) => r \in g.open
                         /\ \A m \in Names : g.main[m] # Absent => z.want[m] # Absent
        BY <1>a, <1>5, <1>9, <3>1 DEF OpenOK
      <4> QED BY <1>5, <4>2, <4>3 DEF OpenOK
    <3> QED BY <3>3, <3>4, <3>5, <3>6 DEF LevelOK
  <2>4. \A i \in 1..k : LevelOK(V, i, g)
    BY <2>2, <2>3
  <2> QED BY <1>2, <1>11, <2>1, <2>4 DEF RwOK
<1>18. ASSUME NEW r \in Dbis PROVE NewIn(V, r) <=> NewIn(T, r)
  <2>1. ASSUME NEW i \in 1..k, Has(V.levels[i], "NEW", r) PROVE NewIn(T, r)
    <3>1. CASE i = k
      BY <1>3, <1>5, <1>9, <2>1, <3>1 DEF NewIn
    <3>2. CASE i # k
      BY <1>3, <1>4, <2>1, <3>2 DEF NewIn
    <3> QED BY <3>1, <3>2
  <2>2. ASSUME NEW i \in 1..n, Has(T.levels[i], "NEW", r) PROVE NewIn(V, r)
    <3>1. CASE i = k \/ i = n
      <4>1. Has(V.levels[k], "NEW", r)
        BY <1>5, <1>9, <2>2, <3>1
      <4> QED BY <1>2, <1>3, <4>1 DEF NewIn
    <3>2. CASE i # k /\ i # n
      <4>1. i \in 1..k
        BY <1>2, <3>2
      <4> QED BY <1>2, <1>4, <2>2, <3>2, <4>1 DEF NewIn
    <3> QED BY <3>1, <3>2
  <2> QED BY <1>2, <2>1, <2>2 DEF NewIn
<1> QED BY <1>11, <1>12, <1>13, <1>14, <1>15, <1>16, <1>17, <1>18 DEF TxnOK

\* A write transaction is saved; its handles are not exported yet.
LEMMA SavedOK ==
    ASSUME NEW g, NEW T \in Txn, TxnOK(T, g), T.kind = "rw", T.pc = "live", N(T) = 1,
           NEW h, h.names = g.names, h.open = g.open, h.seqs = g.seqs, h.numdbs = g.numdbs,
           h.held = g.held, h.main = T.levels[1].want,
           NEW V, Same(V, T), V.levels = T.levels, V.opened = T.opened, V.pc = "written"
    PROVE  TxnOK(V, h) /\ \A r \in Dbis : NewIn(V, r) <=> NewIn(T, r)
<1>1. /\ V.kind = T.kind /\ V.seqs = T.seqs /\ V.offered = T.offered /\ V.overlap = T.overlap
      /\ N(V) = N(T)
  BY DEF Same, N
<1>2. \A i \in 1..N(T) : i = 1
  OBVIOUS
<1>3. Shape(V) /\ Unused(V, h) /\ MineOK(V, h)
  BY <1>1 DEF TxnOK, Shape, Unused, MineOK, NewBelow
<1>4. OfferedOK(V, h) /\ SeesOK(V, h)
  BY <1>1 DEF TxnOK, OfferedOK, SeesOK
<1>5. RwOK(V, h)
  <2>1. RwOK(T, g)
    BY DEF TxnOK
  <2>2. ASSUME NEW i \in 1..N(T) PROVE LevelOK(V, i, h)
    <3>1. KnownOK(T, i, g) /\ StaleOK(T, i, g) /\ RecordsOK(T, i, g) /\ OpenOK(T, i, g)
      BY <2>1 DEF RwOK, LevelOK
    <3>2. KnownOK(V, i, h) /\ RecordsOK(V, i, h)
      BY <1>1, <3>1 DEF KnownOK, RecordsOK
    <3>3. StaleOK(V, i, h)
      BY <1>1, <3>1 DEF StaleOK, NewAbove
    <3>4. OpenOK(V, i, h)
      BY <1>1, <1>2, <3>1 DEF OpenOK
    <3> QED BY <3>2, <3>3, <3>4 DEF LevelOK
  <2> QED BY <1>1, <2>1, <2>2 DEF RwOK
<1>6. \A r \in Dbis : NewIn(V, r) <=> NewIn(T, r)
  BY <1>1 DEF NewIn
<1> QED BY <1>1, <1>3, <1>4, <1>5, <1>6 DEF TxnOK

\* The level x has the record of the database s, named m, with its content as the
\* application expects it; y is the level before.
Recorded(x, y, s, m) ==
    /\ x.numdbs = y.numdbs /\ x.mine = y.mine /\ x.main = y.main
    /\ Known(x, s) /\ (Has(x, "NEW", s) <=> Has(y, "NEW", s))
    /\ \A r \in Dbis \ {s} : x.flags[r] = y.flags[r] /\ x.dbs[r] = y.dbs[r]
    /\ x.dbs[s] = x.want[m] /\ x.want[m] # Absent
    /\ \A a \in Names \ {m} : x.want[a] = y.want[a]
    /\ Has(y, "DIRTY", s) => Has(x, "DIRTY", s)
    /\ x.want[m] = y.want[m] \/ Has(x, "DIRTY", s)

\* A transaction changes the record of one database in its last level.
LEMMA RecordOK ==
    ASSUME NEW g \in Tables, TableOK(g), NEW T \in Txn, TxnOK(T, g), T.pc = "live",
           NEW s \in Dbis, NEW m \in Names, g.names[s] = m,
           NEW y, y = T.levels[N(T)], Has(y, "VALID", s),
           NEW x, Recorded(x, y, s, m),
           T.kind = "rw" => T.seqs[s] = g.seqs[s],
           T.kind = "ro" => x.want = y.want /\ (s \in g.open \/ Has(y, "NEW", s)),
           NEW V, Same(V, T), V.pc = T.pc, V.opened = T.opened, Topped(V, T, x)
    PROVE  TxnOK(V, g) /\ \A r \in Dbis : NewIn(V, r) <=> NewIn(T, r)
<1>a. /\ x.numdbs = y.numdbs /\ x.mine = y.mine /\ x.main = y.main
      /\ Known(x, s) /\ (Has(x, "NEW", s) <=> Has(y, "NEW", s))
      /\ \A r \in Dbis \ {s} : x.flags[r] = y.flags[r] /\ x.dbs[r] = y.dbs[r]
      /\ x.dbs[s] = x.want[m] /\ x.want[m] # Absent
      /\ \A a \in Names \ {m} : x.want[a] = y.want[a]
      /\ Has(y, "DIRTY", s) => Has(x, "DIRTY", s)
      /\ x.want[m] = y.want[m] \/ Has(x, "DIRTY", s)
  BY DEF Recorded
<1>1. PICK n : n = N(T)
  OBVIOUS
<1>2. n \in Nat /\ n >= 1 /\ n \in 1..n /\ \A i \in 1..n : i <= n
  BY <1>1, TxnType DEF TxnOK, Shape
<1>3. N(V) = n /\ V.levels[n] = x /\ T.levels[n] = y /\ \A i \in 1..(n - 1) : V.levels[i] = T.levels[i]
  BY <1>1 DEF Topped
<1>4. \A i \in 1..n : (i = n /\ V.levels[i] = x) \/ (i # n /\ V.levels[i] = T.levels[i])
  BY <1>2, <1>3
<1>5. /\ V.kind = T.kind /\ V.seqs = T.seqs /\ V.offered = T.offered /\ V.overlap = T.overlap
  BY DEF Same
<1>6. \A r \in Dbis : r # s => \A f : Has(x, f, r) <=> Has(y, f, r)
  BY <1>a DEF Has
<1>7. \A r \in Dbis : /\ Has(x, "VALID", r) <=> Has(y, "VALID", r)
                      /\ Has(x, "NEW", r) <=> Has(y, "NEW", r)
                      /\ Has(x, "STALE", r) => r # s /\ Has(y, "STALE", r)
                      /\ Has(y, "DIRTY", r) => Has(x, "DIRTY", r)
                      /\ Known(y, r) => Known(x, r)
                      /\ Known(x, r) => r = s \/ Known(y, r)
  BY <1>a, <1>6 DEF Known
<1>8. \A i \in 1..n, r \in Dbis :
         /\ Has(V.levels[i], "VALID", r) <=> Has(T.levels[i], "VALID", r)
         /\ Has(V.levels[i], "NEW", r) <=> Has(T.levels[i], "NEW", r)
         /\ Known(T.levels[i], r) => Known(V.levels[i], r)
  BY <1>3, <1>4, <1>7
<1>9. \A i \in 1..n : V.levels[i].numdbs = T.levels[i].numdbs /\ V.levels[i].mine = T.levels[i].mine
  BY <1>a, <1>3, <1>4
<1>10. Shape(V)
  <2>1. FlagsOK(y) /\ \A i \in 1..n : FlagsOK(T.levels[i])
    BY <1>1, <1>2 DEF TxnOK, Shape
  <2>2. FlagsOK(x)
    BY <1>a, <1>6, <1>7, <2>1 DEF FlagsOK
  <2>3. \A i \in 1..n : FlagsOK(V.levels[i])
    BY <1>4, <2>1, <2>2
  <2>4. \A i, j \in 1..n : i <= j => V.levels[i].numdbs <= V.levels[j].numdbs
    BY <1>1, <1>9 DEF TxnOK, Shape
  <2> QED BY <1>2, <1>3, <2>3, <2>4 DEF Shape
<1>11. Unused(V, g)
  BY <1>1, <1>3, <1>8, <1>9 DEF TxnOK, Unused
<1>12. MineOK(V, g)
  <2> SUFFICES ASSUME NEW i \in 1..n, NEW a \in T.levels[i].mine
               PROVE  /\ g.names[a[1]] = a[2]
                      /\ a[1] \in g.open \/ NewBelow(V, i, a[1])
                      /\ \A j \in i..n : Has(V.levels[j], "VALID", a[1])
    BY <1>3, <1>9 DEF MineOK
  <2>1. /\ g.names[a[1]] = a[2]
        /\ a[1] \in g.open \/ NewBelow(T, i, a[1])
        /\ \A j \in i..n : Has(T.levels[j], "VALID", a[1])
    BY <1>1 DEF TxnOK, MineOK
  <2>2. a[1] \in Dbis
    BY <1>1, TxnType, LevelType DEF Pairs
  <2>3. (\A j \in 1..i : j \in 1..n) /\ (\A j \in i..n : j \in 1..n)
    BY <1>2
  <2>4. NewBelow(T, i, a[1]) => NewBelow(V, i, a[1])
    BY <1>8, <2>2, <2>3 DEF NewBelow
  <2> QED BY <1>8, <2>1, <2>2, <2>3, <2>4
<1>13. OfferedOK(V, g)
  <2>1. T.offered \subseteq g.held /\ \A a \in T.offered : \A i \in 1..n : Has(T.levels[i], "VALID", a[1])
    BY <1>1 DEF TxnOK, OfferedOK
  <2>2. \A a \in T.offered : a[1] \in Dbis
    BY TxnType DEF Pairs
  <2>3. \A a \in T.offered, i \in 1..n : Has(V.levels[i], "VALID", a[1])
    BY <1>8, <2>1, <2>2
  <2> QED BY <1>3, <1>5, <2>1, <2>3 DEF OfferedOK
<1>14. SeesOK(V, g)
  <2>1. g.open \subseteq Dbis
    BY DEF Tables
  <2> QED BY <1>1, <1>3, <1>5, <1>8, <1>9, <2>1 DEF TxnOK, SeesOK
<1>15. \A r \in Dbis : g.names[r] # NoName => g.names[r] \in Names /\ (r # s => g.names[r] # m)
  BY DEF Tables, TableOK
<1>16. m # NoName
  BY DbiAssumption
<1>17. ASSUME T.kind = "rw" PROVE RwOK(V, g)
  <2>1. RwOK(T, g)
    BY <1>17 DEF TxnOK
  <2>2. ASSUME NEW i \in 1..n PROVE LevelOK(V, i, g)
    <3>1. KnownOK(T, i, g) /\ StaleOK(T, i, g) /\ RecordsOK(T, i, g) /\ OpenOK(T, i, g)
      BY <1>1, <2>1 DEF RwOK, LevelOK
    <3>2. \A j \in (i + 1)..n : j \in 1..n
      BY <1>2
    <3>3. KnownOK(V, i, g)
      <4> SUFFICES ASSUME NEW r \in Dbis, Known(V.levels[i], r)
                   PROVE  /\ T.seqs[r] = g.seqs[r] /\ g.names[r] # NoName
                          /\ V.levels[i].dbs[r] = V.levels[i].want[g.names[r]]
                          /\ V.levels[i].want[g.names[r]] # Absent
                          /\ \A j \in (i + 1)..n : Known(V.levels[j], r) /\ ~Has(V.levels[j], "NEW", r)
        BY <1>3, <1>5 DEF KnownOK
      <4>1. Known(T.levels[i], r) \/ (i = n /\ r = s)
        BY <1>3, <1>4, <1>7
      <4>2. CASE i = n /\ r = s
        <5>1. (i + 1)..n = {}
          BY <1>2, <4>2
        <5> QED BY <1>a, <1>3, <1>16, <1>17, <4>2, <5>1
      <4>3. CASE Known(T.levels[i], r) /\ ~(i = n /\ r = s)
        <5>1. /\ T.seqs[r] = g.seqs[r] /\ g.names[r] # NoName
              /\ T.levels[i].dbs[r] = T.levels[i].want[g.names[r]]
              /\ T.levels[i].want[g.names[r]] # Absent
              /\ \A j \in (i + 1)..n : Known(T.levels[j], r) /\ ~Has(T.levels[j], "NEW", r)
          BY <1>1, <3>1, <4>3 DEF KnownOK
        <5>2. \A j \in (i + 1)..n : Known(V.levels[j], r) /\ ~Has(V.levels[j], "NEW", r)
          BY <1>8, <3>2, <5>1
        <5>3. CASE i # n
          BY <1>4, <5>1, <5>2, <5>3
        <5>4. CASE i = n
          <6>1. r # s /\ V.levels[i] = x /\ T.levels[i] = y
            BY <1>3, <4>3, <5>4
          <6>2. g.names[r] \in Names \ {m}
            BY <1>15, <5>1, <6>1
          <6>3. x.dbs[r] = y.dbs[r] /\ x.want[g.names[r]] = y.want[g.names[r]]
            BY <1>a, <6>1, <6>2
          <6> QED BY <5>1, <5>2, <6>1, <6>3
        <5> QED BY <5>3, <5>4
      <4> QED BY <4>1, <4>2, <4>3
    <3>4. StaleOK(V, i, g)
      <4> SUFFICES ASSUME NEW r \in Dbis, Has(V.levels[i], "VALID", r), Has(V.levels[i], "STALE", r),
                          T.seqs[r] = g.seqs[r], ~NewAbove(V, i, r)
                   PROVE  /\ g.names[r] # NoName
                          /\ V.levels[i].main[g.names[r]] = V.levels[i].want[g.names[r]]
                          /\ V.levels[i].want[g.names[r]] # Absent
        BY <1>5 DEF StaleOK
      <4>1. ~NewAbove(T, i, r)
        BY <1>1, <1>3, <1>8, <3>2 DEF NewAbove
      <4>2. Has(T.levels[i], "VALID", r) /\ Has(T.levels[i], "STALE", r)
        BY <1>3, <1>4, <1>7
      <4>3. /\ g.names[r] # NoName
            /\ T.levels[i].main[g.names[r]] = T.levels[i].want[g.names[r]]
            /\ T.levels[i].want[g.names[r]] # Absent
        BY <3>1, <4>1, <4>2 DEF StaleOK
      <4>4. CASE i # n
        BY <1>4, <4>3, <4>4
      <4>5. CASE i = n
        <5>1. r # s /\ V.levels[i] = x /\ T.levels[i] = y
          BY <1>3, <1>7, <4>5
        <5>2. g.names[r] \in Names \ {m}
          BY <1>15, <4>3, <5>1
        <5>3. x.want[g.names[r]] = y.want[g.names[r]]
          BY <1>a, <5>2
        <5> QED BY <1>a, <4>3, <5>1, <5>3
      <4> QED BY <4>4, <4>5
    <3>5. RecordsOK(V, i, g)
      <4>1. CASE i # n
        <5>1. V.levels[i] = T.levels[i]
          BY <1>4, <4>1
        <5> QED BY <3>1, <5>1 DEF RecordsOK
      <4>2. CASE i = n
        <5>1. V.levels[i] = x /\ T.levels[i] = y
          BY <1>3, <4>2
        <5>2. \A a \in Names : y.main[a] = y.want[a] \/ \E r \in Dbis : Has(y, "DIRTY", r) /\ g.names[r] = a
          BY <3>1, <5>1 DEF RecordsOK
        <5>3. \A a \in Names : x.main[a] = x.want[a] \/ \E r \in Dbis : Has(x, "DIRTY", r) /\ g.names[r] = a
          <6> SUFFICES ASSUME NEW a \in Names, x.main[a] # x.want[a]
                       PROVE  \E r \in Dbis : Has(x, "DIRTY", r) /\ g.names[r] = a
            OBVIOUS
          <6>1. CASE x.want[a] = y.want[a]
            <7>1. PICK r \in Dbis : Has(y, "DIRTY", r) /\ g.names[r] = a
              BY <1>a, <5>2, <6>1
            <7> QED BY <1>7, <7>1
          <6>2. CASE x.want[a] # y.want[a]
            BY <1>a, <6>2
          <6> QED BY <6>1, <6>2
        <5> QED BY <5>1, <5>3 DEF RecordsOK
      <4> QED BY <4>1, <4>2
    <3>6. OpenOK(V, i, g)
      <4>1. g.open \subseteq Dbis
        BY DEF Tables
      <4>2. \A a \in Names : T.levels[i].want[a] # Absent => V.levels[i].want[a] # Absent
        BY <1>a, <1>3, <1>4
      <4>3. \A r \in g.open : g.names[r] \in Names
        BY <1>15, <4>1 DEF TableOK
      <4> QED BY <1>5, <1>8, <3>1, <4>1, <4>2, <4>3 DEF OpenOK
    <3> QED BY <3>3, <3>4, <3>5, <3>6 DEF LevelOK
  <2> QED BY <1>1, <1>3, <1>5, <2>1, <2>2 DEF RwOK
<1>18. ASSUME T.kind = "ro" PROVE RoOK(V, g)
  <2>1. RoOK(T, g) /\ n = 1 /\ V.levels[1] = x /\ T.levels[1] = y
    BY <1>1, <1>3, <1>18 DEF TxnOK, RoOK
  <2>2. x.want = y.want /\ y.main = y.want /\ (s \in g.open \/ Has(y, "NEW", s))
    BY <1>18, <2>1 DEF RoOK
  <2>3. \A r \in Dbis : Known(x, r) => /\ g.names[r] # NoName /\ x.dbs[r] = x.want[g.names[r]] /\ x.dbs[r] # Absent
                                       /\ r \in g.open \/ Has(x, "NEW", r)
    <3> SUFFICES ASSUME NEW r \in Dbis, Known(x, r)
                 PROVE  /\ g.names[r] # NoName /\ x.dbs[r] = x.want[g.names[r]] /\ x.dbs[r] # Absent
                        /\ r \in g.open \/ Has(x, "NEW", r)
      OBVIOUS
    <3>1. CASE r = s
      BY <1>a, <1>16, <2>2, <3>1
    <3>2. CASE r # s
      <4>1. Known(y, r) /\ x.dbs[r] = y.dbs[r]
        BY <1>a, <1>7, <3>2
      <4>2. g.names[r] # NoName /\ y.dbs[r] = y.want[g.names[r]] /\ y.dbs[r] # Absent /\ (r \in g.open \/ Has(y, "NEW", r))
        BY <2>1, <4>1 DEF RoOK
      <4> QED BY <1>7, <2>2, <4>1, <4>2
    <3> QED BY <3>1, <3>2
  <2>4. \A r \in Dbis : Has(x, "NEW", r) => g.main[g.names[r]] # Absent
    BY <1>7, <2>1 DEF RoOK
  <2>5. ~V.overlap => \A a \in Names : x.main[a] # Absent => g.main[a] # Absent
    BY <1>a, <1>5, <2>1 DEF RoOK
  <2> QED BY <1>a, <1>3, <2>1, <2>2, <2>3, <2>4, <2>5, SMTT(40) DEF RoOK
<1>19. \A r \in Dbis : NewIn(V, r) <=> NewIn(T, r)
  BY <1>1, <1>3, <1>8 DEF NewIn
<1> QED BY <1>5, <1>10, <1>11, <1>12, <1>13, <1>14, <1>17, <1>18, <1>19 DEF TxnOK

\* A table without the database s, its handle d; the level of the transaction that
\* has dropped it, and the transaction.
DropTable(h, g, s, d) ==
    /\ h.open = g.open \ {s} /\ h.numdbs = g.numdbs /\ h.main = g.main /\ h.held = g.held \ {d}
    /\ \A r \in Dbis \ {s} : h.names[r] = g.names[r] /\ h.seqs[r] = g.seqs[r]
    /\ g.seqs[s] < h.seqs[s]
DropRecord(x, y, s, m) ==
    /\ x.numdbs = y.numdbs /\ x.flags[s] = {"STALE"}
    /\ \A r \in Dbis \ {s} : x.flags[r] = y.flags[r] /\ x.dbs[r] = y.dbs[r]
    /\ x.main[m] = x.want[m]
    /\ \A a \in Names \ {m} : x.main[a] = y.main[a] /\ x.want[a] = y.want[a]
    /\ x.mine = y.mine \ {<<s, m>>}
DropTxn(V, T, d) ==
    /\ V.kind = T.kind /\ V.seqs = T.seqs /\ V.offered = T.offered \ {d}
    /\ V.overlap = T.overlap /\ V.pc = T.pc /\ V.opened = TRUE /\ N(V) = N(T)
    /\ \A i \in 1..(N(T) - 1) : /\ Alike(V.levels[i], T.levels[i])
                                /\ V.levels[i].mine = T.levels[i].mine \ {d}
OnlyLast(T, s) == \A i \in 1..(N(T) - 1) : ~Known(T.levels[i], s)

\* A write transaction drops the database s, named m; no other level has its record.
LEMMA DroppedOK ==
    ASSUME NEW g \in Tables, NEW h \in Tables, TableOK(g), NEW T \in Txn, TxnOK(T, g), T.kind = "rw",
           T.pc = "live", NEW s \in Dbis, NEW m \in Names, g.names[s] = m,
           OnlyLast(T, s), NEW d, d = <<s, m>>, DropTable(h, g, s, d), NEW V \in Txn, DropTxn(V, T, d),
           NEW n, n = N(T), NEW y, y = T.levels[n], NEW x, x = V.levels[n], DropRecord(x, y, s, m)
    PROVE  TxnOK(V, h) /\ \A r \in Dbis \ {s} : NewIn(V, r) <=> NewIn(T, r)
<1>a. /\ h.open = g.open \ {s} /\ h.numdbs = g.numdbs /\ h.main = g.main /\ h.held = g.held \ {<<s, m>>}
      /\ \A r \in Dbis \ {s} : h.names[r] = g.names[r] /\ h.seqs[r] = g.seqs[r]
      /\ g.seqs[s] < h.seqs[s]
  BY DEF DropTable
<1>b. /\ x.numdbs = y.numdbs /\ x.flags[s] = {"STALE"}
      /\ \A r \in Dbis \ {s} : x.flags[r] = y.flags[r] /\ x.dbs[r] = y.dbs[r]
      /\ x.main[m] = x.want[m]
      /\ \A a \in Names \ {m} : x.main[a] = y.main[a] /\ x.want[a] = y.want[a]
      /\ x.mine = y.mine \ {<<s, m>>}
  BY DEF DropRecord
<1>c. /\ V.kind = T.kind /\ V.seqs = T.seqs /\ V.offered = T.offered \ {<<s, m>>}
      /\ V.overlap = T.overlap /\ V.pc = T.pc /\ V.opened = TRUE /\ N(V) = n /\ V.levels[n] = x
      /\ \A i \in 1..(n - 1) : /\ Alike(V.levels[i], T.levels[i])
                                /\ V.levels[i].mine = T.levels[i].mine \ {<<s, m>>}
  BY DEF DropTxn
<1>d. \A i \in 1..(n - 1) : ~Known(T.levels[i], s)
  BY DEF OnlyLast
<1>1. n \in Nat /\ n >= 1 /\ n \in 1..n /\ n = N(T)
  BY TxnType DEF TxnOK, Shape
<1>2. \A i \in 1..n : i = n \/ i \in 1..(n - 1)
  BY <1>1
<1>3. \A i \in 1..n, r \in Dbis \ {s} : \A f : Has(V.levels[i], f, r) <=> Has(T.levels[i], f, r)
  BY <1>b, <1>c, <1>2 DEF Has, Alike
<1>4. \A i \in 1..n, r \in Dbis \ {s} : Known(V.levels[i], r) <=> Known(T.levels[i], r)
  BY <1>3 DEF Known
<1>5. ~Has(x, "VALID", s) /\ ~Has(x, "NEW", s) /\ ~Has(x, "DIRTY", s)
  BY <1>b DEF Has
<1>6. \A i \in 1..(n - 1) : \A f : Has(V.levels[i], f, s) <=> Has(T.levels[i], f, s)
  BY <1>c DEF Has, Alike
<1>7. \A i \in 1..n : ~Known(V.levels[i], s)
  BY <1>d, <1>2, <1>5, <1>6 DEF Known
<1>8. \A i \in 1..n : V.levels[i].numdbs = T.levels[i].numdbs
  BY <1>b, <1>c, <1>2 DEF Alike
<1>9. \A i \in 1..n : \A a \in V.levels[i].mine : a \in T.levels[i].mine /\ a # <<s, m>>
  BY <1>b, <1>c, <1>2
<1>10. \A i \in 1..n, a \in Names : a # m => /\ V.levels[i].main[a] = T.levels[i].main[a]
                                             /\ V.levels[i].want[a] = T.levels[i].want[a]
  BY <1>b, <1>c, <1>2 DEF Alike
<1>11. ASSUME NEW r \in Dbis, g.names[r] # NoName, r # s
       PROVE  g.names[r] \in Names /\ g.names[r] # m /\ h.names[r] = g.names[r] /\ h.seqs[r] = g.seqs[r]
  BY <1>a, <1>11 DEF Tables, TableOK
<1>12. m # NoName
  BY DbiAssumption
<1>13. Shape(V)
  <2>1. \A i \in 1..n : FlagsOK(T.levels[i])
    BY <1>1 DEF TxnOK, Shape
  <2>2. \A i \in 1..(n - 1) : FlagsOK(V.levels[i])
    <3>1. \A i \in 1..(n - 1) : i \in 1..n
      BY <1>1
    <3>2. \A i \in 1..(n - 1) : \A r, f : Has(V.levels[i], f, r) <=> Has(T.levels[i], f, r)
      BY <1>c DEF Alike, Has
    <3> QED BY <1>8, <2>1, <3>1, <3>2 DEF FlagsOK, Known
  <2>3. FlagsOK(x)
    <3>1. FlagsOK(y)
      BY <1>1, <2>1
    <3>2. \A r \in Dbis : r # s => \A f : Has(x, f, r) <=> Has(y, f, r)
      BY <1>b DEF Has
    <3> QED BY <1>b, <1>5, <3>1, <3>2 DEF FlagsOK, Known
  <2>4. \A i \in 1..n : FlagsOK(V.levels[i])
    BY <1>2, <2>2, <2>3
  <2>5. \A i, j \in 1..n : i <= j => V.levels[i].numdbs <= V.levels[j].numdbs
    BY <1>1, <1>8 DEF TxnOK, Shape
  <2> QED BY <1>c, <1>1, <2>4, <2>5 DEF Shape
<1>14. Unused(V, h)
  BY <1>c DEF Unused
<1>15. \A a : a \in Pairs /\ g.names[a[1]] = a[2] /\ a # <<s, m>> => a[1] \in Dbis \ {s}
  BY DEF Pairs
<1>16. MineOK(V, h)
  <2> SUFFICES ASSUME NEW i \in 1..n, NEW a \in V.levels[i].mine
               PROVE  /\ h.names[a[1]] = a[2]
                      /\ a[1] \in h.open \/ NewBelow(V, i, a[1])
                      /\ \A j \in i..n : Has(V.levels[j], "VALID", a[1])
    BY <1>c, <1>1 DEF MineOK
  <2>1. /\ g.names[a[1]] = a[2]
        /\ a[1] \in g.open \/ NewBelow(T, i, a[1])
        /\ \A j \in i..n : Has(T.levels[j], "VALID", a[1])
    BY <1>1, <1>9 DEF TxnOK, MineOK
  <2>2. a \in Pairs
    BY <1>1, <1>9, TxnType, LevelType
  <2>3. a[1] \in Dbis \ {s}
    BY <1>9, <1>15, <2>1, <2>2
  <2>4. (\A j \in 1..i : j \in 1..n) /\ (\A j \in i..n : j \in 1..n)
    BY <1>1
  <2>5. NewBelow(T, i, a[1]) => NewBelow(V, i, a[1])
    BY <1>3, <2>3, <2>4 DEF NewBelow
  <2> QED BY <1>a, <1>3, <2>1, <2>3, <2>4, <2>5
<1>17. OfferedOK(V, h)
  <2>1. T.offered \subseteq g.held /\ \A a \in T.offered : \A i \in 1..n : Has(T.levels[i], "VALID", a[1])
    BY <1>1 DEF TxnOK, OfferedOK
  <2>2. \A a \in V.offered : a \in Pairs /\ g.names[a[1]] = a[2] /\ a # <<s, m>>
    BY <1>c, <2>1, TxnType DEF TableOK
  <2>3. \A a \in V.offered : a[1] \in Dbis \ {s}
    BY <1>15, <2>2
  <2>4. \A a \in V.offered, i \in 1..n : Has(V.levels[i], "VALID", a[1])
    BY <1>c, <1>3, <2>1, <2>3
  <2> QED BY <1>a, <1>c, <2>1, <2>4 DEF OfferedOK
<1>18. SeesOK(V, h)
  <2>1. h.open \subseteq Dbis \ {s}
    BY <1>a DEF Tables
  <2>2. \A i \in 1..n, r \in Dbis : Has(V.levels[i], "NEW", r) => r \notin h.open
    <3>1. \A i \in 1..n, r \in Dbis : Has(T.levels[i], "NEW", r) => r \notin g.open
      BY <1>1 DEF TxnOK, SeesOK
    <3> QED BY <1>a, <1>3, <2>1, <3>1
  <2>3. ~V.overlap => \A i \in 1..n : h.numdbs <= V.levels[i].numdbs /\ \A r \in h.open : Has(V.levels[i], "VALID", r)
    <3>1. ~T.overlap => \A i \in 1..n : g.numdbs <= T.levels[i].numdbs /\ \A r \in g.open : Has(T.levels[i], "VALID", r)
      BY <1>1 DEF TxnOK, SeesOK
    <3>2. h.open \subseteq g.open
      BY <1>a
    <3> QED BY <1>a, <1>c, <1>3, <1>8, <2>1, <3>1, <3>2
  <2> QED BY <1>c, <2>2, <2>3 DEF SeesOK
<1>19. RwOK(V, h)
  <2>1. RwOK(T, g)
    BY DEF TxnOK
  <2>2. T.seqs[s] \in Nat /\ g.seqs[s] \in Nat /\ h.seqs[s] \in Nat /\ T.seqs[s] <= g.seqs[s]
    BY <2>1 DEF RwOK, Tables
  <2>3. V.seqs[s] < h.seqs[s] /\ V.seqs[s] <= h.seqs[s] /\ V.seqs[s] # h.seqs[s]
    BY <1>a, <1>c, <2>2
  <2>4. \A r \in Dbis : V.seqs[r] <= h.seqs[r]
    BY <1>a, <1>c, <2>1, <2>3 DEF RwOK
  <2>5. ASSUME NEW i \in 1..n PROVE LevelOK(V, i, h)
    <3>1. KnownOK(T, i, g) /\ StaleOK(T, i, g) /\ RecordsOK(T, i, g) /\ OpenOK(T, i, g)
      BY <1>1, <2>1 DEF RwOK, LevelOK
    <3>2. \A j \in (i + 1)..n : j \in 1..n
      BY <1>1
    <3>3. KnownOK(V, i, h)
      <4> SUFFICES ASSUME NEW r \in Dbis, Known(V.levels[i], r)
                   PROVE  /\ V.seqs[r] = h.seqs[r] /\ h.names[r] # NoName
                          /\ V.levels[i].dbs[r] = V.levels[i].want[h.names[r]]
                          /\ V.levels[i].want[h.names[r]] # Absent
                          /\ \A j \in (i + 1)..n : Known(V.levels[j], r) /\ ~Has(V.levels[j], "NEW", r)
        BY <1>c DEF KnownOK
      <4>1. r # s /\ Known(T.levels[i], r)
        BY <1>4, <1>7
      <4>2. /\ T.seqs[r] = g.seqs[r] /\ g.names[r] # NoName
            /\ T.levels[i].dbs[r] = T.levels[i].want[g.names[r]]
            /\ T.levels[i].want[g.names[r]] # Absent
            /\ \A j \in (i + 1)..n : Known(T.levels[j], r) /\ ~Has(T.levels[j], "NEW", r)
        BY <1>1, <3>1, <4>1 DEF KnownOK
      <4>3. g.names[r] \in Names /\ g.names[r] # m /\ h.names[r] = g.names[r] /\ h.seqs[r] = g.seqs[r]
        BY <1>11, <4>1, <4>2
      <4>4. \A j \in (i + 1)..n : Known(V.levels[j], r) /\ ~Has(V.levels[j], "NEW", r)
        BY <1>3, <1>4, <3>2, <4>1, <4>2
      <4>5. V.levels[i].want[g.names[r]] = T.levels[i].want[g.names[r]]
        BY <1>10, <4>3
      <4>6. V.levels[i].dbs[r] = T.levels[i].dbs[r]
        BY <1>b, <1>c, <1>2, <4>1 DEF Alike
      <4> QED BY <1>c, <4>2, <4>3, <4>4, <4>5, <4>6
    <3>4. StaleOK(V, i, h)
      <4> SUFFICES ASSUME NEW r \in Dbis, Has(V.levels[i], "VALID", r), Has(V.levels[i], "STALE", r),
                          V.seqs[r] = h.seqs[r], ~NewAbove(V, i, r)
                   PROVE  /\ h.names[r] # NoName
                          /\ V.levels[i].main[h.names[r]] = V.levels[i].want[h.names[r]]
                          /\ V.levels[i].want[h.names[r]] # Absent
        BY DEF StaleOK
      <4>1. r # s /\ T.seqs[r] = g.seqs[r]
        BY <1>a, <1>c, <2>3
      <4>2. Has(T.levels[i], "VALID", r) /\ Has(T.levels[i], "STALE", r)
        BY <1>3, <4>1
      <4>3. ~NewAbove(T, i, r)
        <5>1. \A j \in (i + 1)..n : Has(V.levels[j], "NEW", r) <=> Has(T.levels[j], "NEW", r)
          BY <1>3, <3>2, <4>1
        <5> QED BY <1>c, <1>1, <5>1 DEF NewAbove
      <4>4. /\ g.names[r] # NoName
            /\ T.levels[i].main[g.names[r]] = T.levels[i].want[g.names[r]]
            /\ T.levels[i].want[g.names[r]] # Absent
        BY <3>1, <4>1, <4>2, <4>3 DEF StaleOK
      <4>5. g.names[r] \in Names /\ g.names[r] # m /\ h.names[r] = g.names[r]
        BY <1>11, <4>1, <4>4
      <4>6. /\ V.levels[i].want[g.names[r]] = T.levels[i].want[g.names[r]]
            /\ V.levels[i].main[g.names[r]] = T.levels[i].main[g.names[r]]
        BY <1>10, <4>5
      <4> QED BY <4>4, <4>5, <4>6
    <3>5. RecordsOK(V, i, h)
      <4> SUFFICES ASSUME NEW a \in Names, V.levels[i].main[a] # V.levels[i].want[a]
                   PROVE  \E r \in Dbis : Has(V.levels[i], "DIRTY", r) /\ h.names[r] = a
        BY DEF RecordsOK
      <4>1. T.levels[i].main[a] # T.levels[i].want[a] /\ (a = m => i # n)
        BY <1>b, <1>c, <1>2, <1>10, SMTT(40) DEF Alike
      <4>2. PICK r \in Dbis : Has(T.levels[i], "DIRTY", r) /\ g.names[r] = a
        BY <3>1, <4>1 DEF RecordsOK
      <4>3. r # s
        <5> SUFFICES ASSUME r = s PROVE FALSE
          OBVIOUS
        <5>1. Known(T.levels[i], s)
          BY <1>1, <4>2 DEF TxnOK, Shape, FlagsOK
        <5>2. i = n
          BY <1>d, <1>2, <5>1
        <5> QED BY <4>1, <4>2, <5>2
      <4>4. h.names[r] = a
        BY <1>a, <4>2, <4>3
      <4> QED BY <1>3, <4>2, <4>3, <4>4
    <3>6. OpenOK(V, i, h)
      <4> SUFFICES ASSUME NEW r \in h.open
                   PROVE  /\ Has(V.levels[i], "VALID", r) => V.seqs[r] = h.seqs[r]
                          /\ V.levels[i].want[h.names[r]] # Absent
        BY <1>c DEF OpenOK
      <4>1. r \in g.open /\ r \in Dbis /\ r # s /\ g.names[r] # NoName
        BY <1>a DEF Tables, TableOK
      <4>2. g.names[r] \in Names /\ g.names[r] # m /\ h.names[r] = g.names[r] /\ h.seqs[r] = g.seqs[r]
        BY <1>11, <4>1
      <4>3. V.levels[i].want[g.names[r]] = T.levels[i].want[g.names[r]]
        BY <1>10, <4>2
      <4>4. Has(V.levels[i], "VALID", r) => Has(T.levels[i], "VALID", r)
        BY <1>3, <4>1
      <4> QED BY <1>c, <3>1, <4>1, <4>2, <4>3, <4>4 DEF OpenOK
    <3> QED BY <3>3, <3>4, <3>5, <3>6 DEF LevelOK
  <2> QED BY <1>c, <2>1, <2>4, <2>5 DEF RwOK
<1>20. ASSUME NEW r \in Dbis \ {s} PROVE NewIn(V, r) <=> NewIn(T, r)
  <2>1. \A i \in 1..n : Has(V.levels[i], "NEW", r) <=> Has(T.levels[i], "NEW", r)
    BY <1>3
  <2> QED BY <1>c, <1>1, <2>1 DEF NewIn
<1> QED BY <1>c, <1>13, <1>14, <1>16, <1>17, <1>18, <1>19, <1>20 DEF TxnOK

-----------------------------------------------------------------------------
(* The steps. *)

\* What the invariant says of the transaction of a thread.
LEMMA TxnAt ==
    ASSUME IInv, NEW t \in Threads
    PROVE  /\ txn[t] # NoTxn => txn[t] \in Txn /\ TxnOK(txn[t], Shared)
           /\ txn[t].opened \in BOOLEAN /\ txn[t].overlap \in BOOLEAN
           /\ txn[t].opened => txn[t] # NoTxn
           /\ txn[t].pc # "none" => txn[t] # NoTxn
           /\ \A s \in Dbis : NewIn(txn[t], s) => txn[t].opened
           /\ txn[t].kind \in {"none", "ro", "rw"} /\ (txn[t].kind = "none" <=> txn[t] = NoTxn)
<1>1. txn[t] \in Txn \cup {NoTxn}
  BY DEF IInv, TypeInv
<1>2. PICK T : T = txn[t]
  OBVIOUS
<1>3. CASE T = NoTxn
  <2>1. \A s \in Dbis : ~NewIn(T, s)
    BY <1>3, NoTxnIs DEF NewIn
  <2> QED BY <1>2, <1>3, <2>1, NoTxnIs
<1>4. CASE T # NoTxn
  <2>1. T \in Txn /\ TxnOK(T, Shared)
    BY <1>1, <1>2, <1>4 DEF IInv, TxnsInv
  <2>2. \A s \in Dbis : NewIn(T, s) => T.opened
    BY <2>1 DEF TxnOK, Unused, NewIn
  <2>3. T.opened \in BOOLEAN /\ T.overlap \in BOOLEAN /\ T.kind \in {"ro", "rw"}
    BY <2>1, TxnType
  <2> QED BY <1>2, <1>4, <2>1, <2>2, <2>3
<1> QED BY <1>3, <1>4

\* A thread without a transaction has a kind that is none.
LEMMA KindNone ==
    ASSUME IInv, NEW t \in Threads, txn[t] # NoTxn
    PROVE  txn[t] \in Txn /\ TxnOK(txn[t], Shared) /\ txn[t].kind \in {"ro", "rw"} /\ N(txn[t]) \in Nat
           /\ N(txn[t]) >= 1 /\ txn[t].levels # <<>> /\ txn[t].levels \in Seq(Level)
<1>1. PICK T \in Txn : T = txn[t] /\ TxnOK(T, Shared)
  BY TxnAt
<1>2. T.kind \in {"ro", "rw"} /\ N(T) \in Nat /\ N(T) >= 1 /\ T.levels \in Seq(Level)
  BY <1>1, TxnType DEF TxnOK, Shape
<1>3. T.levels # <<>>
  BY <1>2 DEF N
<1> QED BY <1>1, <1>2, <1>3

\* The parts of what the transactions share.
LEMMA SharedIs ==
    /\ Shared.names = names /\ Shared.open = {s \in Dbis : valid[s]} /\ Shared.seqs = seqs
    /\ Shared.numdbs = numdbs /\ Shared.main = main /\ Shared.held = held
BY DEF Shared

\* The same after a step.
LEMMA SharedNext ==
    /\ Shared'.names = names' /\ Shared'.open = {s \in Dbis : valid'[s]} /\ Shared'.seqs = seqs'
    /\ Shared'.numdbs = numdbs' /\ Shared'.main = main' /\ Shared'.held = held'
BY DEF Shared

\* A step of a transaction that is of no account to the others.
LEMMA OwnStep ==
    ASSUME IInv, NEW t \in Threads, txn[t] # NoTxn, NEW V \in Txn, txn' = [txn EXCEPT ![t] = V],
           V.kind = txn[t].kind, V.opened = txn[t].opened, V.overlap = txn[t].overlap,
           TxnOK(V, Shared), \A s \in Dbis : NewIn(V, s) <=> NewIn(txn[t], s),
           call[t] # NoCall => N(V) = 1,
           UNCHANGED <<names, valid, seqs, numdbs, main, wmutex, dbimutex, call, held, saved>>
    PROVE  IInv'
<1>1. /\ txn \in [Threads -> Txn \cup {NoTxn}] /\ txn' \in [Threads -> Txn \cup {NoTxn}]
      /\ txn'[t] = V /\ \A u \in Threads : u # t => txn'[u] = txn[u]
  BY DEF IInv, TypeInv
<1>2. V # NoTxn
  BY NoTxnIs
<1>3. /\ \A u \in Threads : /\ txn'[u].kind = txn[u].kind /\ txn'[u].opened = txn[u].opened
                            /\ txn'[u].overlap = txn[u].overlap
                            /\ txn'[u] # NoTxn <=> txn[u] # NoTxn
                            /\ \A s \in Dbis : NewIn(txn'[u], s) <=> NewIn(txn[u], s)
  BY <1>1, <1>2
<1>4. TypeInv'
  BY <1>1 DEF IInv, TypeInv
<1>5. Shared' = Shared
  BY DEF Shared
<1>6. TableInv'
  <2>1. \A s \in Dbis : names[s] # NoName => valid[s] \/ \E u \in Threads : NewIn(txn[u], s)
    BY DEF IInv, TableInv, NamedInv
  <2>2. \A s \in Dbis : names[s] # NoName => valid[s] \/ \E u \in Threads : NewIn(txn'[u], s)
    BY <1>3, <2>1
  <2>3. NamedInv'
    BY <2>2 DEF NamedInv
  <2>4. TableOK(Shared) /\ main = saved
    BY DEF IInv, TableInv
  <2> QED BY <1>5, <2>3, <2>4 DEF TableInv
<1>7. TxnsInv'
  <2>1. \A u \in Threads : txn'[u] # NoTxn => TxnOK(txn'[u], Shared)
    BY <1>1 DEF IInv, TxnsInv
  <2> QED BY <1>5, <2>1 DEF TxnsInv
<1>8. SoleInv'
  <2>1. /\ \A a, u \in Threads : txn[a].opened /\ txn[u].opened => a = u
        /\ \A a, u \in Threads : call[a] # NoCall /\ txn[u].opened => a = u
        /\ \A a, u \in Threads : txn[a].opened /\ u # a /\ txn[u] # NoTxn => txn[u].overlap
    BY DEF IInv, SoleInv
  <2>2. /\ \A a, u \in Threads : txn'[a].opened /\ txn'[u].opened => a = u
        /\ \A a, u \in Threads : call[a] # NoCall /\ txn'[u].opened => a = u
        /\ \A a, u \in Threads : txn'[a].opened /\ u # a /\ txn'[u] # NoTxn => txn'[u].overlap
    BY <1>3, <2>1
  <2> QED BY <2>2 DEF SoleInv
<1>9. MutexInv'
  <2>1. /\ \A u \in Threads : txn[u].kind = "rw" <=> wmutex = u
        /\ \A u \in Threads : call[u] # NoCall <=> dbimutex = u
        /\ \A u \in Threads : call[u] # NoCall /\ txn[u] # NoTxn =>
              ~txn[u].overlap /\ N(txn[u]) = 1 /\ (txn[u].kind = "rw" <=> call[u].op = "create")
    BY DEF IInv, MutexInv
  <2>2. \A u \in Threads : call[u] # NoCall /\ txn'[u] # NoTxn => N(txn'[u]) = 1
    BY <1>1, <2>1
  <2>3. \A u \in Threads : txn'[u].kind = "rw" <=> wmutex = u
    BY <1>3, <2>1
  <2>4. \A u \in Threads : call[u] # NoCall /\ txn'[u] # NoTxn =>
              ~txn'[u].overlap /\ N(txn'[u]) = 1 /\ (txn'[u].kind = "rw" <=> call[u].op = "create")
    BY <1>3, <2>1, <2>2
  <2> QED BY <2>1, <2>3, <2>4 DEF MutexInv
<1> QED BY <1>4, <1>6, <1>7, <1>8, <1>9 DEF IInv

\* A transaction of t begins.
LEMMA BeginStep ==
    ASSUME IInv, NEW t \in Threads, txn[t] = NoTxn, NEW kind \in {"ro", "rw"}, NEW q,
           kind = "rw" => q = seqs /\ wmutex = Nobody /\ wmutex' = t,
           kind = "ro" => q = <<>> /\ wmutex' = wmutex,
           call[t] # NoCall => (kind = "rw" <=> call[t].op = "create"),
           txn' = [txn EXCEPT ![t] = Begun(kind, q)],
           UNCHANGED <<names, valid, seqs, numdbs, main, dbimutex, call, held, saved>>
    PROVE  IInv'
<1>1. PICK T : T = Begun(kind, q)
  OBVIOUS
<1>2. /\ T \in Txn /\ TxnOK(T, Shared) /\ T.kind = kind /\ T.opened = FALSE /\ N(T) = 1
      /\ T.overlap \in BOOLEAN /\ (T.overlap <=> \E u \in Threads : txn[u].opened)
      /\ \A s \in Dbis : ~NewIn(T, s)
  <2>1. TypeInv /\ TableInv
    BY DEF IInv
  <2> QED BY <1>1, <2>1, BegunOK
<1>3. /\ txn \in [Threads -> Txn \cup {NoTxn}] /\ txn' \in [Threads -> Txn \cup {NoTxn}]
      /\ txn'[t] = T /\ \A u \in Threads : u # t => txn'[u] = txn[u]
  BY <1>1, <1>2 DEF IInv, TypeInv
<1>4. TypeInv'
  <2>1. wmutex' \in Threads \cup {Nobody}
    BY DEF IInv, TypeInv
  <2> QED BY <1>3, <2>1 DEF IInv, TypeInv
<1>5. Shared' = Shared
  BY DEF Shared
<1>6. \A s \in Dbis : ~NewIn(txn[t], s)
  BY NoTxnIs DEF NewIn
<1>7. TableInv'
  <2>1. \A s \in Dbis : names[s] # NoName => valid[s] \/ \E u \in Threads : NewIn(txn[u], s)
    BY DEF IInv, TableInv, NamedInv
  <2>2. \A s \in Dbis : names[s] # NoName => valid[s] \/ \E u \in Threads : NewIn(txn'[u], s)
    BY <1>3, <1>6, <2>1
  <2>3. NamedInv'
    BY <2>2 DEF NamedInv
  <2>4. TableOK(Shared) /\ main = saved
    BY DEF IInv, TableInv
  <2> QED BY <1>5, <2>3, <2>4 DEF TableInv
<1>8. TxnsInv'
  <2>1. \A u \in Threads : txn'[u] # NoTxn => TxnOK(txn'[u], Shared)
    BY <1>2, <1>3 DEF IInv, TxnsInv
  <2> QED BY <1>5, <2>1 DEF TxnsInv
<1>9. /\ \A a, u \in Threads : txn[a].opened /\ txn[u].opened => a = u
      /\ \A a, u \in Threads : call[a] # NoCall /\ txn[u].opened => a = u
      /\ \A a, u \in Threads : txn[a].opened /\ u # a /\ txn[u] # NoTxn => txn[u].overlap
  BY DEF IInv, SoleInv
<1>10. \A u \in Threads : txn'[u].opened => u # t /\ txn[u].opened
  BY <1>2, <1>3
<1>11. SoleInv'
  <2>1. /\ \A a, u \in Threads : txn'[a].opened /\ txn'[u].opened => a = u
        /\ \A a, u \in Threads : call[a] # NoCall /\ txn'[u].opened => a = u
    BY <1>9, <1>10
  <2>2. \A a, u \in Threads : txn'[a].opened /\ u # a /\ txn'[u] # NoTxn => txn'[u].overlap
    <3> SUFFICES ASSUME NEW a \in Threads, NEW u \in Threads, txn'[a].opened, u # a, txn'[u] # NoTxn
                 PROVE  txn'[u].overlap
      OBVIOUS
    <3>1. CASE u = t
      BY <1>2, <1>3, <1>10, <3>1
    <3>2. CASE u # t
      BY <1>3, <1>9, <1>10, <3>2
    <3> QED BY <3>1, <3>2
  <2> QED BY <2>1, <2>2 DEF SoleInv
<1>12. MutexInv'
  <2>1. /\ \A u \in Threads : txn[u].kind = "rw" <=> wmutex = u
        /\ \A u \in Threads : call[u] # NoCall <=> dbimutex = u
        /\ \A u \in Threads : call[u] # NoCall /\ txn[u] # NoTxn =>
              ~txn[u].overlap /\ N(txn[u]) = 1 /\ (txn[u].kind = "rw" <=> call[u].op = "create")
    BY DEF IInv, MutexInv
  <2>2. t # Nobody /\ txn[t].kind # "rw"
    BY NoTxnIs, DbiAssumption DEF Threads
  <2>3. \A u \in Threads : txn'[u].kind = "rw" <=> wmutex' = u
    <3> TAKE u \in Threads
    <3>1. CASE kind = "ro"
      BY <1>2, <1>3, <2>1, <2>2, <3>1
    <3>2. CASE kind = "rw"
      <4>1. u # Nobody
        BY DbiAssumption DEF Threads
      <4> QED BY <1>2, <1>3, <2>1, <3>2, <4>1
    <3> QED BY <3>1, <3>2
  <2>4. ASSUME NEW u \in Threads, call[u] # NoCall, txn'[u] # NoTxn
        PROVE  ~txn'[u].overlap /\ N(txn'[u]) = 1 /\ (txn'[u].kind = "rw" <=> call[u].op = "create")
    <3>1. CASE u = t
      <4>1. ~T.overlap
        <5>1. \A a \in Threads : ~txn[a].opened
          BY <1>9, <2>4, <3>1, NoTxnIs
        <5> QED BY <1>2, <5>1
      <4> QED BY <1>2, <1>3, <2>4, <3>1, <4>1
    <3>2. CASE u # t
      BY <1>3, <2>1, <2>4, <3>2
    <3> QED BY <3>1, <3>2
  <2>5. \A u \in Threads : call[u] # NoCall /\ txn'[u] # NoTxn =>
              ~txn'[u].overlap /\ N(txn'[u]) = 1 /\ (txn'[u].kind = "rw" <=> call[u].op = "create")
    BY <2>4
  <2> QED BY <2>1, <2>3, <2>5 DEF MutexInv
<1> QED BY <1>4, <1>7, <1>8, <1>11, <1>12 DEF IInv

\* mdb_txn_begin, of a read transaction.
LEMMA BeginRoStep ==
    ASSUME IInv, NEW t \in Threads, BeginRo(t)
    PROVE  IInv'
<1>1. txn[t] = NoTxn /\ txn' = [txn EXCEPT ![t] = Begun("ro", <<>>)]
  BY DEF BeginRo
<1>2. UNCHANGED <<names, valid, seqs, numdbs, main, wmutex, dbimutex, call, held, saved>>
  BY DEF BeginRo
<1>3. call[t] # NoCall => call[t].op = "open"
  BY DEF BeginRo
<1> QED BY <1>1, <1>2, <1>3, BeginStep

\* mdb_txn_begin, of a write transaction: it takes the mutex and copies me_dbiseqs.
LEMMA BeginRwStep ==
    ASSUME IInv, NEW t \in Threads, BeginRw(t)
    PROVE  IInv'
<1>1. txn[t] = NoTxn /\ wmutex = Nobody /\ wmutex' = t /\ txn' = [txn EXCEPT ![t] = Begun("rw", seqs)]
  BY DEF BeginRw
<1>2. UNCHANGED <<names, valid, seqs, numdbs, main, dbimutex, call, held, saved>>
  BY DEF BeginRw
<1>3. call[t] # NoCall => call[t].op = "create"
  BY DEF BeginRw
<1> QED BY <1>1, <1>2, <1>3, BeginStep


\* The last level of a transaction, and the transaction with another one.
LEMMA TopIs ==
    ASSUME IInv, NEW t \in Threads, txn[t] # NoTxn
    PROVE  Top(t) = txn[t].levels[N(txn[t])] /\ Top(t) \in Level /\ N(txn[t]) \in Nat \ {0}
<1>1. txn[t].levels # <<>> /\ txn[t].levels \in Seq(Level)
  BY KindNone
<1>2. PICK L \in Seq(Level) : L = txn[t].levels /\ L # <<>>
  BY <1>1
<1>3. Last(L) = L[Len(L)] /\ Last(L) \in Level /\ Len(L) \in Nat \ {0}
  BY <1>2, LastIs
<1> QED BY <1>2, <1>3 DEF Top, N

Leveled(T, K) == [T EXCEPT !.levels = K]

\* A transaction with other levels.
LEMMA WithLevels ==
    ASSUME NEW T \in Txn, NEW K \in Seq(Level), NEW V, V = Leveled(T, K)
    PROVE  /\ V \in Txn /\ Same(V, T) /\ V.levels = K /\ V.pc = T.pc /\ V.opened = T.opened
           /\ V.kind = T.kind /\ V.overlap = T.overlap
<1>1. V.levels = K /\ V.kind = T.kind /\ V.pc = T.pc /\ V.seqs = T.seqs /\ V.offered = T.offered
  BY DEF Txn, Leveled
<1>2. V.opened = T.opened /\ V.overlap = T.overlap
  BY DEF Txn, Leveled
<1>3. V \in Txn
  BY DEF Txn, Leveled
<1> QED BY <1>1, <1>2, <1>3 DEF Same

\* A transaction with another last level.
LEMMA WithTopIs ==
    ASSUME NEW T \in Txn, T.levels # <<>>, NEW x \in Level, NEW V,
           V = Leveled(T, Tipped(T.levels, x))
    PROVE  /\ V \in Txn /\ Same(V, T) /\ V.pc = T.pc /\ V.opened = T.opened
           /\ V.kind = T.kind /\ V.overlap = T.overlap
           /\ Topped(V, T, x) /\ N(V) = N(T) /\ N(T) \in Nat \ {0}
           /\ V.levels = Tipped(T.levels, x)
<1>1. PICK L \in Seq(Level) : L = T.levels /\ L # <<>>
  BY TxnType
<1>2. PICK K : K = Tipped(L, x)
  OBVIOUS
<1>3. /\ K \in Seq(Level) /\ Len(K) = Len(L) /\ Len(L) \in Nat \ {0}
      /\ K[Len(L)] = x /\ \A i \in 1..(Len(L) - 1) : K[i] = L[i]
  <2>1. TopOf(K, L, x)
    BY <1>1, <1>2, Replaced
  <2> QED BY <2>1 DEF TopOf
<1>4. V = Leveled(T, K)
  BY <1>1, <1>2
<1>5. /\ V \in Txn /\ Same(V, T) /\ V.levels = K /\ V.pc = T.pc /\ V.opened = T.opened
      /\ V.kind = T.kind /\ V.overlap = T.overlap
  BY <1>3, <1>4, WithLevels
<1> QED BY <1>1, <1>2, <1>3, <1>5 DEF Topped, N

\* The second part of mdb_txn_renew0, which copies the number of databases and their flags.
LEMMA BeginFlagsStep ==
    ASSUME IInv, NEW t \in Threads, BeginFlags(t)
    PROVE  IInv'
<1>1. txn[t].pc = "begin" /\ txn[t] # NoTxn
  BY NoTxnIs DEF BeginFlags
<1>2. PICK T \in Txn : T = txn[t] /\ TxnOK(T, Shared) /\ T.levels # <<>>
  BY <1>1, KindNone
<1>3. PICK y \in Level : y = Top(t) /\ y = T.levels[N(T)]
  BY <1>1, <1>2, TopIs
<1>4. PICK x : x = [y EXCEPT !.numdbs = numdbs,
                        !.flags = [s \in Dbis |-> IF s <= numdbs /\ valid[s]
                                                  THEN {"VALID", "STALE"} ELSE {}]]
  OBVIOUS
<1>5. x \in Level
  <2>1. [s \in Dbis |-> IF s <= numdbs /\ valid[s] THEN {"VALID", "STALE"} ELSE {}]
        \in [Dbis -> SUBSET FlagNames]
    BY DEF FlagNames
  <2>2. numdbs \in 0..MaxDbs
    BY DEF IInv, TypeInv
  <2> QED BY <1>4, <2>1, <2>2 DEF Level
<1>6. PICK W : W = Leveled(T, Tipped(T.levels, x))
  OBVIOUS
<1>7. /\ W \in Txn /\ Same(W, T) /\ W.opened = T.opened /\ W.kind = T.kind /\ W.overlap = T.overlap
      /\ Topped(W, T, x) /\ N(W) = N(T) /\ N(T) \in Nat \ {0}
  BY <1>2, <1>5, <1>6, WithTopIs
<1>8. PICK V : V = [W EXCEPT !.pc = "live"]
  OBVIOUS
<1>9. txn' = [txn EXCEPT ![t] = V]
  BY <1>2, <1>3, <1>4, <1>6, <1>8 DEF BeginFlags, WithTop, Leveled, Tipped
<1>10. V \in Txn /\ V.levels = W.levels /\ V.kind = W.kind /\ V.seqs = W.seqs /\ V.offered = W.offered /\ V.pc = "live"
  BY <1>7, <1>8 DEF Txn
<1>11. V.opened = W.opened /\ V.overlap = W.overlap
  BY <1>7, <1>8 DEF Txn
<1>12. Same(V, T)
  BY <1>7, <1>10, <1>11 DEF Same
<1>13. N(T) = 1
  BY <1>1, <1>2 DEF TxnOK, Shape
<1>14. V.levels = <<x>>
  <2>1. V.levels \in Seq(Level) /\ Len(V.levels) = 1 /\ V.levels[1] = x
    BY <1>7, <1>10, <1>13, TxnType DEF Topped, N
  <2> QED BY <2>1
<1>15. PICK g \in Tables : g = Shared /\ TableOK(g)
  BY SharedType DEF IInv, TableInv
<1>16. x = [T.levels[1] EXCEPT !.numdbs = g.numdbs,
                   !.flags = [s \in Dbis |-> IF s <= g.numdbs /\ s \in g.open
                                             THEN {"VALID", "STALE"} ELSE {}]]
  <2>1. [s \in Dbis |-> IF s <= numdbs /\ valid[s] THEN {"VALID", "STALE"} ELSE {}] =
        [s \in Dbis |-> IF s <= g.numdbs /\ s \in g.open THEN {"VALID", "STALE"} ELSE {}]
    BY <1>15, SharedIs
  <2>2. numdbs = g.numdbs /\ y = T.levels[1]
    BY <1>3, <1>13, <1>15, SharedIs
  <2> QED BY <1>4, <2>1, <2>2
<1>17. V.opened = T.opened /\ T.pc = "begin" /\ TxnOK(T, g)
  BY <1>1, <1>2, <1>7, <1>11, <1>15
<1>18. TxnOK(V, g) /\ N(V) = 1 /\ \A s \in Dbis : ~NewIn(V, s)
  BY <1>10, <1>12, <1>14, <1>15, <1>16, <1>17, FlagsRead
<1>19. \A s \in Dbis : ~NewIn(T, s)
  BY <1>1, <1>2 DEF TxnOK, Shape, Unused, NewIn
<1>20. UNCHANGED <<names, valid, seqs, numdbs, main, wmutex, dbimutex, call, held, saved>>
  BY DEF BeginFlags
<1>21. /\ V.kind = txn[t].kind /\ V.opened = txn[t].opened /\ V.overlap = txn[t].overlap
       /\ TxnOK(V, Shared) /\ \A s \in Dbis : NewIn(V, s) <=> NewIn(txn[t], s)
  BY <1>2, <1>7, <1>10, <1>11, <1>15, <1>18, <1>19
<1> QED BY <1>1, <1>9, <1>10, <1>18, <1>20, <1>21, OwnStep

\* mdb_txn_begin, of a nested transaction.
LEMMA BeginNestedStep ==
    ASSUME IInv, NEW t \in Threads, BeginNested(t)
    PROVE  IInv'
<1>1. txn[t].pc = "live" /\ txn[t] # NoTxn /\ txn[t].kind = "rw" /\ call[t] = NoCall
  BY NoTxnIs DEF BeginNested, Live
<1>2. PICK T \in Txn : T = txn[t] /\ TxnOK(T, Shared) /\ T.levels # <<>> /\ T.levels \in Seq(Level)
  BY <1>1, KindNone
<1>3. PICK y \in Level : y = Top(t) /\ y = T.levels[N(T)] /\ N(T) \in Nat \ {0}
  BY <1>1, <1>2, TopIs
<1>4. PICK x : x = [y EXCEPT !.flags = [s \in Dbis |-> ChildFlags(y.flags[s])], !.mine = {}]
  OBVIOUS
<1>5. x \in Level
  <2>1. [s \in Dbis |-> ChildFlags(y.flags[s])] \in [Dbis -> SUBSET FlagNames]
    BY LevelType DEF ChildFlags
  <2> QED BY <1>4, <2>1 DEF Level
<1>6. /\ x.numdbs = y.numdbs /\ x.dbs = y.dbs /\ x.main = y.main /\ x.want = y.want /\ x.mine = {}
      /\ \A s \in Dbis : x.flags[s] = y.flags[s] \ {"NEW"}
  BY <1>4 DEF Level, ChildFlags
<1>7. PICK K : K = Append(T.levels, x)
  OBVIOUS
<1>8. K \in Seq(Level) /\ Len(K) = N(T) + 1 /\ K[N(T) + 1] = x /\ \A i \in 1..N(T) : K[i] = T.levels[i]
  BY <1>2, <1>5, <1>7 DEF N
<1>9. PICK V : V = Leveled(T, K)
  OBVIOUS
<1>10. /\ V \in Txn /\ Same(V, T) /\ V.levels = K /\ V.pc = T.pc /\ V.opened = T.opened
       /\ V.kind = T.kind /\ V.overlap = T.overlap
  BY <1>8, <1>9, WithLevels
<1>11. txn' = [txn EXCEPT ![t] = V]
  <2>1. txn' = [txn EXCEPT ![t].levels = Append(@, x)]
    BY <1>3, <1>4 DEF BeginNested
  <2> QED BY <1>2, <1>7, <1>9, <2>1 DEF Leveled
<1>12. PICK g \in Tables : g = Shared
  BY SharedType DEF IInv
<1>13. N(V) = N(T) + 1 /\ V.levels[N(T) + 1] = x /\ \A i \in 1..N(T) : V.levels[i] = T.levels[i]
  BY <1>8, <1>10 DEF N
<1>14. TxnOK(V, g) /\ \A s \in Dbis : NewIn(V, s) <=> NewIn(T, s)
  <2>1. T.kind = "rw" /\ T.pc = "live" /\ TxnOK(T, g)
    BY <1>1, <1>2, <1>12
  <2> QED BY <1>3, <1>6, <1>10, <1>12, <1>13, <2>1, NestedOK
<1>15. UNCHANGED <<names, valid, seqs, numdbs, main, wmutex, dbimutex, call, held, saved>>
  BY DEF BeginNested
<1>16. /\ V.kind = txn[t].kind /\ V.opened = txn[t].opened /\ V.overlap = txn[t].overlap
       /\ TxnOK(V, Shared) /\ \A s \in Dbis : NewIn(V, s) <=> NewIn(txn[t], s)
  BY <1>2, <1>10, <1>12, <1>14
<1> QED BY <1>1, <1>10, <1>11, <1>15, <1>16, OwnStep

\* mdb_txn_commit, of a nested transaction.
LEMMA CommitNestedStep ==
    ASSUME IInv, NEW t \in Threads, CommitNested(t)
    PROVE  IInv'
<1>1. txn[t].pc = "live" /\ txn[t] # NoTxn /\ Len(txn[t].levels) > 1
  BY NoTxnIs DEF CommitNested, Live
<1>2. PICK T \in Txn : T = txn[t] /\ TxnOK(T, Shared) /\ T.levels # <<>> /\ T.levels \in Seq(Level)
  BY <1>1, KindNone
<1>3. PICK n : n = N(T) /\ n \in Nat /\ n > 1 /\ n # 1 /\ n - 1 \in 1..n /\ n \in 1..n
  BY <1>1, <1>2 DEF N
<1>4. PICK x \in Level : x = Top(t) /\ x = T.levels[n]
  BY <1>1, <1>2, <1>3, TopIs
<1>5. PICK p \in Level : p = T.levels[n - 1]
  BY <1>3, TxnType
<1>6. PICK z : z = [p EXCEPT !.flags = [s \in Dbis |-> IF s <= x.numdbs
                                                      THEN MergedFlags(p.flags[s], x.flags[s])
                                                      ELSE p.flags[s]],
                            !.dbs = x.dbs, !.numdbs = x.numdbs, !.main = x.main,
                            !.want = x.want, !.mine = p.mine \cup x.mine]
  OBVIOUS
<1>7. z \in Level
  <2>1. [s \in Dbis |-> IF s <= x.numdbs THEN MergedFlags(p.flags[s], x.flags[s]) ELSE p.flags[s]]
        \in [Dbis -> SUBSET FlagNames]
    BY LevelType DEF MergedFlags
  <2>2. p.mine \cup x.mine \in SUBSET Pairs
    BY LevelType
  <2> QED BY <1>6, <2>1, <2>2, LevelType DEF Level
<1>8. /\ z.numdbs = x.numdbs /\ z.dbs = x.dbs /\ z.main = x.main /\ z.want = x.want
      /\ z.mine = p.mine \cup x.mine
  BY <1>6 DEF Level
<1>9. \A r \in Dbis : z.flags[r] = IF r <= x.numdbs THEN x.flags[r] \cup (p.flags[r] \cap {"NEW"})
                                        ELSE p.flags[r]
  BY <1>6 DEF Level, MergedFlags
<1>10. PICK F : F = Front(T.levels)
  OBVIOUS
<1>11. F \in Seq(Level) /\ Len(F) = n - 1 /\ F # <<>> /\ \A i \in 1..(n - 1) : F[i] = T.levels[i]
  <2>1. F \in Seq(Level) /\ Len(F) = n - 1 /\ \A i \in 1..(n - 1) : F[i] = T.levels[i]
    BY <1>2, <1>3, <1>10, TakenAway DEF N
  <2> QED BY <1>3, <2>1
<1>12. PICK K : K = Tipped(F, z)
  OBVIOUS
<1>13. K \in Seq(Level) /\ Len(K) = n - 1 /\ K[n - 1] = z /\ \A i \in 1..(n - 2) : K[i] = T.levels[i]
  <2>1. /\ K \in Seq(Level) /\ Len(K) = Len(F) /\ K[Len(F)] = z
        /\ \A i \in 1..(Len(F) - 1) : K[i] = F[i]
    <3>1. TopOf(K, F, z)
      BY <1>7, <1>11, <1>12, Replaced
    <3> QED BY <3>1 DEF TopOf
  <2>2. (n - 1) - 1 = n - 2 /\ \A i \in 1..(n - 2) : i \in 1..(n - 1)
    BY <1>3
  <2> QED BY <1>11, <2>1, <2>2
<1>14. PICK V : V = Leveled(T, K)
  OBVIOUS
<1>15. /\ V \in Txn /\ Same(V, T) /\ V.levels = K /\ V.pc = T.pc /\ V.opened = T.opened
       /\ V.kind = T.kind /\ V.overlap = T.overlap
  BY <1>13, <1>14, WithLevels
<1>16. txn' = [txn EXCEPT ![t] = V]
  <2>1. p = txn[t].levels[Len(txn[t].levels) - 1]
    BY <1>2, <1>3, <1>5 DEF N
  <2>2. z = [p EXCEPT !.flags = [s \in Dbis |-> IF s <= Top(t).numdbs
                                                THEN MergedFlags(p.flags[s], Top(t).flags[s])
                                                ELSE p.flags[s]],
                      !.dbs = Top(t).dbs, !.numdbs = Top(t).numdbs, !.main = Top(t).main,
                      !.want = Top(t).want, !.mine = @ \cup Top(t).mine]
    BY <1>4, <1>6
  <2>3. txn' = [txn EXCEPT ![t].levels = Append(Front(Front(txn[t].levels)), z)]
    BY <2>1, <2>2 DEF CommitNested
  <2> QED BY <1>2, <1>10, <1>12, <1>14, <2>3 DEF Leveled, Tipped
<1>17. PICK g \in Tables : g = Shared
  BY SharedType DEF IInv
<1>18. T.kind = "rw" /\ T.pc = "live" /\ TxnOK(T, g)
  BY <1>1, <1>2, <1>3, <1>17, TxnType DEF TxnOK, RoOK
<1>19. N(V) = n - 1 /\ V.levels[n - 1] = z /\ \A i \in 1..(n - 2) : V.levels[i] = T.levels[i]
  BY <1>13, <1>15 DEF N
<1>20. TxnOK(V, g) /\ \A r \in Dbis : NewIn(V, r) <=> NewIn(T, r)
  <2>1. TxnOK(T, g) /\ T.kind = "rw" /\ T.pc = "live" /\ n = N(T) /\ n # 1
    BY <1>3, <1>18
  <2>2. x = T.levels[n] /\ p = T.levels[n - 1]
    BY <1>4, <1>5
  <2>3. Same(V, T) /\ V.pc = T.pc /\ V.opened = T.opened
    BY <1>15
  <2>4. Merged(z, x, p)
    BY <1>8, <1>9 DEF Merged
  <2>5. Lowered(V, T, z)
    BY <1>3, <1>19 DEF Lowered
  <2> QED BY <1>7, <2>1, <2>2, <2>3, <2>4, <2>5, MergedOK
<1>21. call[t] = NoCall
  BY <1>1, <1>2, <1>3 DEF IInv, MutexInv
<1>22. UNCHANGED <<names, valid, seqs, numdbs, main, wmutex, dbimutex, call, held, saved>>
  BY DEF CommitNested
<1>23. /\ V.kind = txn[t].kind /\ V.opened = txn[t].opened /\ V.overlap = txn[t].overlap
       /\ TxnOK(V, Shared) /\ \A s \in Dbis : NewIn(V, s) <=> NewIn(txn[t], s)
  BY <1>2, <1>15, <1>17, <1>20
<1> QED BY <1>1, <1>15, <1>16, <1>21, <1>22, <1>23, OwnStep

\* The handles that a thread may use are those of a number that has their name.
LEMMA HandlesAre ==
    ASSUME IInv, NEW t \in Threads, NEW h \in Handles(t)
    PROVE  /\ h[1] \in Dbis /\ h[2] \in Names /\ h = <<h[1], h[2]>> /\ names[h[1]] = h[2]
           /\ h[1] \in Shared.open \/ NewIn(txn[t], h[1])
<1>1. CASE h \in held
  <2>1. h \in Pairs
    BY <1>1 DEF IInv, TypeInv
  <2>2. h[1] \in Shared.open /\ Shared.names[h[1]] = h[2]
    BY <1>1, SharedIs DEF IInv, TableInv, TableOK
  <2> QED BY <2>1, <2>2, SharedIs DEF Pairs
<1>2. CASE h \notin held
  <2>1. PICK i \in DOMAIN txn[t].levels : h \in txn[t].levels[i].mine
    BY <1>2 DEF Handles
  <2>2. txn[t] # NoTxn
    BY <2>1, NoTxnIs
  <2>3. PICK T \in Txn : T = txn[t] /\ TxnOK(T, Shared) /\ T.levels \in Seq(Level)
    BY <2>2, KindNone
  <2>4. i \in 1..N(T) /\ T.levels[i] \in Level /\ h \in T.levels[i].mine
    BY <2>1, <2>3 DEF N
  <2>5. h \in Pairs
    BY <2>4, LevelType
  <2>6. MineOK(T, Shared)
    BY <2>3 DEF TxnOK
  <2>7. Shared.names[h[1]] = h[2] /\ (h[1] \in Shared.open \/ NewBelow(T, i, h[1]))
    BY <2>4, <2>6 DEF MineOK
  <2>8. NewBelow(T, i, h[1]) => NewIn(T, h[1])
    BY <2>4, TxnType DEF NewBelow, NewIn
  <2> QED BY <2>3, <2>5, <2>7, <2>8, SharedIs DEF Pairs
<1> QED BY <1>1, <1>2

\* The record is read from the main database if it has to be.
LEMMA FreshIs ==
    ASSUME NEW y \in Level, NEW s \in Dbis, names[s] \in Names, NEW x, x = Fresh(y, s)
    PROVE  /\ x \in Level /\ x.numdbs = y.numdbs /\ x.mine = y.mine /\ x.main = y.main /\ x.want = y.want
           /\ x.flags[s] = y.flags[s] \ {"STALE"}
           /\ x.dbs[s] = IF Has(y, "STALE", s) THEN y.main[names[s]] ELSE y.dbs[s]
           /\ \A r \in Dbis \ {s} : x.flags[r] = y.flags[r] /\ x.dbs[r] = y.dbs[r]
<1>1. /\ y.flags \in [Dbis -> SUBSET FlagNames] /\ y.dbs \in [Dbis -> Contents] /\ y.main \in View
  BY LevelType
<1>2. CASE ~Has(y, "STALE", s)
  <2>1. x = y
    BY <1>2 DEF Fresh, Stale, Has
  <2>2. y.flags[s] = y.flags[s] \ {"STALE"}
    BY <1>2 DEF Has
  <2> QED BY <1>2, <2>1, <2>2
<1>3. CASE Has(y, "STALE", s)
  <2>1. PICK f : f = [y.flags EXCEPT ![s] = @ \ {"STALE"}]
    OBVIOUS
  <2>2. PICK d : d = [y.dbs EXCEPT ![s] = y.main[names[s]]]
    OBVIOUS
  <2>3. x = [y EXCEPT !.flags = f, !.dbs = d]
    BY <1>3, <2>1, <2>2 DEF Fresh, Stale, Has
  <2>4. y.main[names[s]] \in Contents
    BY <1>1 DEF View
  <2>5. f \in [Dbis -> SUBSET FlagNames] /\ f[s] = y.flags[s] \ {"STALE"} /\ \A r \in Dbis \ {s} : f[r] = y.flags[r]
    BY <1>1, <2>1
  <2>6. d \in [Dbis -> Contents] /\ d[s] = y.main[names[s]] /\ \A r \in Dbis \ {s} : d[r] = y.dbs[r]
    BY <1>1, <2>2, <2>4
  <2>7. x \in Level /\ x.numdbs = y.numdbs /\ x.mine = y.mine /\ x.main = y.main /\ x.want = y.want
    BY <2>3, <2>5, <2>6 DEF Level
  <2>8. x.flags = f /\ x.dbs = d
    BY <2>3 DEF Level
  <2> QED BY <1>3, <2>5, <2>6, <2>7, <2>8
<1> QED BY <1>2, <1>3

\* What a transaction reads is what the application expects.
LEMMA ReadableOK ==
    ASSUME IInv, NEW t \in Threads, NEW h \in Handles(t), InUse(t, h[1]), Readable(t, h[1]),
           NEW x, x = Fresh(Top(t), h[1])
    PROVE  /\ txn[t] # NoTxn /\ x \in Level /\ Recorded(x, Top(t), h[1], h[2]) /\ x.want = Top(t).want
           /\ Has(Top(t), "VALID", h[1])
           /\ txn[t].kind = "ro" => h[1] \in Shared.open \/ Has(Top(t), "NEW", h[1])
<1>1. PICK s \in Dbis, m \in Names : s = h[1] /\ m = h[2] /\ names[s] = m /\ (s \in Shared.open \/ NewIn(txn[t], s))
  BY HandlesAre
<1>2. txn[t].pc = "live" /\ txn[t] # NoTxn
  BY NoTxnIs DEF InUse, Live
<1>3. PICK g \in Tables : g = Shared /\ TableOK(g) /\ g.names[s] = m
  BY <1>1, SharedType, SharedIs DEF IInv, TableInv
<1>4. PICK T \in Txn : T = txn[t] /\ TxnOK(T, g) /\ T.kind \in {"ro", "rw"}
  BY <1>2, <1>3, KindNone
<1>5. PICK n : n = N(T) /\ n \in Nat /\ n >= 1 /\ n \in 1..n
  BY <1>4, TxnType DEF TxnOK, Shape
<1>6. PICK y \in Level : y = Top(t) /\ y = T.levels[n]
  BY <1>2, <1>4, <1>5, TopIs
<1>7. Has(y, "VALID", s)
  BY <1>1, <1>6 DEF InUse, Exist, Has
<1>8. Has(y, "STALE", s) => ~Changed(t, s) /\ y.main[m] # Absent
  BY <1>1, <1>6 DEF Readable, Stale, Has
<1>9. /\ x \in Level /\ x.numdbs = y.numdbs /\ x.mine = y.mine /\ x.main = y.main /\ x.want = y.want
      /\ x.flags[s] = y.flags[s] \ {"STALE"}
      /\ x.dbs[s] = IF Has(y, "STALE", s) THEN y.main[m] ELSE y.dbs[s]
      /\ \A r \in Dbis \ {s} : x.flags[r] = y.flags[r] /\ x.dbs[r] = y.dbs[r]
  BY <1>1, <1>6, FreshIs
<1>10. Known(x, s) /\ (Has(x, "NEW", s) <=> Has(y, "NEW", s)) /\ (Has(x, "DIRTY", s) <=> Has(y, "DIRTY", s))
  BY <1>7, <1>9 DEF Known, Has
<1>11. x.dbs[s] = y.want[m] /\ y.want[m] # Absent
  <2>1. CASE T.kind = "rw" /\ Has(y, "STALE", s)
    <3>1. StaleOK(T, n, g)
      BY <1>4, <1>5, <2>1 DEF TxnOK, RwOK, LevelOK
    <3>2. T.seqs[s] = g.seqs[s]
      BY <1>3, <1>4, <1>8, <2>1, SharedIs DEF Changed
    <3>3. ~NewAbove(T, n, s)
      BY <1>5 DEF NewAbove
    <3> QED BY <1>3, <1>6, <1>7, <1>9, <2>1, <3>1, <3>2, <3>3 DEF StaleOK
  <2>2. CASE T.kind = "rw" /\ ~Has(y, "STALE", s)
    <3>1. KnownOK(T, n, g)
      BY <1>4, <1>5, <2>2 DEF TxnOK, RwOK, LevelOK
    <3> QED BY <1>3, <1>6, <1>7, <1>9, <2>2, <3>1 DEF KnownOK, Known
  <2>3. CASE T.kind = "ro"
    <3>1. RoOK(T, g) /\ n = 1 /\ y.main = y.want
      BY <1>4, <1>5, <1>6, <2>3 DEF TxnOK, RoOK
    <3>2. CASE Has(y, "STALE", s)
      BY <1>8, <1>9, <3>1, <3>2
    <3>3. CASE ~Has(y, "STALE", s)
      <4>1. Known(y, s)
        BY <1>7, <3>3 DEF Known
      <4>2. y.dbs[s] = y.want[m] /\ y.dbs[s] # Absent
        BY <1>3, <1>5, <1>6, <3>1, <4>1 DEF RoOK
      <4> QED BY <1>9, <3>3, <4>2
    <3> QED BY <3>2, <3>3
  <2> QED BY <1>4, <2>1, <2>2, <2>3
<1>12. Recorded(x, y, s, m)
  BY <1>9, <1>10, <1>11 DEF Recorded
<1>13. T.kind = "ro" => s \in g.open \/ Has(y, "NEW", s)
  <2>1. ASSUME T.kind = "ro" PROVE n = 1
    BY <1>4, <1>5, <2>1 DEF TxnOK, RoOK
  <2> QED BY <1>1, <1>3, <1>4, <1>5, <1>6, <2>1 DEF NewIn
<1> QED BY <1>1, <1>2, <1>3, <1>4, <1>6, <1>7, <1>9, <1>12, <1>13

\* A number that a write transaction may read has not changed hands.
LEMMA UnchangedIs ==
    ASSUME IInv, NEW t \in Threads, txn[t] # NoTxn, txn[t].kind = "rw", NEW s \in Dbis,
           Has(Top(t), "VALID", s), Readable(t, s)
    PROVE  ~Changed(t, s)
<1>1. CASE Has(Top(t), "STALE", s)
  BY <1>1 DEF Readable, Stale, Has
<1>2. CASE ~Has(Top(t), "STALE", s)
  <2>1. PICK T \in Txn : T = txn[t] /\ TxnOK(T, Shared) /\ N(T) \in 1..N(T)
    BY KindNone
  <2>2. Top(t) = T.levels[N(T)]
    BY <2>1, TopIs
  <2>3. KnownOK(T, N(T), Shared)
    BY <2>1 DEF TxnOK, RwOK, LevelOK
  <2> QED BY <1>2, <2>1, <2>2, <2>3, SharedIs DEF KnownOK, Known, Changed
<1> QED BY <1>1, <1>2

\* The transaction has another last level, with the record of the database.
LEMMA RecordStep ==
    ASSUME IInv, NEW t \in Threads, NEW h \in Handles(t), InUse(t, h[1]), NEW x \in Level,
           Recorded(x, Top(t), h[1], h[2]), Has(Top(t), "VALID", h[1]), txn' = [txn EXCEPT ![t] = WithTop(t, x)],
           txn[t].kind = "rw" => ~Changed(t, h[1]),
           txn[t].kind = "ro" => x.want = Top(t).want /\ (h[1] \in Shared.open \/ Has(Top(t), "NEW", h[1])),
           UNCHANGED <<names, valid, seqs, numdbs, main, wmutex, dbimutex, call, held, saved>>
    PROVE  IInv'
<1>1. PICK s \in Dbis, m \in Names : s = h[1] /\ m = h[2] /\ names[s] = m
  BY HandlesAre
<1>2. txn[t].pc = "live" /\ txn[t] # NoTxn /\ call[t] = NoCall
  BY NoTxnIs DEF InUse, Live
<1>3. PICK g \in Tables : g = Shared /\ TableOK(g) /\ g.names[s] = m
  BY <1>1, SharedType, SharedIs DEF IInv, TableInv
<1>4. PICK T \in Txn : T = txn[t] /\ TxnOK(T, g) /\ T.kind \in {"ro", "rw"} /\ T.levels # <<>>
  BY <1>2, <1>3, KindNone
<1>5. PICK y \in Level : y = Top(t) /\ y = T.levels[N(T)]
  BY <1>2, <1>4, TopIs
<1>6. PICK V : V = Leveled(T, Tipped(T.levels, x))
  OBVIOUS
<1>7. txn' = [txn EXCEPT ![t] = V]
  BY <1>4, <1>6 DEF WithTop, Leveled, Tipped
<1>8. /\ V \in Txn /\ Same(V, T) /\ V.pc = T.pc /\ V.opened = T.opened
      /\ V.kind = T.kind /\ V.overlap = T.overlap /\ Topped(V, T, x)
  BY <1>4, <1>6, WithTopIs
<1>9. Recorded(x, y, s, m) /\ Has(y, "VALID", s) /\ T.pc = "live" /\ g.names[s] = m
  BY <1>1, <1>2, <1>3, <1>4, <1>5
<1>10. T.kind = "rw" => T.seqs[s] = g.seqs[s]
  BY <1>1, <1>3, <1>4, SharedIs DEF Changed
<1>11. T.kind = "ro" => x.want = y.want /\ (s \in g.open \/ Has(y, "NEW", s))
  BY <1>1, <1>3, <1>4, <1>5
<1>12. TxnOK(V, g) /\ \A r \in Dbis : NewIn(V, r) <=> NewIn(T, r)
  BY <1>3, <1>4, <1>5, <1>8, <1>9, <1>10, <1>11, RecordOK
<1>13. /\ V.kind = txn[t].kind /\ V.opened = txn[t].opened /\ V.overlap = txn[t].overlap
       /\ TxnOK(V, Shared) /\ \A r \in Dbis : NewIn(V, r) <=> NewIn(txn[t], r)
  BY <1>3, <1>4, <1>8, <1>12
<1> QED BY <1>2, <1>7, <1>8, <1>13, OwnStep

\* mdb_get reads the record of a database that is stale.
LEMMA GetStep ==
    ASSUME IInv, NEW t \in Threads, NEW h \in Handles(t), Get(t, h[1])
    PROVE  IInv'
<1>1. InUse(t, h[1]) /\ Readable(t, h[1]) /\ txn' = [txn EXCEPT ![t] = WithTop(t, Fresh(Top(t), h[1]))]
  BY DEF Get
<1>2. PICK x : x = Fresh(Top(t), h[1])
  OBVIOUS
<1>3. /\ txn[t] # NoTxn /\ x \in Level /\ Recorded(x, Top(t), h[1], h[2]) /\ x.want = Top(t).want
      /\ Has(Top(t), "VALID", h[1])
      /\ txn[t].kind = "ro" => h[1] \in Shared.open \/ Has(Top(t), "NEW", h[1])
  BY <1>1, <1>2, ReadableOK
<1>4. txn' = [txn EXCEPT ![t] = WithTop(t, x)]
  BY <1>1, <1>2
<1>5. txn[t].kind = "rw" => ~Changed(t, h[1])
  BY <1>1, <1>3, HandlesAre, UnchangedIs DEF InUse
<1>6. UNCHANGED <<names, valid, seqs, numdbs, main, wmutex, dbimutex, call, held, saved>>
  BY DEF Get
<1> QED BY <1>1, <1>3, <1>4, <1>5, <1>6, RecordStep

\* mdb_put changes a database.
LEMMA PutStep ==
    ASSUME IInv, NEW t \in Threads, NEW h \in Handles(t), NEW v \in Values \cup {0}, Put(t, h[1], h[2], v)
    PROVE  IInv'
<1>1. PICK s \in Dbis, m \in Names : s = h[1] /\ m = h[2] /\ names[s] = m
  BY HandlesAre
<1>2. PICK w : w = Fresh(Top(t), s)
  OBVIOUS
<1>3. PICK x : x = [w EXCEPT !.flags[s] = @ \cup {"DIRTY"}, !.dbs[s] = v, !.want[m] = v]
  OBVIOUS
<1>4. InUse(t, s) /\ txn[t].kind = "rw" /\ Readable(t, s) /\ txn' = [txn EXCEPT ![t] = WithTop(t, x)]
  BY <1>1, <1>2, <1>3 DEF Put, Writes
<1>5. /\ txn[t] # NoTxn /\ w \in Level /\ Recorded(w, Top(t), s, m) /\ w.want = Top(t).want
      /\ Has(Top(t), "VALID", s)
  BY <1>1, <1>2, <1>4, ReadableOK
<1>6. v \in Contents /\ v # Absent
  BY DbiAssumption DEF Contents
<1>7. /\ x \in Level /\ x.numdbs = w.numdbs /\ x.mine = w.mine /\ x.main = w.main
      /\ x.flags[s] = w.flags[s] \cup {"DIRTY"} /\ x.dbs[s] = v /\ x.want[m] = v
      /\ \A r \in Dbis \ {s} : x.flags[r] = w.flags[r] /\ x.dbs[r] = w.dbs[r]
      /\ \A a \in Names \ {m} : x.want[a] = w.want[a]
  <2>1. PICK f : f = [w.flags EXCEPT ![s] = @ \cup {"DIRTY"}]
    OBVIOUS
  <2>2. PICK d : d = [w.dbs EXCEPT ![s] = v]
    OBVIOUS
  <2>3. PICK e : e = [w.want EXCEPT ![m] = v]
    OBVIOUS
  <2>4. x = [w EXCEPT !.flags = f, !.dbs = d, !.want = e]
    BY <1>3, <2>1, <2>2, <2>3
  <2>5. f \in [Dbis -> SUBSET FlagNames] /\ f[s] = w.flags[s] \cup {"DIRTY"} /\ \A r \in Dbis \ {s} : f[r] = w.flags[r]
    BY <1>5, <2>1, LevelType DEF FlagNames
  <2>6. d \in [Dbis -> Contents] /\ d[s] = v /\ \A r \in Dbis \ {s} : d[r] = w.dbs[r]
    BY <1>5, <1>6, <2>2, LevelType
  <2>7. e \in View /\ e[m] = v /\ \A a \in Names \ {m} : e[a] = w.want[a]
    BY <1>5, <1>6, <2>3, LevelType DEF View
  <2>8. x \in Level /\ x.numdbs = w.numdbs /\ x.mine = w.mine /\ x.main = w.main
    BY <1>5, <2>4, <2>5, <2>6, <2>7 DEF Level
  <2>9. x.flags = f /\ x.dbs = d /\ x.want = e
    BY <1>5, <2>4 DEF Level
  <2> QED BY <2>5, <2>6, <2>7, <2>8, <2>9
<1>8. Known(x, s) /\ (Has(x, "NEW", s) <=> Has(w, "NEW", s)) /\ Has(x, "DIRTY", s)
  BY <1>5, <1>7 DEF Recorded, Known, Has
<1>9. Recorded(x, Top(t), s, m)
  BY <1>5, <1>6, <1>7, <1>8 DEF Recorded
<1>10. txn[t].kind = "rw" => ~Changed(t, s)
  BY <1>1, <1>4, <1>5, UnchangedIs DEF InUse
<1>11. UNCHANGED <<names, valid, seqs, numdbs, main, wmutex, dbimutex, call, held, saved>>
  BY DEF Put
<1> QED BY <1>1, <1>4, <1>5, <1>7, <1>9, <1>10, <1>11, RecordStep

\* A call of Environment::open_db or create_db begins and returns.
LEMMA CallOpenStep ==
    ASSUME IInv, NEW t \in Threads, NEW op \in {"open", "create"}, NEW n \in Names, CallOpen(t, op, n)
    PROVE  IInv'
<1>1. PICK c : c = [op |-> op, name |-> n, done |-> FALSE]
  OBVIOUS
<1>2. c \in Call /\ c # NoCall
  BY <1>1 DEF Call, NoCall
<1>3. /\ txn[t] = NoTxn /\ call[t] = NoCall /\ dbimutex = Nobody /\ dbimutex' = t
      /\ call' = [call EXCEPT ![t] = c] /\ \A u \in Threads : txn[u].opened => call[u] # NoCall
  BY <1>1 DEF CallOpen, MutexFree
<1>4. UNCHANGED <<names, valid, seqs, numdbs, main, wmutex, txn, held, saved>>
  BY DEF CallOpen
<1>5. t # Nobody /\ \A u \in Threads : u # Nobody
  BY DbiAssumption DEF Threads
<1>6. /\ call \in [Threads -> Call \cup {NoCall}] /\ call'[t] = c
      /\ \A u \in Threads : u # t => call'[u] = call[u]
  BY <1>3 DEF IInv, TypeInv
<1>7. \A u \in Threads : call[u] = NoCall /\ ~txn[u].opened
  <2>1. \A u \in Threads : call[u] = NoCall
    BY <1>3, <1>5 DEF IInv, MutexInv
  <2> QED BY <1>3, <2>1
<1>8. TypeInv'
  <2>1. call' \in [Threads -> Call \cup {NoCall}]
    BY <1>2, <1>3, <1>6
  <2> QED BY <1>3, <1>4, <2>1 DEF IInv, TypeInv
<1>9. Shared' = Shared
  BY <1>4 DEF Shared
<1>10. TableInv' /\ TxnsInv'
  BY <1>4, <1>9 DEF IInv, TableInv, NamedInv, TxnsInv
<1>11. SoleInv'
  BY <1>4, <1>7 DEF SoleInv
<1>12. MutexInv'
  <2>1. \A u \in Threads : txn[u].kind = "rw" <=> wmutex = u
    BY DEF IInv, MutexInv
  <2>2. \A u \in Threads : call'[u] # NoCall <=> dbimutex' = u
    BY <1>2, <1>3, <1>6, <1>7
  <2>3. \A u \in Threads : call'[u] # NoCall /\ txn[u] # NoTxn => FALSE
    BY <1>3, <1>6, <1>7
  <2> QED BY <1>4, <2>1, <2>2, <2>3 DEF MutexInv
<1> QED BY <1>8, <1>10, <1>11, <1>12 DEF IInv

\* Environment::open_db and create_db return.
LEMMA CallReturnStep ==
    ASSUME IInv, NEW t \in Threads, CallReturn(t)
    PROVE  IInv'
<1>1. /\ txn[t] = NoTxn /\ call[t] # NoCall /\ dbimutex' = Nobody /\ call' = [call EXCEPT ![t] = NoCall]
  BY DEF CallReturn, NoCall
<1>2. UNCHANGED <<names, valid, seqs, numdbs, main, wmutex, txn, held, saved>>
  BY DEF CallReturn
<1>3. \A u \in Threads : u # Nobody
  BY DbiAssumption DEF Threads
<1>4. \A u \in Threads : call[u] # NoCall <=> dbimutex = u
  BY DEF IInv, MutexInv
<1>5. call \in [Threads -> Call \cup {NoCall}]
  BY DEF IInv, TypeInv
<1>6. \A u \in Threads : call'[u] = NoCall
  BY <1>1, <1>4, <1>5
<1>7. TypeInv'
  <2>1. call' \in [Threads -> Call \cup {NoCall}]
    BY <1>1, <1>5
  <2> QED BY <1>1, <1>2, <2>1 DEF IInv, TypeInv
<1>8. Shared' = Shared
  BY <1>2 DEF Shared
<1>9. TableInv' /\ TxnsInv'
  BY <1>2, <1>8 DEF IInv, TableInv, NamedInv, TxnsInv
<1>10. SoleInv'
  BY <1>2, <1>6 DEF IInv, SoleInv
<1>11. MutexInv'
  BY <1>1, <1>2, <1>3, <1>6 DEF IInv, MutexInv
<1> QED BY <1>7, <1>9, <1>10, <1>11 DEF IInv

\* A transaction of t goes on, or ends.
LEMMA Keeps ==
    ASSUME IInv, NEW t \in Threads, txn[t] # NoTxn, NEW V \in Txn, txn' = [txn EXCEPT ![t] = V],
           V.kind = txn[t].kind, V.opened = txn[t].opened, V.overlap = txn[t].overlap,
           call[t] # NoCall => N(V) = 1, UNCHANGED <<wmutex, dbimutex, call>>
    PROVE  /\ SoleInv' /\ MutexInv' /\ txn' \in [Threads -> Txn \cup {NoTxn}]
           /\ txn'[t] = V /\ \A u \in Threads : u # t => txn'[u] = txn[u]
<1>1. /\ txn \in [Threads -> Txn \cup {NoTxn}] /\ txn' \in [Threads -> Txn \cup {NoTxn}]
      /\ txn'[t] = V /\ \A u \in Threads : u # t => txn'[u] = txn[u]
  BY DEF IInv, TypeInv
<1>2. V # NoTxn
  BY NoTxnIs
<1>3. /\ \A u \in Threads : /\ txn'[u].kind = txn[u].kind /\ txn'[u].opened = txn[u].opened
                            /\ txn'[u].overlap = txn[u].overlap
                            /\ txn'[u] # NoTxn <=> txn[u] # NoTxn
  BY <1>1, <1>2
<1>4. SoleInv'
  <2>1. /\ \A a, u \in Threads : txn[a].opened /\ txn[u].opened => a = u
        /\ \A a, u \in Threads : call[a] # NoCall /\ txn[u].opened => a = u
        /\ \A a, u \in Threads : txn[a].opened /\ u # a /\ txn[u] # NoTxn => txn[u].overlap
    BY DEF IInv, SoleInv
  <2>2. /\ \A a, u \in Threads : txn'[a].opened /\ txn'[u].opened => a = u
        /\ \A a, u \in Threads : call[a] # NoCall /\ txn'[u].opened => a = u
        /\ \A a, u \in Threads : txn'[a].opened /\ u # a /\ txn'[u] # NoTxn => txn'[u].overlap
    BY <1>3, <2>1
  <2> QED BY <2>2 DEF SoleInv
<1>5. MutexInv'
  <2>1. /\ \A u \in Threads : txn[u].kind = "rw" <=> wmutex = u
        /\ \A u \in Threads : call[u] # NoCall <=> dbimutex = u
        /\ \A u \in Threads : call[u] # NoCall /\ txn[u] # NoTxn =>
              ~txn[u].overlap /\ N(txn[u]) = 1 /\ (txn[u].kind = "rw" <=> call[u].op = "create")
    BY DEF IInv, MutexInv
  <2>2. \A u \in Threads : call[u] # NoCall /\ txn'[u] # NoTxn => N(txn'[u]) = 1
    BY <1>1, <2>1
  <2>3. \A u \in Threads : txn'[u].kind = "rw" <=> wmutex = u
    BY <1>3, <2>1
  <2>4. \A u \in Threads : call[u] # NoCall /\ txn'[u] # NoTxn =>
              ~txn'[u].overlap /\ N(txn'[u]) = 1 /\ (txn'[u].kind = "rw" <=> call[u].op = "create")
    BY <1>3, <2>1, <2>2
  <2> QED BY <2>1, <2>3, <2>4 DEF MutexInv
<1> QED BY <1>1, <1>4, <1>5

\* A transaction ends, and with it what it shares with the others.
LEMMA Leaves ==
    ASSUME IInv, NEW t \in Threads, txn' = [txn EXCEPT ![t] = NoTxn], Release(t), UNCHANGED <<dbimutex, call>>
    PROVE  /\ SoleInv' /\ MutexInv' /\ txn' \in [Threads -> Txn \cup {NoTxn}]
           /\ wmutex' \in Threads \cup {Nobody}
           /\ txn'[t] = NoTxn /\ \A u \in Threads : u # t => txn'[u] = txn[u]
<1>1. /\ txn' \in [Threads -> Txn \cup {NoTxn}]
      /\ txn'[t] = NoTxn /\ \A u \in Threads : u # t => txn'[u] = txn[u]
  BY DEF IInv, TypeInv
<1>2. wmutex' \in Threads \cup {Nobody}
  BY DEF IInv, TypeInv, Release
<1>3. txn'[t].opened = FALSE /\ txn'[t].kind = "none"
  BY <1>1, NoTxnIs
<1>4. SoleInv'
  <2>1. /\ \A a, u \in Threads : txn[a].opened /\ txn[u].opened => a = u
        /\ \A a, u \in Threads : call[a] # NoCall /\ txn[u].opened => a = u
        /\ \A a, u \in Threads : txn[a].opened /\ u # a /\ txn[u] # NoTxn => txn[u].overlap
    BY DEF IInv, SoleInv
  <2>2. /\ \A a, u \in Threads : txn'[a].opened /\ txn'[u].opened => a = u
        /\ \A a, u \in Threads : call[a] # NoCall /\ txn'[u].opened => a = u
        /\ \A a, u \in Threads : txn'[a].opened /\ u # a /\ txn'[u] # NoTxn => txn'[u].overlap
    BY <1>1, <1>3, <2>1
  <2> QED BY <2>2 DEF SoleInv
<1>5. MutexInv'
  <2>1. /\ \A u \in Threads : txn[u].kind = "rw" <=> wmutex = u
        /\ \A u \in Threads : call[u] # NoCall <=> dbimutex = u
        /\ \A u \in Threads : call[u] # NoCall /\ txn[u] # NoTxn =>
              ~txn[u].overlap /\ N(txn[u]) = 1 /\ (txn[u].kind = "rw" <=> call[u].op = "create")
    BY DEF IInv, MutexInv
  <2>2. \A u \in Threads : u # Nobody
    BY DbiAssumption DEF Threads
  <2>3. \A u \in Threads : txn'[u].kind = "rw" <=> wmutex' = u
    <3> TAKE u \in Threads
    <3>1. CASE u = t
      BY <1>3, <2>2, <3>1 DEF Release
    <3>2. CASE u # t
      BY <1>1, <2>1, <2>2, <3>2 DEF Release
    <3> QED BY <3>1, <3>2
  <2>4. \A u \in Threads : call[u] # NoCall /\ txn'[u] # NoTxn =>
              ~txn'[u].overlap /\ N(txn'[u]) = 1 /\ (txn'[u].kind = "rw" <=> call[u].op = "create")
    BY <1>1, <2>1
  <2> QED BY <2>1, <2>3, <2>4 DEF MutexInv
<1> QED BY <1>1, <1>2, <1>4, <1>5

\* The handles are exported, and the transaction is gone.
LEMMA ExportStep ==
    ASSUME IInv, NEW t \in Threads, Exported(t), txn[t] # NoTxn, N(txn[t]) = 1,
           txn[t].pc = "written" \/ txn[t].kind = "ro",
           UNCHANGED <<names, seqs, main, dbimutex, call, saved>>
    PROVE  IInv'
<1>1. PICK g \in Tables : g = Shared /\ TableOK(g)
  BY SharedType DEF IInv, TableInv
<1>2. PICK T \in Txn : T = txn[t] /\ TxnOK(T, g) /\ T.kind \in {"ro", "rw"}
  BY <1>1, KindNone
<1>3. N(T) = 1 /\ 1 \in 1..N(T)
  BY <1>2
<1>4. PICK x \in Level : x = Top(t) /\ x = T.levels[1]
  BY <1>2, <1>3, TopIs
<1>5. PICK S : S = NewDbis(x)
  OBVIOUS
<1>6. S \subseteq Dbis /\ \A s \in Dbis : s \in S <=> Has(x, "NEW", s)
  <2>1. FlagsOK(x)
    BY <1>2, <1>3, <1>4 DEF TxnOK, Shape
  <2>2. \A s \in Dbis : Has(x, "NEW", s) => s \in 1..x.numdbs
    BY <2>1, DbiAssumption DEF FlagsOK, Known, Dbis
  <2>3. 1..x.numdbs \subseteq Dbis
    BY DbiAssumption, LevelType DEF Dbis
  <2> QED BY <1>5, <2>2, <2>3 DEF NewDbis, Has
<1>7. PICK h : h = Shared'
  OBVIOUS
<1>8. /\ valid' = [s \in Dbis |-> valid[s] \/ s \in S] /\ numdbs' = Max({numdbs, x.numdbs})
      /\ held' = held \cup x.mine /\ txn' = [txn EXCEPT ![t] = NoTxn] /\ Release(t)
  BY <1>4, <1>5 DEF Exported
<1>9. numdbs \in 0..MaxDbs /\ x.numdbs \in 0..MaxDbs
  BY LevelType DEF IInv, TypeInv
<1>10. /\ numdbs' \in 0..MaxDbs /\ numdbs <= numdbs' /\ x.numdbs <= numdbs'
       /\ numdbs' = numdbs \/ numdbs' = x.numdbs
  <2>1. numdbs \in Nat /\ x.numdbs \in Nat /\ MaxDbs \in Nat
    BY <1>9, DbiAssumption
  <2>2. numdbs' = IF numdbs <= x.numdbs THEN x.numdbs ELSE numdbs
    BY <1>8, <2>1, MaxOfTwo
  <2> QED BY <1>9, <2>1, <2>2
<1>11. /\ SoleInv' /\ MutexInv' /\ txn' \in [Threads -> Txn \cup {NoTxn}]
       /\ wmutex' \in Threads \cup {Nobody}
       /\ txn'[t] = NoTxn /\ \A u \in Threads : u # t => txn'[u] = txn[u]
  BY <1>8, Leaves
<1>12. TypeInv'
  <2>1. valid' \in [Dbis -> BOOLEAN]
    <3>1. \A s \in Dbis : (valid[s] \/ s \in S) \in BOOLEAN
      OBVIOUS
    <3> QED BY <1>8, <3>1
  <2>2. held' \in SUBSET Pairs
    BY <1>8, LevelType DEF IInv, TypeInv
  <2> QED BY <1>10, <1>11, <2>1, <2>2 DEF IInv, TypeInv
<1>13. h \in Tables
  BY <1>7, <1>12, TypeNext
<1>14. /\ h.names = g.names /\ h.seqs = g.seqs /\ h.main = g.main /\ h.open = g.open \cup S
       /\ h.numdbs = numdbs' /\ g.numdbs = numdbs /\ h.held = g.held \cup x.mine
  <2>1. {s \in Dbis : valid'[s]} = {s \in Dbis : valid[s]} \cup S
    BY <1>6, <1>8
  <2> QED BY <1>1, <1>7, <1>8, <2>1, SharedIs, SharedNext
<1>15. \A s \in S : g.names[s] # NoName /\ s <= h.numdbs /\ g.main[g.names[s]] # Absent
  <2> SUFFICES ASSUME NEW s \in Dbis, Has(x, "NEW", s)
               PROVE  g.names[s] # NoName /\ s <= h.numdbs /\ g.main[g.names[s]] # Absent
    BY <1>6
  <2>1. Known(x, s)
    BY <1>2, <1>3, <1>4, NewKnown
  <2>2. s <= x.numdbs
    BY <1>2, <1>3, <1>4, <2>1 DEF TxnOK, Shape, FlagsOK, Known
  <2>3. s <= h.numdbs
    BY <1>9, <1>10, <1>14, <2>2, DbiAssumption DEF Dbis
  <2>4. CASE T.kind = "ro"
    BY <1>2, <1>4, <2>1, <2>3, <2>4 DEF TxnOK, RoOK
  <2>5. CASE T.kind = "rw"
    <3>1. RwOK(T, g) /\ T.pc = "written"
      BY <1>2, <2>5 DEF TxnOK
    <3>2. g.main = x.want
      BY <1>4, <3>1 DEF RwOK
    <3>3. KnownOK(T, 1, g)
      BY <1>3, <3>1 DEF RwOK, LevelOK
    <3> QED BY <1>4, <2>1, <2>3, <3>2, <3>3 DEF KnownOK
  <2> QED BY <1>2, <2>4, <2>5
<1>16. TableOK(h)
  <2>1. \A s \in h.open : h.names[s] # NoName /\ s <= h.numdbs /\ h.main[h.names[s]] # Absent
    <3> SUFFICES ASSUME NEW s \in g.open
                 PROVE  h.names[s] # NoName /\ s <= h.numdbs /\ h.main[h.names[s]] # Absent
      BY <1>14, <1>15
    <3>1. g.names[s] # NoName /\ s <= g.numdbs /\ g.main[g.names[s]] # Absent /\ s \in Dbis
      BY <1>1 DEF TableOK, Tables
    <3> QED BY <1>9, <1>10, <1>14, <3>1, DbiAssumption DEF Dbis
  <2>2. \A s, r \in Dbis : h.names[s] # NoName /\ h.names[s] = h.names[r] => s = r
    BY <1>1, <1>14 DEF TableOK
  <2>3. \A e \in x.mine : e[1] \in h.open /\ h.names[e[1]] = e[2]
    <3> SUFFICES ASSUME NEW e \in x.mine PROVE e[1] \in h.open /\ h.names[e[1]] = e[2]
      OBVIOUS
    <3>1. MineOK(T, g)
      BY <1>2 DEF TxnOK
    <3>2. g.names[e[1]] = e[2] /\ (e[1] \in g.open \/ NewBelow(T, 1, e[1]))
      BY <1>3, <1>4, <3>1 DEF MineOK
    <3>3. e[1] \in Dbis
      BY LevelType DEF Pairs
    <3>4. NewBelow(T, 1, e[1]) => e[1] \in S
      BY <1>4, <1>6, <3>3 DEF NewBelow
    <3> QED BY <1>14, <3>2, <3>4
  <2>4. \A e \in g.held : e[1] \in h.open /\ h.names[e[1]] = e[2]
    BY <1>1, <1>14 DEF TableOK
  <2> QED BY <1>14, <2>1, <2>2, <2>3, <2>4 DEF TableOK
<1>17. NamedInv'
  <2>1. \A s \in Dbis : names[s] # NoName => valid[s] \/ \E u \in Threads : NewIn(txn[u], s)
    BY DEF IInv, TableInv, NamedInv
  <2>2. \A s \in Dbis : NewIn(txn[t], s) => s \in S
    BY <1>2, <1>3, <1>4, <1>6 DEF NewIn
  <2>3. \A s \in Dbis : valid'[s] <=> valid[s] \/ s \in S
    BY <1>8
  <2>4. \A s \in Dbis : names[s] # NoName => valid'[s] \/ \E u \in Threads : NewIn(txn'[u], s)
    BY <1>11, <2>1, <2>2, <2>3
  <2> QED BY <2>4 DEF NamedInv
<1>18. \A u \in Threads \ {t} : txn[u] # NoTxn => TxnOK(txn[u], h)
  <2> SUFFICES ASSUME NEW u \in Threads \ {t}, txn[u] # NoTxn PROVE TxnOK(txn[u], h)
    OBVIOUS
  <2>1. PICK U \in Txn : U = txn[u] /\ TxnOK(U, g)
    BY <1>1, KindNone
  <2>2. CASE T.opened
    <3>1. ~U.opened /\ U.overlap
      BY <1>2, <2>1, <2>2 DEF IInv, SoleInv
    <3>2. g.open \subseteq h.open /\ g.held \subseteq h.held /\ g.numdbs <= h.numdbs
      BY <1>10, <1>14
    <3>3. \A s \in h.open : g.names[s] \in Names /\ g.main[g.names[s]] # Absent
      BY <1>13, <1>14, <1>16 DEF TableOK, Tables
    <3> QED BY <1>13, <1>14, <2>1, <3>1, <3>2, <3>3, Exports
  <2>3. CASE ~T.opened
    <3>1. x.mine = {} /\ x.numdbs <= g.numdbs /\ \A s \in Dbis : ~Has(x, "NEW", s)
      BY <1>2, <1>3, <1>4, <2>3 DEF TxnOK, Unused
    <3>2. S = {}
      BY <1>6, <3>1
    <3>3. numdbs' = numdbs
      BY <1>9, <1>10, <1>14, <3>1
    <3>4. valid' = valid
      <4>1. valid \in [Dbis -> BOOLEAN]
        BY DEF IInv, TypeInv
      <4>2. \A s \in Dbis : (valid[s] \/ s \in S) = valid[s]
        BY <3>2, <4>1
      <4>3. valid' = [s \in Dbis |-> valid[s]]
        BY <1>8, <4>2
      <4> QED BY <4>1, <4>3
    <3>5. held' = held
      BY <1>8, <3>1
    <3>6. h = g
      BY <1>1, <1>7, <3>3, <3>4, <3>5 DEF Shared
    <3> QED BY <2>1, <3>6
  <2> QED BY <1>2, <2>2, <2>3, TxnType
<1>19. TxnsInv'
  <2>1. \A u \in Threads : txn'[u] # NoTxn => TxnOK(txn'[u], Shared')
    BY <1>7, <1>11, <1>18
  <2> QED BY <2>1 DEF TxnsInv
<1>20. TableInv'
  <2>1. main' = saved'
    BY DEF IInv, TableInv
  <2> QED BY <1>7, <1>16, <1>17, <2>1 DEF TableInv
<1> QED BY <1>11, <1>12, <1>19, <1>20 DEF IInv

\* mdb_txn_commit, of a read transaction: its handles are the environment's.
LEMMA CommitRoStep ==
    ASSUME IInv, NEW t \in Threads, CommitRo(t)
    PROVE  IInv'
<1>1. Exported(t) /\ txn[t] # NoTxn /\ txn[t].kind = "ro"
  BY NoTxnIs DEF CommitRo
<1>2. N(txn[t]) = 1
  BY <1>1, KindNone DEF TxnOK, RoOK
<1>3. UNCHANGED <<names, seqs, main, dbimutex, call, saved>>
  BY DEF CommitRo
<1> QED BY <1>1, <1>2, <1>3, ExportStep

\* mdb_dbis_update and the end of mdb_txn_commit, after the meta page is written.
LEMMA CommitEndStep ==
    ASSUME IInv, NEW t \in Threads, CommitEnd(t)
    PROVE  IInv'
<1>1. Exported(t) /\ txn[t] # NoTxn /\ txn[t].pc = "written"
  BY NoTxnIs DEF CommitEnd
<1>2. N(txn[t]) = 1
  BY <1>1, KindNone DEF TxnOK, RoOK, RwOK
<1>3. UNCHANGED <<names, seqs, main, dbimutex, call, saved>>
  BY DEF CommitEnd
<1> QED BY <1>1, <1>2, <1>3, ExportStep

\* What is written is what the application expects.
LEMMA UpdatedIs ==
    ASSUME NEW g \in Tables, TableOK(g), g.names = names, NEW T \in Txn, TxnOK(T, g), T.kind = "rw",
           NEW x, x = T.levels[N(T)]
    PROVE  Updated(x) = x.want
<1>1. PICK n : n = N(T) /\ n \in 1..n /\ x = T.levels[n] /\ x \in Level
  BY TxnType DEF TxnOK, Shape
<1>2. RecordsOK(T, n, g) /\ KnownOK(T, n, g) /\ FlagsOK(x)
  BY <1>1 DEF TxnOK, RwOK, LevelOK, Shape
<1>3. \A s \in Dbis : s \in DirtyDbis(x) <=> Has(x, "DIRTY", s)
  <2>1. \A s \in Dbis : Has(x, "DIRTY", s) => s \in 1..x.numdbs
    BY <1>2, DbiAssumption DEF FlagsOK, Known, Dbis
  <2> QED BY <2>1 DEF DirtyDbis, Has
<1>4. DirtyDbis(x) \subseteq Dbis
  BY <1>1, DbiAssumption, LevelType DEF DirtyDbis, Dbis
<1>5. ASSUME NEW m \in Names
      PROVE  LET D == {s \in DirtyDbis(x) : names[s] = m}
             IN (IF D = {} THEN x.main[m] ELSE x.dbs[Max(D)]) = x.want[m]
  <2>1. PICK D : D = {s \in DirtyDbis(x) : names[s] = m}
    OBVIOUS
  <2>2. CASE D = {}
    <3>1. ~\E s \in Dbis : Has(x, "DIRTY", s) /\ g.names[s] = m
      BY <1>3, <2>1, <2>2
    <3>2. x.main[m] = x.want[m]
      BY <1>1, <1>2, <3>1 DEF RecordsOK
    <3> QED BY <2>1, <2>2, <3>2
  <2>3. CASE D # {}
    <3>1. Max(D) \in D
      <4>1. D \subseteq 0..MaxDbs /\ MaxDbs \in Nat
        BY <1>4, <2>1, DbiAssumption DEF Dbis
      <4> QED BY <2>3, <4>1, MaxIsGreatest
    <3>2. PICK s \in Dbis : s = Max(D) /\ Has(x, "DIRTY", s) /\ g.names[s] = m
      BY <1>3, <1>4, <2>1, <3>1
    <3>3. Known(x, s)
      BY <1>2, <3>2 DEF FlagsOK
    <3>4. x.dbs[s] = x.want[m]
      BY <1>1, <1>2, <3>2, <3>3 DEF KnownOK
    <3> QED BY <2>1, <2>3, <3>2, <3>4
  <2> QED BY <2>1, <2>2, <2>3
<1>6. Updated(x) = [m \in Names |-> x.want[m]]
  BY <1>5 DEF Updated
<1> QED BY <1>1, <1>6, LevelType DEF View

\* mdb_txn_commit writes the records and the meta page.
LEMMA CommitRwStep ==
    ASSUME IInv, NEW t \in Threads, CommitRw(t)
    PROVE  IInv'
<1>1. /\ txn[t].pc = "live" /\ txn[t] # NoTxn /\ txn[t].kind = "rw" /\ Len(txn[t].levels) = 1
      /\ main' = Updated(Top(t)) /\ saved' = Top(t).want /\ txn' = [txn EXCEPT ![t].pc = "written"]
  BY NoTxnIs DEF CommitRw, Live
<1>2. UNCHANGED <<names, valid, seqs, numdbs, wmutex, dbimutex, call, held>>
  BY DEF CommitRw
<1>3. PICK g \in Tables : g = Shared /\ TableOK(g) /\ g.names = names
  BY SharedType, SharedIs DEF IInv, TableInv
<1>4. PICK T \in Txn : T = txn[t] /\ TxnOK(T, g) /\ T.kind = "rw" /\ T.pc = "live" /\ N(T) = 1
  BY <1>1, <1>3, KindNone DEF N
<1>5. PICK x \in Level : x = Top(t) /\ x = T.levels[1] /\ 1 \in 1..N(T)
  BY <1>1, <1>4, TopIs
<1>6. main' = x.want /\ saved' = x.want /\ x.want \in View
  BY <1>1, <1>3, <1>4, <1>5, UpdatedIs, LevelType
<1>7. PICK V : V = [T EXCEPT !.pc = "written"]
  OBVIOUS
<1>8. V \in Txn /\ V.levels = T.levels /\ V.kind = T.kind /\ V.seqs = T.seqs /\ V.offered = T.offered /\ V.pc = "written"
  BY <1>7 DEF Txn
<1>9. V.opened = T.opened /\ V.overlap = T.overlap
  BY <1>7 DEF Txn
<1>10. txn' = [txn EXCEPT ![t] = V] /\ Same(V, T) /\ N(V) = 1
  BY <1>1, <1>4, <1>7, <1>8, <1>9 DEF Same, N
<1>11. /\ SoleInv' /\ MutexInv' /\ txn' \in [Threads -> Txn \cup {NoTxn}]
       /\ txn'[t] = V /\ \A u \in Threads : u # t => txn'[u] = txn[u]
  BY <1>1, <1>2, <1>4, <1>8, <1>9, <1>10, Keeps
<1>12. TypeInv'
  BY <1>2, <1>6, <1>11 DEF IInv, TypeInv
<1>13. PICK h \in Tables : h = Shared'
  BY <1>12, TypeNext
<1>14. /\ h.names = g.names /\ h.open = g.open /\ h.seqs = g.seqs /\ h.numdbs = g.numdbs
       /\ h.held = g.held /\ h.main = x.want
  BY <1>2, <1>3, <1>6, <1>13, SharedIs, SharedNext
<1>15. OpenOK(T, 1, g)
  BY <1>4, <1>5 DEF TxnOK, RwOK, LevelOK
<1>16. TableOK(h)
  <2>1. \A s \in g.open : g.names[s] # NoName /\ s <= g.numdbs /\ x.want[g.names[s]] # Absent
    BY <1>3, <1>5, <1>15 DEF TableOK, OpenOK
  <2> QED BY <1>3, <1>14, <2>1 DEF TableOK
<1>17. TxnOK(V, h) /\ \A r \in Dbis : NewIn(V, r) <=> NewIn(T, r)
  BY <1>4, <1>5, <1>8, <1>9, <1>10, <1>14, SavedOK
<1>18. \A u \in Threads \ {t} : txn[u] # NoTxn => TxnOK(txn[u], h)
  <2> SUFFICES ASSUME NEW u \in Threads \ {t}, txn[u] # NoTxn PROVE TxnOK(txn[u], h)
    OBVIOUS
  <2>1. PICK U \in Txn : U = txn[u] /\ TxnOK(U, g) /\ U.kind \in {"ro", "rw"}
    BY <1>3, KindNone
  <2>2. U.kind = "ro"
    BY <1>1, <2>1 DEF IInv, MutexInv
  <2>3. \/ \A n \in Names : g.main[n] # Absent => h.main[n] # Absent
        \/ U.overlap /\ ~U.opened
    <3>1. CASE T.opened
      BY <1>4, <2>1, <3>1 DEF IInv, SoleInv
    <3>2. CASE ~T.opened
      BY <1>5, <1>14, <1>15, <3>2 DEF OpenOK
    <3> QED BY <3>1, <3>2
  <2>4. \A s \in Dbis : NewIn(U, s) => g.names[s] \in Names
    <3> SUFFICES ASSUME NEW s \in Dbis, NewIn(U, s) PROVE g.names[s] \in Names
      OBVIOUS
    <3>1. RoOK(U, g) /\ N(U) = 1 /\ 1 \in 1..N(U)
      BY <2>1, <2>2 DEF TxnOK, RoOK
    <3>2. Has(U.levels[1], "NEW", s)
      BY <3>1 DEF NewIn
    <3>3. Known(U.levels[1], s)
      BY <2>1, <3>1, <3>2, NewKnown
    <3>4. g.names[s] # NoName
      BY <3>1, <3>3 DEF RoOK
    <3> QED BY <3>4 DEF Tables
  <2> QED BY <1>14, <2>1, <2>2, <2>3, <2>4, Saves
<1>19. TxnsInv'
  <2>1. \A u \in Threads : txn'[u] # NoTxn => TxnOK(txn'[u], Shared')
    BY <1>11, <1>13, <1>17, <1>18
  <2> QED BY <2>1 DEF TxnsInv
<1>20. NamedInv'
  <2>1. \A s \in Dbis : names[s] # NoName => valid[s] \/ \E u \in Threads : NewIn(txn[u], s)
    BY DEF IInv, TableInv, NamedInv
  <2>2. \A s \in Dbis : names[s] # NoName => valid[s] \/ \E u \in Threads : NewIn(txn'[u], s)
    BY <1>4, <1>11, <1>17, <2>1
  <2> QED BY <1>2, <2>2 DEF NamedInv
<1>21. TableInv'
  BY <1>6, <1>13, <1>16, <1>20 DEF TableInv
<1> QED BY <1>11, <1>12, <1>19, <1>21 DEF IInv

\* The numbers that a transaction has opened are closed; the environment's are not.
LEMMA ClosedNew ==
    ASSUME IInv, NEW t \in Threads, txn[t].pc = "live", NEW S, S = ClosedBy(Top(t)), CloseDbis(S),
           UNCHANGED <<numdbs, main, held>>, TypeInv'
    PROVE  /\ S = {r \in Dbis : Has(Top(t), "NEW", r)} /\ S \cap Shared.open = {}
           /\ Shared'.open = Shared.open /\ TableOK(Shared')
           /\ \A r \in S : Shared'.names[r] = NoName /\ seqs[r] < Shared'.seqs[r]
           /\ \A r \in Dbis \ S : Shared'.names[r] = names[r] /\ Shared'.seqs[r] = seqs[r]
           /\ \A u \in Threads \ {t} : txn[u] # NoTxn => TxnOK(txn[u], Shared')
<1>1. txn[t] # NoTxn
  BY NoTxnIs
<1>2. PICK g \in Tables : g = Shared /\ TableOK(g) /\ g.names = names /\ g.seqs = seqs
  BY SharedType, SharedIs DEF IInv, TableInv
<1>3. PICK T \in Txn : T = txn[t] /\ TxnOK(T, g) /\ T.kind \in {"ro", "rw"}
  BY <1>1, <1>2, KindNone
<1>4. PICK n : n = N(T) /\ n \in 1..n /\ T.levels[n] \in Level
  BY <1>3, TxnType DEF TxnOK, Shape
<1>5. PICK x \in Level : x = Top(t) /\ x = T.levels[n]
  BY <1>1, <1>3, <1>4, TopIs
<1>6. \A s \in Dbis : Has(x, "NEW", s) => s \in 1..x.numdbs /\ names[s] # NoName /\ s \notin g.open
  <2> SUFFICES ASSUME NEW s \in Dbis, Has(x, "NEW", s)
               PROVE  s \in 1..x.numdbs /\ names[s] # NoName /\ s \notin g.open
    OBVIOUS
  <2>1. Known(x, s)
    BY <1>3, <1>4, <1>5, NewKnown
  <2>2. s \in 1..x.numdbs
    BY <1>3, <1>4, <1>5, <2>1, DbiAssumption DEF TxnOK, Shape, FlagsOK, Known, Dbis
  <2>3. s \notin g.open
    BY <1>3, <1>4, <1>5 DEF TxnOK, SeesOK
  <2>4. CASE T.kind = "ro"
    <3>1. RoOK(T, g) /\ n = 1
      BY <1>3, <1>4, <2>4 DEF TxnOK, RoOK
    <3> QED BY <1>2, <1>5, <2>1, <2>2, <2>3, <3>1 DEF RoOK
  <2>5. CASE T.kind = "rw"
    <3>1. KnownOK(T, n, g)
      BY <1>3, <1>4, <2>5 DEF TxnOK, RwOK, LevelOK
    <3> QED BY <1>2, <1>5, <2>1, <2>2, <2>3, <3>1 DEF KnownOK
  <2> QED BY <1>3, <2>4, <2>5
<1>7. 1..x.numdbs \subseteq Dbis
  BY DbiAssumption, LevelType DEF Dbis
<1>8. S = {r \in Dbis : Has(x, "NEW", r)}
  BY <1>5, <1>6, <1>7 DEF ClosedBy, NewDbis, Has
<1>9. S \cap g.open = {} /\ S \subseteq Dbis
  BY <1>6, <1>8
<1>10. PICK h \in Tables : h = Shared'
  BY TypeNext
<1>11. /\ names' = [s \in Dbis |-> IF s \in S THEN NoName ELSE names[s]]
       /\ valid' = [s \in Dbis |-> valid[s] /\ s \notin S]
       /\ seqs' = [s \in Dbis |-> IF s \in S THEN seqs[s] + 1 ELSE seqs[s]]
  BY DEF CloseDbis
<1>12. h.open = g.open /\ h.numdbs = g.numdbs /\ h.main = g.main /\ h.held = g.held
  <2>1. {s \in Dbis : valid'[s]} = {s \in Dbis : valid[s]}
    BY <1>2, <1>9, <1>11, SharedIs
  <2> QED BY <1>2, <1>10, <2>1, SharedIs, SharedNext
<1>13. \A r \in S : h.names[r] = NoName /\ h.seqs[r] = seqs[r] + 1 /\ seqs[r] \in Nat
  BY <1>9, <1>10, <1>11, SharedNext DEF IInv, TypeInv
<1>14. \A r \in Dbis \ S : h.names[r] = names[r] /\ h.seqs[r] = seqs[r]
  BY <1>10, <1>11, SharedNext
<1>15. TableOK(h)
  <2>1. g.open \subseteq Dbis /\ \A s \in g.open : s \in Dbis \ S
    BY <1>9 DEF Tables
  <2>2. \A s \in h.open : h.names[s] # NoName /\ s <= h.numdbs /\ h.main[h.names[s]] # Absent
    BY <1>2, <1>12, <1>14, <2>1 DEF TableOK
  <2>3. \A s, r \in Dbis : h.names[s] # NoName /\ h.names[s] = h.names[r] => s = r
    <3>1. \A s, r \in Dbis : g.names[s] # NoName /\ g.names[s] = g.names[r] => s = r
      BY <1>2 DEF TableOK
    <3> QED BY <1>2, <1>13, <1>14, <3>1
  <2>4. \A e \in h.held : e[1] \in h.open /\ h.names[e[1]] = e[2]
    BY <1>2, <1>12, <1>14, <2>1 DEF TableOK
  <2> QED BY <2>2, <2>3, <2>4 DEF TableOK
<1>16. \A u \in Threads \ {t} : txn[u] # NoTxn => TxnOK(txn[u], h)
  <2> SUFFICES ASSUME NEW u \in Threads \ {t}, txn[u] # NoTxn PROVE TxnOK(txn[u], h)
    OBVIOUS
  <2>1. PICK U \in Txn : U = txn[u] /\ TxnOK(U, g)
    BY <1>2, KindNone
  <2>2. CASE T.opened
    <3>1. ~U.opened /\ U.overlap
      BY <1>3, <2>1, <2>2 DEF IInv, SoleInv
    <3>2. \A r \in Dbis : g.seqs[r] <= h.seqs[r]
      <4>1. \A r \in Dbis : seqs[r] \in Nat
        BY DEF IInv, TypeInv
      <4> QED BY <1>2, <1>13, <1>14, <4>1
    <3>3. \A r \in Dbis \ S : h.names[r] = g.names[r] /\ h.seqs[r] = g.seqs[r]
      BY <1>2, <1>14
    <3>4. \A r \in S : h.names[r] = NoName
      BY <1>13
    <3> QED BY <1>9, <1>12, <2>1, <3>1, <3>2, <3>3, <3>4, Elsewhere
  <2>3. CASE ~T.opened
    <3>1. S = {}
      BY <1>3, <1>4, <1>5, <1>8, <2>3 DEF TxnOK, Unused
    <3>2. names \in [Dbis -> Names \cup {NoName}] /\ valid \in [Dbis -> BOOLEAN] /\ seqs \in [Dbis -> Nat]
      BY DEF IInv, TypeInv
    <3>3. names' = names /\ seqs' = seqs
      BY <1>11, <3>1, <3>2
    <3>4. valid' = valid
      <4>1. \A s \in Dbis : (valid[s] /\ s \notin S) = valid[s]
        BY <3>1, <3>2
      <4>2. valid' = [s \in Dbis |-> valid[s]]
        BY <1>11, <4>1
      <4> QED BY <3>2, <4>2
    <3>5. h = g
      BY <1>2, <1>10, <3>3, <3>4 DEF Shared
    <3> QED BY <2>1, <3>5
  <2> QED BY <1>3, <2>2, <2>3, TxnType
<1>17. \A r \in S : seqs[r] < h.seqs[r]
  BY <1>13
<1> QED BY <1>2, <1>5, <1>8, <1>9, <1>10, <1>12, <1>13, <1>14, <1>15, <1>16, <1>17

\* Numbers are closed: the tables keep their types.
LEMMA ClosedTypes ==
    ASSUME TypeInv, NEW S, CloseDbis(S)
    PROVE  /\ names' \in [Dbis -> Names \cup {NoName}] /\ valid' \in [Dbis -> BOOLEAN]
           /\ seqs' \in [Dbis -> Nat]
<1>1. /\ names \in [Dbis -> Names \cup {NoName}] /\ valid \in [Dbis -> BOOLEAN] /\ seqs \in [Dbis -> Nat]
  BY DEF TypeInv
<1>2. /\ names' = [s \in Dbis |-> IF s \in S THEN NoName ELSE names[s]]
      /\ valid' = [s \in Dbis |-> valid[s] /\ s \notin S]
      /\ seqs' = [s \in Dbis |-> IF s \in S THEN seqs[s] + 1 ELSE seqs[s]]
  BY DEF CloseDbis
<1>3. \A s \in Dbis : (valid[s] /\ s \notin S) \in BOOLEAN
  OBVIOUS
<1>4. valid' \in [Dbis -> BOOLEAN]
  BY <1>2, <1>3
<1>5. names' \in [Dbis -> Names \cup {NoName}]
  BY <1>1, <1>2
<1>6. seqs' \in [Dbis -> Nat]
  BY <1>1, <1>2
<1> QED BY <1>4, <1>5, <1>6

\* mdb_txn_abort closes the numbers that the transaction has opened.
LEMMA AbortStep ==
    ASSUME IInv, NEW t \in Threads, Abort(t)
    PROVE  IInv'
<1>1. txn[t].pc = "live" /\ txn[t] # NoTxn /\ Aborted(t)
  BY NoTxnIs DEF Abort, Live
<1>2. UNCHANGED <<numdbs, main, dbimutex, call, held, saved>>
  BY DEF Abort
<1>3. PICK S : S = ClosedBy(Top(t)) /\ CloseDbis(S)
  BY <1>1 DEF Aborted
<1>4. PICK g \in Tables : g = Shared /\ TableOK(g) /\ g.names = names /\ g.seqs = seqs
  BY SharedType, SharedIs DEF IInv, TableInv
<1>5. PICK T \in Txn : T = txn[t] /\ TxnOK(T, g) /\ T.levels \in Seq(Level) /\ T.levels # <<>>
  BY <1>1, <1>4, KindNone
<1>6. PICK n : n = N(T) /\ n \in Nat /\ n >= 1 /\ n \in 1..n /\ n = Len(txn[t].levels)
  BY <1>5, TxnType DEF TxnOK, Shape, N
<1>7. /\ names' \in [Dbis -> Names \cup {NoName}] /\ valid' \in [Dbis -> BOOLEAN]
      /\ seqs' \in [Dbis -> Nat]
  BY <1>3, ClosedTypes DEF IInv
<1>8. \A s \in Dbis : names[s] # NoName => valid[s] \/ \E u \in Threads : NewIn(txn[u], s)
  BY DEF IInv, TableInv, NamedInv
<1>9. CASE n = 1
  <2>1. txn' = [txn EXCEPT ![t] = NoTxn] /\ Release(t)
    <3>1. txn' = [txn EXCEPT ![t] = IF Len(txn[t].levels) = 1 THEN NoTxn
                                 ELSE [txn[t] EXCEPT !.levels = Front(txn[t].levels)]]
      BY <1>1 DEF Aborted
    <3>2. Release(t)
      BY <1>1, <1>6, <1>9 DEF Aborted
    <3> QED BY <1>6, <1>9, <3>1, <3>2
  <2>2. /\ SoleInv' /\ MutexInv' /\ txn' \in [Threads -> Txn \cup {NoTxn}]
        /\ wmutex' \in Threads \cup {Nobody}
        /\ txn'[t] = NoTxn /\ \A u \in Threads : u # t => txn'[u] = txn[u]
    BY <1>2, <2>1, Leaves
  <2>3. TypeInv'
    BY <1>2, <1>7, <2>2 DEF IInv, TypeInv
  <2>4. /\ S = {r \in Dbis : Has(Top(t), "NEW", r)} /\ S \cap Shared.open = {}
        /\ Shared'.open = Shared.open /\ TableOK(Shared')
        /\ \A r \in S : Shared'.names[r] = NoName
        /\ \A r \in Dbis \ S : Shared'.names[r] = names[r]
        /\ \A u \in Threads \ {t} : txn[u] # NoTxn => TxnOK(txn[u], Shared')
    BY <1>1, <1>2, <1>3, <2>3, ClosedNew
  <2>5. TxnsInv'
    <3>1. \A u \in Threads : txn'[u] # NoTxn => TxnOK(txn'[u], Shared')
      BY <2>2, <2>4
    <3> QED BY <3>1 DEF TxnsInv
  <2>6. NamedInv'
    <3>1. \A s \in Dbis : NewIn(txn[t], s) => s \in S
      <4>1. N(txn[t]) = 1
        BY <1>5, <1>6, <1>9
      <4>2. Top(t) = txn[t].levels[1]
        BY <1>1, <4>1, TopIs
      <4>3. \A i \in 1..N(txn[t]) : i = 1
        BY <4>1
      <4>4. \A s \in Dbis : Has(Top(t), "NEW", s) => s \in S
        BY <2>4
      <4> QED BY <4>2, <4>3, <4>4 DEF NewIn
    <3>2. \A s \in Dbis : names'[s] # NoName => valid'[s] \/ \E u \in Threads : NewIn(txn'[u], s)
      <4> SUFFICES ASSUME NEW s \in Dbis, names'[s] # NoName
                   PROVE  valid'[s] \/ \E u \in Threads : NewIn(txn'[u], s)
        OBVIOUS
      <4>1. s \notin S /\ names[s] # NoName
        BY <2>4, SharedNext
      <4>2. CASE valid[s]
        BY <2>4, <4>2, SharedIs, SharedNext
      <4>3. CASE ~valid[s]
        <5>1. PICK u \in Threads : NewIn(txn[u], s)
          BY <1>8, <4>1, <4>3
        <5> QED BY <2>2, <3>1, <4>1, <5>1
      <4> QED BY <4>2, <4>3
    <3> QED BY <3>2 DEF NamedInv
  <2>7. main' = saved'
    BY <1>2 DEF IInv, TableInv
  <2> QED BY <2>2, <2>3, <2>4, <2>5, <2>6, <2>7 DEF IInv, TableInv
<1>10. CASE n # 1
  <2>1. T.kind = "rw"
    BY <1>5, <1>6, <1>10, TxnType DEF TxnOK, RoOK
  <2>2. PICK K : K = Front(T.levels)
    OBVIOUS
  <2>3. K \in Seq(Level) /\ Len(K) = n - 1 /\ \A i \in 1..(n - 1) : K[i] = T.levels[i]
    BY <1>5, <1>6, <2>2, TakenAway
  <2>4. PICK V : V = Leveled(T, K)
    OBVIOUS
  <2>5. /\ V \in Txn /\ Same(V, T) /\ V.levels = K /\ V.pc = T.pc /\ V.opened = T.opened
        /\ V.kind = T.kind /\ V.overlap = T.overlap
    BY <2>3, <2>4, WithLevels
  <2>6. txn' = [txn EXCEPT ![t] = V] /\ UNCHANGED wmutex
    <3>1. txn' = [txn EXCEPT ![t] = IF Len(txn[t].levels) = 1 THEN NoTxn
                                 ELSE [txn[t] EXCEPT !.levels = Front(txn[t].levels)]]
      BY <1>1 DEF Aborted
    <3>2. UNCHANGED wmutex
      BY <1>1, <1>6, <1>10 DEF Aborted
    <3> QED BY <1>5, <1>6, <1>10, <2>2, <2>4, <3>1, <3>2 DEF Leveled
  <2>7. call[t] = NoCall
    BY <1>1, <1>5, <1>6, <1>10 DEF IInv, MutexInv
  <2>8. /\ SoleInv' /\ MutexInv' /\ txn' \in [Threads -> Txn \cup {NoTxn}]
        /\ txn'[t] = V /\ \A u \in Threads : u # t => txn'[u] = txn[u]
    BY <1>1, <1>2, <1>5, <2>5, <2>6, <2>7, Keeps
  <2>9. TypeInv'
    BY <1>2, <1>7, <2>6, <2>8 DEF IInv, TypeInv
  <2>10. /\ S = {r \in Dbis : Has(Top(t), "NEW", r)} /\ S \cap Shared.open = {}
         /\ Shared'.open = Shared.open /\ TableOK(Shared')
         /\ \A r \in S : Shared'.names[r] = NoName /\ seqs[r] < Shared'.seqs[r]
         /\ \A r \in Dbis \ S : Shared'.names[r] = names[r] /\ Shared'.seqs[r] = seqs[r]
         /\ \A u \in Threads \ {t} : txn[u] # NoTxn => TxnOK(txn[u], Shared')
    BY <1>1, <1>2, <1>3, <2>9, ClosedNew
  <2>11. PICK h \in Tables : h = Shared'
    BY <2>9, TypeNext
  <2>12. S = {r \in Dbis : Has(T.levels[n], "NEW", r)}
    BY <1>1, <1>5, <1>6, <2>10, TopIs
  <2>13. /\ h.open = g.open /\ h.numdbs = g.numdbs /\ h.main = g.main /\ h.held = g.held
         /\ \A r \in S : g.seqs[r] < h.seqs[r]
         /\ \A r \in Dbis \ S : h.names[r] = g.names[r] /\ h.seqs[r] = g.seqs[r]
    BY <1>2, <1>4, <2>10, <2>11, SharedIs, SharedNext
  <2>14. N(V) = n - 1 /\ \A i \in 1..(n - 1) : V.levels[i] = T.levels[i]
    BY <2>3, <2>5 DEF N
  <2>15. /\ TxnOK(V, h)
         /\ \A r \in Dbis : /\ NewIn(V, r) => NewIn(T, r)
                            /\ NewIn(T, r) /\ r \notin S => NewIn(V, r)
    <3>1. TxnOK(T, g) /\ T.pc = "live" /\ n = N(T)
      BY <1>1, <1>5, <1>6
    <3> QED BY <1>10, <2>1, <2>5, <2>12, <2>13, <2>14, <3>1, PoppedOK
  <2>16. TxnsInv'
    <3>1. \A u \in Threads : txn'[u] # NoTxn => TxnOK(txn'[u], Shared')
      BY <2>8, <2>10, <2>11, <2>15
    <3> QED BY <3>1 DEF TxnsInv
  <2>17. NamedInv'
    <3>1. \A s \in Dbis : names'[s] # NoName => valid'[s] \/ \E u \in Threads : NewIn(txn'[u], s)
      <4> SUFFICES ASSUME NEW s \in Dbis, names'[s] # NoName
                   PROVE  valid'[s] \/ \E u \in Threads : NewIn(txn'[u], s)
        OBVIOUS
      <4>1. s \notin S /\ names[s] # NoName
        BY <2>10, SharedNext
      <4>2. CASE valid[s]
        BY <2>10, <4>2, SharedIs, SharedNext
      <4>3. CASE ~valid[s]
        <5>1. PICK u \in Threads : NewIn(txn[u], s)
          BY <1>8, <4>1, <4>3
        <5> QED BY <1>5, <2>8, <2>15, <4>1, <5>1
      <4> QED BY <4>2, <4>3
    <3> QED BY <3>1 DEF NamedInv
  <2>18. main' = saved'
    BY <1>2 DEF IInv, TableInv
  <2> QED BY <2>8, <2>9, <2>10, <2>16, <2>17, <2>18 DEF IInv, TableInv
<1> QED BY <1>9, <1>10

\* What the use of mdb_dbi_open by t leaves of the others' transactions.
Touched(U2, U) ==
    /\ U = NoTxn => U2 = NoTxn
    /\ U # NoTxn => U2 = Overlapping(U)

\* A use of mdb_dbi_open, and the transactions it overlaps.
LEMMA UsesIs ==
    ASSUME IInv, NEW t \in Threads, NEW W, NEW f, f = Uses(t, W)
    PROVE  /\ f \in [Threads -> {f[u] : u \in Threads}] /\ f[t] = [W EXCEPT !.opened = TRUE]
           /\ \A u \in Threads : u # t => Touched(f[u], txn[u])
<1>1. f = [u \in Threads |-> IF u = t THEN [W EXCEPT !.opened = TRUE]
                             ELSE [txn[u] EXCEPT !.overlap = txn[u].overlap \/ txn[u] # NoTxn]]
  BY DEF Uses
<1>2. f \in [Threads -> {f[u] : u \in Threads}] /\ f[t] = [W EXCEPT !.opened = TRUE]
  BY <1>1
<1>3. ASSUME NEW u \in Threads, u # t PROVE Touched(f[u], txn[u])
  <2>1. PICK b : b = (txn[u].overlap \/ txn[u] # NoTxn)
    OBVIOUS
  <2>2. f[u] = [txn[u] EXCEPT !.overlap = b]
    BY <1>1, <1>3, <2>1
  <2>3. CASE txn[u] = NoTxn
    <3>1. b = FALSE
      BY <2>1, <2>3, NoTxnIs
    <3>2. [NoTxn EXCEPT !.overlap = FALSE] = NoTxn
      <4>1. PICK v : v = FALSE
        OBVIOUS
      <4>2. PICK X : X = [kind |-> "none", pc |-> "none", seqs |-> <<>>, levels |-> <<>>, offered |-> {},
                          opened |-> v, overlap |-> v]
        OBVIOUS
      <4>3. X = NoTxn
        BY <4>1, <4>2 DEF NoTxn
      <4>4. [X EXCEPT !.overlap = v] = X
        BY <4>2, SMTT(30)
      <4> QED BY <4>1, <4>3, <4>4
    <3> QED BY <2>2, <2>3, <3>1, <3>2 DEF Touched
  <2>4. CASE txn[u] # NoTxn
    <3>1. b = TRUE
      BY <2>1, <2>4
    <3> QED BY <2>2, <2>4, <3>1 DEF Touched, Overlapping
  <2> QED BY <2>3, <2>4
<1> QED BY <1>2, <1>3

\* The transaction of t has used mdb_dbi_open, or mdb_drop.
LEMMA SoleUser ==
    ASSUME IInv, NEW t \in Threads, txn[t] # NoTxn, ~txn[t].overlap \/ txn[t].opened \/ call[t] = NoCall,
           \A u \in Threads : u # t => ~txn[u].opened /\ call[u] = NoCall,
           txn'[t] \in Txn, txn'[t].kind = txn[t].kind, txn'[t].overlap = txn[t].overlap,
           txn'[t].opened = TRUE, call[t] # NoCall => N(txn'[t]) = N(txn[t]),
           \A u \in Threads : u # t =>
               /\ txn[u] = NoTxn => txn'[u] = NoTxn
               /\ txn[u] # NoTxn => /\ txn'[u].overlap = TRUE /\ txn'[u].opened = txn[u].opened
                                    /\ txn'[u].kind = txn[u].kind /\ txn'[u] # NoTxn,
           \A u \in Threads : (call'[u] # NoCall <=> call[u] # NoCall) /\ call'[u].op = call[u].op,
           UNCHANGED <<wmutex, dbimutex>>
    PROVE  SoleInv' /\ MutexInv'
<1>1. txn'[t] # NoTxn
  BY NoTxnIs
<1>2. \A u \in Threads : u # t => ~txn'[u].opened
  BY NoTxnIs
<1>3. SoleInv'
  <2>1. \A a, u \in Threads : txn'[a].opened /\ txn'[u].opened => a = u
    BY <1>2
  <2>2. \A a, u \in Threads : call'[a] # NoCall /\ txn'[u].opened => a = u
    BY <1>2
  <2>3. \A a, u \in Threads : txn'[a].opened /\ u # a /\ txn'[u] # NoTxn => txn'[u].overlap
    BY <1>2
  <2> QED BY <2>1, <2>2, <2>3 DEF SoleInv
<1>4. MutexInv'
  <2>1. /\ \A u \in Threads : txn[u].kind = "rw" <=> wmutex = u
        /\ \A u \in Threads : call[u] # NoCall <=> dbimutex = u
        /\ \A u \in Threads : call[u] # NoCall /\ txn[u] # NoTxn =>
              ~txn[u].overlap /\ N(txn[u]) = 1 /\ (txn[u].kind = "rw" <=> call[u].op = "create")
    BY DEF IInv, MutexInv
  <2>2. \A u \in Threads : txn'[u].kind = txn[u].kind
    BY NoTxnIs
  <2>3. \A u \in Threads : txn'[u].kind = "rw" <=> wmutex' = u
    BY <2>1, <2>2
  <2>4. \A u \in Threads : call'[u] # NoCall <=> dbimutex' = u
    BY <2>1
  <2>5. ASSUME NEW u \in Threads, call'[u] # NoCall, txn'[u] # NoTxn
        PROVE  ~txn'[u].overlap /\ N(txn'[u]) = 1 /\ (txn'[u].kind = "rw" <=> call'[u].op = "create")
    <3>1. u = t /\ call[t] # NoCall
      BY <2>5
    <3>2. ~txn[t].overlap /\ N(txn[t]) = 1 /\ (txn[t].kind = "rw" <=> call[t].op = "create")
      BY <2>1, <3>1
    <3> QED BY <3>1, <3>2
  <2> QED BY <2>3, <2>4, <2>5 DEF MutexInv
<1> QED BY <1>3, <1>4

\* What a call leaves of the calls.
SameCalls == /\ call' \in [Threads -> Call \cup {NoCall}]
             /\ \A u \in Threads : (call'[u] # NoCall <=> call[u] # NoCall) /\ call'[u].op = call[u].op

\* Who uses mdb_dbi_open does it alone.
MayUse(t) ==
    /\ txn[t].pc = "live" /\ ~txn[t].overlap
    /\ \A u \in Threads : u # t => ~txn[u].opened /\ call[u] = NoCall

\* A number with a name is known to the transaction that may open databases.
LEMMA SeenNames ==
    ASSUME IInv, NEW t \in Threads, MayUse(t), NEW r \in Dbis, names[r] # NoName
    PROVE  /\ r \in 1..Top(t).numdbs
           /\ r \in Shared.open \/ NewIn(txn[t], r)
<1>1. txn[t] # NoTxn /\ txn[t].pc = "live"
  BY NoTxnIs DEF MayUse
<1>2. PICK T \in Txn : T = txn[t] /\ TxnOK(T, Shared)
  BY <1>1, KindNone
<1>3. PICK n : n = N(T) /\ n \in Nat /\ n \in 1..n
  BY <1>2, TxnType DEF TxnOK, Shape
<1>4. PICK y \in Level : y = Top(t) /\ y = T.levels[n]
  BY <1>1, <1>2, <1>3, TopIs
<1>5. r \in Shared.open \/ NewIn(T, r)
  <2>1. valid[r] \/ \E u \in Threads : NewIn(txn[u], r)
    BY DEF IInv, TableInv, NamedInv
  <2>2. \A u \in Threads : NewIn(txn[u], r) => u = t
    BY TxnAt DEF MayUse
  <2> QED BY <1>2, <2>1, <2>2, SharedIs
<1>6. Has(y, "VALID", r)
  <2>1. CASE r \in Shared.open
    BY <1>1, <1>2, <1>3, <1>4, <2>1 DEF TxnOK, SeesOK, MayUse
  <2>2. CASE NewIn(T, r)
    <3>1. PICK i \in 1..n : Has(T.levels[i], "NEW", r)
      BY <1>3, <2>2 DEF NewIn
    <3>2. Known(T.levels[n], r)
      BY <1>2, <1>3, <3>1, NewKnown
    <3> QED BY <1>4, <3>2 DEF Known
  <2> QED BY <1>5, <2>1, <2>2
<1>7. r <= y.numdbs
  BY <1>2, <1>3, <1>4, <1>6 DEF TxnOK, Shape, FlagsOK
<1>8. r \in 1..y.numdbs
  BY <1>4, <1>7, DbiAssumption, LevelType DEF Dbis
<1> QED BY <1>2, <1>4, <1>5, <1>8

\* The transaction, with its last level replaced, has used mdb_dbi_open.
Using(W) == [W EXCEPT !.opened = TRUE]

\* The transaction that uses it.
LEMMA UsingIs ==
    ASSUME NEW W \in Txn, NEW V, V = Using(W)
    PROVE  /\ V \in Txn /\ V.levels = W.levels /\ V.kind = W.kind /\ V.seqs = W.seqs
           /\ V.offered = W.offered /\ V.pc = W.pc /\ V.opened = TRUE /\ V.overlap = W.overlap
<1>1. /\ V.levels = W.levels /\ V.kind = W.kind /\ V.seqs = W.seqs
      /\ V.offered = W.offered /\ V.pc = W.pc /\ V \in Txn
  BY DEF Txn, Using
<1>2. V.opened = TRUE /\ V.overlap = W.overlap
  BY DEF Txn, Using
<1> QED BY <1>1, <1>2

\* The others, when they have overlapped a use of mdb_dbi_open.
LEMMA TouchedIs ==
    ASSUME IInv, NEW u \in Threads, NEW U2, Touched(U2, txn[u])
    PROVE  /\ txn[u] = NoTxn => U2 = NoTxn
           /\ txn[u] # NoTxn => /\ U2 \in Txn /\ U2 # NoTxn /\ TxnOK(U2, Shared)
                                /\ U2.opened = txn[u].opened /\ U2.overlap = TRUE /\ U2.kind = txn[u].kind
                                /\ U2.levels = txn[u].levels /\ U2.pc = txn[u].pc
                                /\ U2.offered = txn[u].offered
<1>1. CASE txn[u] = NoTxn
  BY <1>1 DEF Touched
<1>2. CASE txn[u] # NoTxn
  <2>1. PICK U \in Txn : U = txn[u] /\ TxnOK(U, Shared)
    BY <1>2, KindNone
  <2>2. U2 = Overlapping(U)
    BY <1>2, <2>1 DEF Touched
  <2>3. OverlappedIs(U2, U, Shared)
    BY <2>1, <2>2, Overlapped
  <2>4. TxnOK(U2, Shared) /\ U2 \in Txn /\ U2.opened = U.opened /\ U2.overlap = TRUE /\ U2.kind = U.kind
        /\ U2.levels = U.levels /\ U2.pc = U.pc /\ U2.offered = U.offered
    BY <2>3 DEF OverlappedIs
  <2> QED BY <1>2, <2>1, <2>4, NoTxnIs
<1> QED BY <1>1, <1>2

\* mdb_dbi_open of a database that has a number.
LEMMA OpenKnownStep ==
    ASSUME IInv, NEW t \in Threads, NEW n \in Names, MayUse(t), OpenKnown(t, n), SameCalls,
           UNCHANGED <<valid, numdbs, main, wmutex, dbimutex, held, saved>>
    PROVE  IInv'
<1>1. txn[t] # NoTxn /\ txn[t].pc = "live" /\ ~txn[t].overlap
  BY NoTxnIs DEF MayUse
<1>2. PICK g \in Tables : g = Shared /\ TableOK(g) /\ g.names = names
  BY SharedType, SharedIs DEF IInv, TableInv
<1>3. PICK T \in Txn : T = txn[t] /\ TxnOK(T, g) /\ T.kind \in {"ro", "rw"} /\ T.levels # <<>>
  BY <1>1, <1>2, KindNone
<1>4. PICK y \in Level : y = Top(t) /\ y = T.levels[N(T)]
  BY <1>1, <1>3, TopIs
<1>5. PICK s : s = Min(Registered(y, n))
  OBVIOUS
<1>6. s \in Dbis /\ names[s] = n
  <2>1. Registered(y, n) # {}
    BY <1>4 DEF OpenKnown
  <2>2. Registered(y, n) \subseteq Nat
    BY DEF Registered
  <2>3. s \in Registered(y, n)
    BY <1>5, <2>1, <2>2, MinIsLeast
  <2>4. 1..y.numdbs \subseteq Dbis
    BY DbiAssumption, LevelType DEF Dbis
  <2> QED BY <2>3, <2>4 DEF Registered
<1>7. s \in g.open \/ NewIn(T, s)
  <2>1. names[s] # NoName
    BY <1>6, DbiAssumption
  <2> QED BY <1>2, <1>3, <1>6, <2>1, SeenNames
<1>8. PICK x : x = [y EXCEPT !.mine = @ \cup {<<s, n>>}]
  OBVIOUS
<1>9. x \in Level /\ Alike(x, y) /\ x.mine = y.mine \cup {<<s, n>>}
  <2>1. <<s, n>> \in Pairs
    BY <1>6 DEF Pairs
  <2>2. y.mine \cup {<<s, n>>} \in SUBSET Pairs
    BY <2>1, LevelType
  <2> QED BY <1>8, <2>2 DEF Level, Alike
<1>10. PICK W : W = Leveled(T, Tipped(T.levels, x))
  OBVIOUS
<1>11. /\ W \in Txn /\ Same(W, T) /\ W.pc = T.pc /\ W.opened = T.opened
       /\ W.kind = T.kind /\ W.overlap = T.overlap /\ Topped(W, T, x) /\ N(W) = N(T)
  BY <1>3, <1>9, <1>10, WithTopIs
<1>12. PICK V : V = Using(W)
  OBVIOUS
<1>13. /\ V \in Txn /\ V.levels = W.levels /\ V.kind = W.kind /\ V.seqs = W.seqs
       /\ V.offered = W.offered /\ V.pc = W.pc /\ V.opened = TRUE /\ V.overlap = W.overlap
  BY <1>11, <1>12, UsingIs
<1>14. txn' = Uses(t, W) /\ UNCHANGED <<names, seqs>>
  <2>1. txn' = Uses(t, WithTop(t, x)) /\ UNCHANGED <<names, seqs>>
    BY <1>4, <1>5, <1>8 DEF OpenKnown
  <2>2. WithTop(t, x) = W
    BY <1>3, <1>10 DEF WithTop, Leveled, Tipped
  <2> QED BY <2>1, <2>2
<1>15. /\ txn' \in [Threads -> {txn'[u] : u \in Threads}] /\ txn'[t] = V
       /\ \A u \in Threads : u # t => Touched(txn'[u], txn[u])
  BY <1>12, <1>14, UsesIs DEF Using
<1>16. Same(V, T) /\ Topped(V, T, x) /\ N(V) = N(T) /\ V.pc = T.pc
  BY <1>11, <1>13 DEF Same, Topped, N
<1>17. TxnOK(V, g) /\ \A r \in Dbis : NewIn(V, r) <=> NewIn(T, r)
  <2>1. x.mine = y.mine \cup {<<s, g.names[s]>>}
    BY <1>2, <1>6, <1>9
  <2>2. T.pc = "live" /\ ~T.overlap
    BY <1>1, <1>3
  <2> QED BY <1>2, <1>3, <1>4, <1>6, <1>7, <1>9, <1>13, <1>16, <2>1, <2>2, OpenedOK, ZenonT(60)
<1>18. \A u \in Threads : u # t =>
           /\ txn[u] = NoTxn => txn'[u] = NoTxn
           /\ txn[u] # NoTxn => /\ txn'[u] \in Txn /\ txn'[u] # NoTxn /\ TxnOK(txn'[u], g)
                                /\ txn'[u].opened = txn[u].opened /\ txn'[u].overlap = TRUE
                                /\ txn'[u].kind = txn[u].kind /\ txn'[u].levels = txn[u].levels
  BY <1>2, <1>15, TouchedIs
<1>19. txn' \in [Threads -> Txn \cup {NoTxn}]
  <2>1. \A u \in Threads : txn'[u] \in Txn \cup {NoTxn}
    BY <1>13, <1>15, <1>18
  <2> QED BY <1>15, <2>1
<1>20. TypeInv'
  BY <1>14, <1>19 DEF IInv, TypeInv, SameCalls
<1>21. Shared' = g
  BY <1>2, <1>14 DEF Shared
<1>22. SoleInv' /\ MutexInv'
  <2>1. \A u \in Threads : u # t => ~txn[u].opened /\ call[u] = NoCall
    BY DEF MayUse
  <2>2. txn'[t] \in Txn /\ txn'[t].kind = txn[t].kind /\ txn'[t].overlap = txn[t].overlap
        /\ txn'[t].opened = TRUE /\ N(txn'[t]) = N(txn[t])
    BY <1>3, <1>11, <1>13, <1>15, <1>16
  <2>3. \A u \in Threads : (call'[u] # NoCall <=> call[u] # NoCall) /\ call'[u].op = call[u].op
    BY DEF SameCalls
  <2> QED BY <1>1, <1>18, <2>1, <2>2, <2>3, SoleUser
<1>23. TxnsInv'
  <2>1. \A u \in Threads : txn'[u] # NoTxn => TxnOK(txn'[u], Shared')
    BY <1>15, <1>17, <1>18, <1>21
  <2> QED BY <2>1 DEF TxnsInv
<1>24. TableInv'
  <2>1. \A r \in Dbis : names[r] # NoName => valid[r] \/ \E u \in Threads : NewIn(txn[u], r)
    BY DEF IInv, TableInv, NamedInv
  <2>2. \A u \in Threads, r \in Dbis : NewIn(txn[u], r) => NewIn(txn'[u], r)
    <3> TAKE u \in Threads, r \in Dbis
    <3>1. CASE u = t
      BY <1>3, <1>15, <1>17, <3>1
    <3>2. CASE u # t
      BY <1>18, <3>2 DEF NewIn, N
    <3> QED BY <3>1, <3>2
  <2>3. NamedInv'
    <3>1. \A r \in Dbis : names'[r] # NoName => valid'[r] \/ \E u \in Threads : NewIn(txn'[u], r)
      BY <1>14, <2>1, <2>2
    <3> QED BY <3>1 DEF NamedInv
  <2>4. main' = saved'
    BY DEF IInv, TableInv
  <2> QED BY <1>2, <1>21, <2>3, <2>4 DEF TableInv
<1> QED BY <1>20, <1>22, <1>23, <1>24 DEF IInv

\* The level of a transaction that has opened another database.
LEMMA NewLevel ==
    ASSUME NEW y \in Level, NEW s \in Dbis, NEW m \in Names, NEW x, x = NewDb(y, s, m)
    PROVE  /\ x \in Level /\ NewRecord(x, y, s, m)
           /\ y.main[m] # Absent => x.main = y.main /\ x.want = y.want
<1>a. PICK new \in BOOLEAN : new <=> y.main[m] = Absent
  OBVIOUS
<1>b. x = [y EXCEPT !.numdbs = Max({y.numdbs, s}),
                    !.flags[s] = {"NEW", "VALID"} \cup IF new THEN {"DIRTY"} ELSE {},
                    !.dbs[s] = IF new THEN 0 ELSE y.main[m],
                    !.main[m] = IF new THEN 0 ELSE y.main[m],
                    !.want[m] = IF new THEN 0 ELSE y.want[m],
                    !.mine = y.mine \cup {<<s, m>>}]
  BY <1>a DEF NewDb
<1>1. /\ y.numdbs \in 0..MaxDbs /\ y.flags \in [Dbis -> SUBSET FlagNames]
      /\ y.dbs \in [Dbis -> Contents] /\ y.main \in View /\ y.mine \in SUBSET Pairs /\ y.want \in View
  BY LevelType
<1>2. PICK f : f = [y.flags EXCEPT ![s] = {"NEW", "VALID"} \cup IF new THEN {"DIRTY"} ELSE {}]
  OBVIOUS
<1>3. PICK d : d = [y.dbs EXCEPT ![s] = IF new THEN 0 ELSE y.main[m]]
  OBVIOUS
<1>4. PICK a : a = [y.main EXCEPT ![m] = IF new THEN 0 ELSE y.main[m]]
  OBVIOUS
<1>5. PICK b : b = [y.want EXCEPT ![m] = IF new THEN 0 ELSE y.want[m]]
  OBVIOUS
<1>6. PICK k : k = Max({y.numdbs, s})
  OBVIOUS
<1>7. k \in 0..MaxDbs /\ y.numdbs <= k /\ s <= k
  <2>1. y.numdbs \in Nat /\ s \in Nat /\ s \in 0..MaxDbs
    BY <1>1, DbiAssumption DEF Dbis
  <2>2. k = IF y.numdbs <= s THEN s ELSE y.numdbs
    BY <1>6, <2>1, MaxOfTwo
  <2> QED BY <1>1, <2>1, <2>2
<1>8. f \in [Dbis -> SUBSET FlagNames] /\ f[s] = {"NEW", "VALID"} \cup (IF new THEN {"DIRTY"} ELSE {})
      /\ \A r \in Dbis \ {s} : f[r] = y.flags[r]
  BY <1>1, <1>2 DEF FlagNames
<1>9. y.main[m] \in Contents /\ y.want[m] \in Contents /\ 0 \in Contents
  BY <1>1 DEF View, Contents
<1>10. d \in [Dbis -> Contents] /\ d[s] = (IF new THEN 0 ELSE y.main[m]) /\ \A r \in Dbis \ {s} : d[r] = y.dbs[r]
  BY <1>1, <1>3, <1>9
<1>11. a \in View /\ a[m] = (IF new THEN 0 ELSE y.main[m]) /\ \A c \in Names \ {m} : a[c] = y.main[c]
  BY <1>1, <1>4, <1>9 DEF View
<1>12. b \in View /\ b[m] = (IF new THEN 0 ELSE y.want[m]) /\ \A c \in Names \ {m} : b[c] = y.want[c]
  BY <1>1, <1>5, <1>9 DEF View
<1>13. PICK e : e = y.mine \cup {<<s, m>>}
  OBVIOUS
<1>14. e \in SUBSET Pairs
  <2>1. <<s, m>> \in Pairs
    BY DEF Pairs
  <2> QED BY <1>1, <1>13, <2>1
<1>15. x = [y EXCEPT !.numdbs = k, !.flags = f, !.dbs = d, !.main = a, !.want = b, !.mine = e]
  BY <1>2, <1>3, <1>4, <1>5, <1>6, <1>13, <1>b
<1>16. x \in Level /\ x.numdbs = k /\ x.flags = f /\ x.dbs = d /\ x.main = a /\ x.want = b /\ x.mine = e
  BY <1>7, <1>8, <1>10, <1>11, <1>12, <1>14, <1>15 DEF Level
<1>17. Has(x, "NEW", s) /\ Known(x, s) /\ (new => Has(x, "DIRTY", s))
  BY <1>8, <1>16 DEF Has, Known
<1>18. NewRecord(x, y, s, m)
  BY <1>7, <1>8, <1>10, <1>11, <1>12, <1>13, <1>16, <1>17, <1>a DEF NewRecord
<1>19. ~new => x.main = y.main /\ x.want = y.want
  BY <1>1, <1>4, <1>5, <1>16 DEF View
<1> QED BY <1>16, <1>18, <1>19, <1>a

\* The number that gets the name: it has none yet, and no other number has the name.
LEMMA SlotIs ==
    ASSUME IInv, NEW t \in Threads, MayUse(t), NEW n \in Names, NEW s,
           Registered(Top(t), n) = {}, s = SlotFor(Top(t)), s <= MaxDbs
    PROVE  s \in Dbis /\ names[s] = NoName /\ \A r \in Dbis : names[r] # n
<1>1. txn[t] # NoTxn
  BY NoTxnIs DEF MayUse
<1>2. PICK y \in Level : y = Top(t)
  BY <1>1, TopIs
<1>3. y.numdbs \in Nat /\ MaxDbs \in Nat
  BY LevelType, DbiAssumption
<1>4. PICK F : F = {r \in 1..y.numdbs : names[r] = NoName} \cup {y.numdbs + 1}
  OBVIOUS
<1>5. s \in F
  <2>1. F \subseteq Nat /\ F # {}
    BY <1>3, <1>4
  <2>2. Min(F) \in F
    BY <2>1, MinIsLeast
  <2> QED BY <1>2, <1>4, <2>2 DEF SlotFor
<1>6. s \in Dbis
  BY <1>3, <1>4, <1>5 DEF Dbis
<1>7. names[s] = NoName
  <2>1. CASE s \in 1..y.numdbs
    BY <1>3, <1>4, <1>5, <2>1
  <2>2. CASE s \notin 1..y.numdbs
    BY <1>2, <1>6, <2>2, SeenNames
  <2> QED BY <2>1, <2>2
<1>8. ASSUME NEW r \in Dbis, names[r] = n PROVE FALSE
  <2>1. r \in 1..y.numdbs
    BY <1>2, <1>8, DbiAssumption, SeenNames
  <2> QED BY <1>2, <1>8, <2>1 DEF Registered
<1> QED BY <1>6, <1>7, <1>8

\* mdb_dbi_open of a database that has none.
LEMMA OpenNewStep ==
    ASSUME IInv, ~OpenDuringBegin, NEW t \in Threads, NEW n \in Names, NEW create, MayUse(t), OpenNew(t, n, create),
           create => txn[t].kind = "rw", SameCalls,
           UNCHANGED <<valid, numdbs, main, wmutex, dbimutex, held, saved>>
    PROVE  IInv'
<1>1. txn[t] # NoTxn /\ txn[t].pc = "live" /\ ~txn[t].overlap
  BY NoTxnIs DEF MayUse
<1>2. PICK g \in Tables : g = Shared /\ TableOK(g) /\ g.names = names /\ g.seqs = seqs
  BY SharedType, SharedIs DEF IInv, TableInv
<1>3. PICK T \in Txn : T = txn[t] /\ TxnOK(T, g) /\ T.kind \in {"ro", "rw"} /\ T.levels # <<>>
  BY <1>1, <1>2, KindNone
<1>4. PICK y \in Level : y = Top(t) /\ y = T.levels[N(T)]
  BY <1>1, <1>3, TopIs
<1>5. PICK s : s = SlotFor(y)
  OBVIOUS
<1>7. PICK x : x = NewDb(y, s, n)
  OBVIOUS
<1>8. /\ Registered(y, n) = {} /\ s <= MaxDbs /\ (y.main[n] = Absent => create) /\ BeginsUndisturbed
      /\ names' = [names EXCEPT ![s] = n] /\ seqs' = [seqs EXCEPT ![s] = seqs[s] + 1]
  BY <1>4, <1>5 DEF OpenNew
<1>9. PICK W : W = Leveled(T, Tipped(T.levels, x))
  OBVIOUS
<1>10. PICK Z : Z = IF T.kind = "ro" THEN W ELSE [W EXCEPT !.seqs[s] = seqs[s] + 1]
  OBVIOUS
<1>11. txn' = Uses(t, Z)
  <2>3. txn' = Uses(t, IF txn[t].kind = "ro" THEN WithTop(t, x)
                       ELSE [WithTop(t, x) EXCEPT !.seqs[s] = seqs[s] + 1])
    BY <1>4, <1>5, <1>7 DEF OpenNew
  <2>4. WithTop(t, x) = W
    BY <1>3, <1>9 DEF WithTop, Leveled, Tipped
  <2> QED BY <1>3, <1>10, <2>3, <2>4
<1>12. s \in Dbis /\ names[s] = NoName /\ \A r \in Dbis : names[r] # n
  BY <1>4, <1>5, <1>8, SlotIs
<1>13. x \in Level /\ NewRecord(x, y, s, n) /\ (y.main[n] # Absent => x.main = y.main /\ x.want = y.want)
  BY <1>7, <1>12, NewLevel
<1>14. /\ W \in Txn /\ Same(W, T) /\ W.pc = T.pc /\ W.opened = T.opened
       /\ W.kind = T.kind /\ W.overlap = T.overlap /\ Topped(W, T, x) /\ N(W) = N(T)
  BY <1>3, <1>9, <1>13, WithTopIs
<1>15. names \in [Dbis -> Names \cup {NoName}] /\ seqs \in [Dbis -> Nat]
  BY DEF IInv, TypeInv
<1>16. T.kind = "rw" => T.seqs \in [Dbis -> Nat]
  BY <1>3 DEF TxnOK, RwOK
<1>17. /\ Z \in Txn /\ Z.levels = W.levels /\ Z.kind = W.kind /\ Z.offered = W.offered /\ Z.pc = W.pc
       /\ Z.overlap = W.overlap
       /\ T.kind = "rw" => /\ Z.seqs \in [Dbis -> Nat] /\ Z.seqs[s] = seqs[s] + 1
                           /\ \A r \in Dbis \ {s} : Z.seqs[r] = T.seqs[r]
  <2>1. CASE T.kind = "ro"
    BY <1>10, <1>14, <2>1
  <2>2. CASE T.kind # "ro"
    <3>1. W.seqs = T.seqs /\ T.seqs \in [Dbis -> Nat] /\ T.kind = "rw"
      BY <1>3, <1>14, <1>16, <2>2 DEF Same
    <3>2. PICK q : q = [T.seqs EXCEPT ![s] = seqs[s] + 1]
      OBVIOUS
    <3>3. q \in [Dbis -> Nat] /\ q[s] = seqs[s] + 1 /\ \A r \in Dbis \ {s} : q[r] = T.seqs[r]
      BY <1>12, <1>15, <3>1, <3>2
    <3>4. Z = [W EXCEPT !.seqs = q]
      BY <1>10, <2>2, <3>1, <3>2
    <3>5. Z \in Txn /\ Z.levels = W.levels /\ Z.kind = W.kind /\ Z.offered = W.offered /\ Z.pc = W.pc
          /\ Z.seqs = q
      BY <1>14, <3>3, <3>4 DEF Txn
    <3>6. Z.overlap = W.overlap
      BY <1>14, <3>4 DEF Txn
    <3> QED BY <3>3, <3>5, <3>6
  <2> QED BY <2>1, <2>2
<1>18. PICK V : V = Using(Z)
  OBVIOUS
<1>19. /\ V \in Txn /\ V.levels = Z.levels /\ V.kind = Z.kind /\ V.seqs = Z.seqs
       /\ V.offered = Z.offered /\ V.pc = Z.pc /\ V.opened = TRUE /\ V.overlap = Z.overlap
  BY <1>17, <1>18, UsingIs
<1>20. /\ txn' \in [Threads -> {txn'[u] : u \in Threads}] /\ txn'[t] = V
       /\ \A u \in Threads : u # t => Touched(txn'[u], txn[u])
  BY <1>11, <1>18, UsesIs DEF Using
<1>21. V.kind = T.kind /\ V.offered = T.offered /\ V.overlap = T.overlap /\ V.pc = T.pc
       /\ Topped(V, T, x) /\ N(V) = N(T)
  BY <1>14, <1>17, <1>19 DEF Same, Topped, N
<1>22. \A u \in Threads : u # t =>
           /\ txn[u] = NoTxn => txn'[u] = NoTxn
           /\ txn[u] # NoTxn => /\ txn'[u] \in Txn /\ txn'[u] # NoTxn /\ TxnOK(txn'[u], g)
                                /\ txn'[u].opened = txn[u].opened /\ txn'[u].overlap = TRUE
                                /\ txn'[u].kind = txn[u].kind /\ txn'[u].levels = txn[u].levels
                                /\ txn'[u].pc = txn[u].pc
  BY <1>2, <1>20, TouchedIs
<1>23. txn' \in [Threads -> Txn \cup {NoTxn}]
  <2>1. \A u \in Threads : txn'[u] \in Txn \cup {NoTxn}
    BY <1>19, <1>20, <1>22
  <2> QED BY <1>20, <2>1
<1>24. /\ names' \in [Dbis -> Names \cup {NoName}] /\ seqs' \in [Dbis -> Nat]
       /\ names'[s] = n /\ seqs'[s] = seqs[s] + 1 /\ seqs[s] \in Nat
       /\ \A r \in Dbis \ {s} : names'[r] = names[r] /\ seqs'[r] = seqs[r]
  BY <1>8, <1>12, <1>15
<1>25. TypeInv'
  BY <1>23, <1>24 DEF IInv, TypeInv, SameCalls
<1>26. PICK h \in Tables : h = Shared'
  BY <1>25, TypeNext
<1>27. h.open = g.open /\ h.numdbs = g.numdbs /\ h.main = g.main /\ h.held = g.held
       /\ h.names = names' /\ h.seqs = seqs'
  BY <1>2, <1>26, SharedIs, SharedNext
<1>28. Renamed(h, g, s, n)
  BY <1>2, <1>24, <1>27 DEF Renamed
<1>29. TxnOK(V, h) /\ \A r \in Dbis : NewIn(V, r) <=> NewIn(T, r) \/ r = s
  <2>1. T.kind = "ro" => y.main[n] # Absent /\ x.main = y.main /\ x.want = y.want
    BY <1>3, <1>8, <1>13
  <2>2. T.pc = "live" /\ ~T.overlap /\ g.names[s] = NoName /\ \A r \in Dbis : g.names[r] # n
    BY <1>1, <1>2, <1>3, <1>12
  <2>3. T.kind = "rw" => /\ V.seqs \in [Dbis -> Nat] /\ V.seqs[s] = h.seqs[s]
                         /\ \A r \in Dbis \ {s} : V.seqs[r] = T.seqs[r]
    BY <1>17, <1>19, <1>24, <1>27
  <2>4. Renewed(V, T, h, s)
    BY <1>19, <1>21, <2>3 DEF Renewed
  <2> QED BY <1>2, <1>3, <1>4, <1>12, <1>13, <1>19, <1>21, <1>26, <1>28, <2>1, <2>2, <2>4, NewlyOpenedOK
<1>30. s \notin g.open
  BY <1>2, <1>12 DEF TableOK
<1>31. \A u \in Threads : u # t /\ txn[u] # NoTxn => TxnOK(txn'[u], h)
  <2> SUFFICES ASSUME NEW u \in Threads, u # t, txn[u] # NoTxn PROVE TxnOK(txn'[u], h)
    OBVIOUS
  <2>1. PICK U \in Txn : /\ U = txn'[u] /\ TxnOK(U, g) /\ U.opened = txn[u].opened /\ U.overlap = TRUE
                         /\ U.kind = txn[u].kind /\ U.pc = txn[u].pc
    BY <1>22
  <2>2. ~U.opened /\ U.overlap
    BY <2>1 DEF MayUse
  <2>3. ~(U.kind = "rw" /\ U.pc = "begin")
    BY <1>8, <2>1 DEF BeginsUndisturbed
  <2>4. PICK S : S = {s}
    OBVIOUS
  <2>5. S \cap g.open = {}
    BY <1>30, <2>4
  <2>6. \A r \in Dbis \ S : h.names[r] = g.names[r] /\ h.seqs[r] = g.seqs[r]
    BY <1>28, <2>4 DEF Renamed
  <2>7. \A r \in Dbis : g.seqs[r] <= h.seqs[r]
    <3>1. \A r \in Dbis : g.seqs[r] \in Nat
      BY DEF Tables
    <3>2. \A r \in Dbis : r = s \/ h.seqs[r] = g.seqs[r]
      BY <1>28 DEF Renamed
    <3> QED BY <1>28, <3>1, <3>2 DEF Renamed
  <2> QED BY <1>2, <1>26, <1>27, <2>1, <2>2, <2>3, <2>5, <2>6, <2>7, Elsewhere
<1>32. TxnsInv'
  <2>1. \A u \in Threads : txn'[u] # NoTxn => TxnOK(txn'[u], Shared')
    BY <1>20, <1>22, <1>26, <1>29, <1>31
  <2> QED BY <2>1 DEF TxnsInv
<1>33. SoleInv' /\ MutexInv'
  <2>1. \A u \in Threads : u # t => ~txn[u].opened /\ call[u] = NoCall
    BY DEF MayUse
  <2>2. txn'[t] \in Txn /\ txn'[t].kind = txn[t].kind /\ txn'[t].overlap = txn[t].overlap
        /\ txn'[t].opened = TRUE /\ N(txn'[t]) = N(txn[t])
    BY <1>3, <1>19, <1>20, <1>21
  <2>3. \A u \in Threads : (call'[u] # NoCall <=> call[u] # NoCall) /\ call'[u].op = call[u].op
    BY DEF SameCalls
  <2> QED BY <1>1, <1>22, <2>1, <2>2, <2>3, SoleUser
<1>34. TableOK(h)
  <2>1. \A r \in g.open : r \in Dbis \ {s}
    BY <1>30 DEF Tables
  <2>2. \A r \in Dbis \ {s} : h.names[r] = g.names[r]
    BY <1>28 DEF Renamed
  <2>3. \A r \in h.open : h.names[r] # NoName /\ r <= h.numdbs /\ h.main[h.names[r]] # Absent
    BY <1>2, <1>27, <2>1, <2>2 DEF TableOK
  <2>4. \A a, r \in Dbis : h.names[a] # NoName /\ h.names[a] = h.names[r] => a = r
    <3>1. \A a, r \in Dbis : g.names[a] # NoName /\ g.names[a] = g.names[r] => a = r
      BY <1>2 DEF TableOK
    <3>2. h.names[s] = n /\ \A r \in Dbis \ {s} : h.names[r] # n
      BY <1>2, <1>12, <1>24, <1>27, <2>2
    <3> QED BY <2>2, <3>1, <3>2
  <2>5. \A e \in h.held : e[1] \in h.open /\ h.names[e[1]] = e[2]
    BY <1>2, <1>27, <2>1, <2>2 DEF TableOK
  <2> QED BY <2>3, <2>4, <2>5 DEF TableOK
<1>35. TableInv'
  <2>1. \A r \in Dbis : names[r] # NoName => valid[r] \/ \E u \in Threads : NewIn(txn[u], r)
    BY DEF IInv, TableInv, NamedInv
  <2>2. \A u \in Threads, r \in Dbis : NewIn(txn[u], r) => NewIn(txn'[u], r)
    <3> TAKE u \in Threads, r \in Dbis
    <3>1. CASE u = t
      BY <1>3, <1>20, <1>29, <3>1
    <3>2. CASE u # t
      BY <1>22, <3>2 DEF NewIn, N
    <3> QED BY <3>1, <3>2
  <2>3. NewIn(txn'[t], s)
    BY <1>12, <1>20, <1>29
  <2>4. NamedInv'
    <3>1. \A r \in Dbis : names'[r] # NoName => valid'[r] \/ \E u \in Threads : NewIn(txn'[u], r)
      BY <1>24, <2>1, <2>2, <2>3
    <3> QED BY <3>1 DEF NamedInv
  <2>5. main' = saved'
    BY DEF IInv, TableInv
  <2> QED BY <1>26, <1>34, <2>4, <2>5 DEF TableInv
<1> QED BY <1>25, <1>32, <1>33, <1>35 DEF IInv

\* Database::new in a transaction of the application.
LEMMA OpenInTxnStep ==
    ASSUME IInv, ~OpenDuringBegin, NEW t \in Threads, NEW n \in Names, NEW create \in BOOLEAN,
           OpenInTxn(t, n, create)
    PROVE  IInv'
<1>1. Live(t) /\ call[t] = NoCall /\ MayOpen(t) /\ (create => txn[t].kind = "rw")
  BY DEF OpenInTxn
<1>2. MayUse(t)
  BY <1>1 DEF MayOpen, MayUse, Live
<1>3. UNCHANGED <<valid, numdbs, main, wmutex, dbimutex, call, held, saved>>
  BY DEF OpenInTxn
<1>4. SameCalls
  BY <1>3 DEF IInv, TypeInv, SameCalls
<1>5. CASE OpenKnown(t, n)
  BY <1>2, <1>3, <1>4, <1>5, OpenKnownStep
<1>6. CASE OpenNew(t, n, create)
  BY <1>1, <1>2, <1>3, <1>4, <1>6, OpenNewStep
<1> QED BY <1>5, <1>6 DEF OpenInTxn

\* Database::new in the transaction of open_db or create_db.
LEMMA OpenInCallStep ==
    ASSUME IInv, ~OpenDuringBegin, NEW t \in Threads, OpenInCall(t)
    PROVE  IInv'
<1>1. txn[t].pc = "live" /\ call[t] # NoCall /\ txn[t] # NoTxn /\ call' = [call EXCEPT ![t].done = TRUE]
  BY NoTxnIs DEF OpenInCall, Live
<1>2. UNCHANGED <<valid, numdbs, main, wmutex, dbimutex, held, saved>>
  BY DEF OpenInCall
<1>3. call[t] \in Call /\ call \in [Threads -> Call \cup {NoCall}]
  BY <1>1 DEF IInv, TypeInv
<1>4. PICK c : c = [call[t] EXCEPT !.done = TRUE]
  OBVIOUS
<1>5. c \in Call /\ c.op = call[t].op /\ c.name = call[t].name
  BY <1>3, <1>4 DEF Call
<1>6. c # NoCall
  BY <1>5 DEF Call, NoCall
<1>7. call' = [call EXCEPT ![t] = c]
  BY <1>1, <1>4
<1>8. SameCalls
  <2>1. call' \in [Threads -> Call \cup {NoCall}] /\ call'[t] = c /\ \A u \in Threads : u # t => call'[u] = call[u]
    BY <1>3, <1>5, <1>7
  <2> QED BY <1>1, <1>5, <1>6, <2>1 DEF SameCalls
<1>9. /\ \A u \in Threads : call[u] # NoCall => u = t
      /\ \A u \in Threads : txn[u].opened => u = t
      /\ ~txn[t].overlap /\ (txn[t].kind = "rw" <=> call[t].op = "create")
  <2>1. \A u \in Threads : call[u] # NoCall <=> dbimutex = u
    BY DEF IInv, MutexInv
  <2>2. ~txn[t].overlap /\ (txn[t].kind = "rw" <=> call[t].op = "create")
    BY <1>1 DEF IInv, MutexInv
  <2>3. \A u \in Threads : txn[u].opened => u = t
    BY <1>1 DEF IInv, SoleInv
  <2> QED BY <1>1, <2>1, <2>2, <2>3
<1>10. MayUse(t)
  BY <1>1, <1>9 DEF MayUse
<1>11. PICK n \in Names : n = call[t].name
  BY <1>3 DEF Call
<1>12. PICK create : create = (call[t].op = "create")
  OBVIOUS
<1>13. OpenKnown(t, n) \/ OpenNew(t, n, create) \/ UNCHANGED <<names, seqs, txn>>
  BY <1>11, <1>12 DEF OpenInCall
<1>14. CASE OpenKnown(t, n)
  BY <1>2, <1>8, <1>10, <1>14, OpenKnownStep
<1>15. CASE OpenNew(t, n, create)
  <2>1. create => txn[t].kind = "rw"
    BY <1>9, <1>12
  <2> QED BY <1>2, <1>8, <1>10, <1>15, <2>1, OpenNewStep
<1>16. CASE UNCHANGED <<names, seqs, txn>>
  <2>1. Shared' = Shared
    BY <1>2, <1>16 DEF Shared
  <2>2. TypeInv'
    BY <1>2, <1>8, <1>16 DEF IInv, TypeInv, SameCalls
  <2>3. TableInv' /\ TxnsInv'
    BY <1>2, <1>16, <2>1 DEF IInv, TableInv, NamedInv, TxnsInv
  <2>4. \A u \in Threads : (call'[u] # NoCall <=> call[u] # NoCall) /\ call'[u].op = call[u].op
    BY <1>8 DEF SameCalls
  <2>5. SoleInv'
    BY <1>16, <2>4 DEF IInv, SoleInv
  <2>6. MutexInv'
    BY <1>2, <1>16, <2>4 DEF IInv, MutexInv
  <2> QED BY <2>2, <2>3, <2>5, <2>6 DEF IInv
<1> QED BY <1>13, <1>14, <1>15, <1>16

\* The handle of a database that is dropped is taken from all levels.
Purged(K, d) == [i \in DOMAIN K |-> [K[i] EXCEPT !.mine = @ \ {d}]]

\* A handle is withdrawn from every level.
LEMMA PurgedIs ==
    ASSUME NEW K \in Seq(Level), NEW d, NEW P, P = Purged(K, d)
    PROVE  /\ P \in Seq(Level) /\ Len(P) = Len(K)
           /\ \A i \in 1..Len(K) : Alike(P[i], K[i]) /\ P[i].mine = K[i].mine \ {d}
<1>1. PICK n \in Nat : n = Len(K) /\ DOMAIN K = 1..n
  OBVIOUS
<1>2. P = [i \in 1..n |-> [K[i] EXCEPT !.mine = @ \ {d}]]
  BY <1>1 DEF Purged
<1>3. \A i \in 1..n : P[i] \in Level /\ Alike(P[i], K[i]) /\ P[i].mine = K[i].mine \ {d}
  <2> TAKE i \in 1..n
  <2>1. PICK y \in Level : y = K[i]
    BY <1>1
  <2>2. PICK x : x = [y EXCEPT !.mine = @ \ {d}]
    OBVIOUS
  <2>3. P[i] = x
    BY <1>2, <2>1, <2>2
  <2>4. y.mine \ {d} \in SUBSET Pairs
    BY LevelType
  <2>5. x \in Level /\ Alike(x, y) /\ x.mine = y.mine \ {d}
    BY <2>2, <2>4 DEF Level, Alike
  <2> QED BY <2>1, <2>3, <2>5
<1>4. P \in [1..n -> Level]
  BY <1>2, <1>3
<1>5. P \in Seq(Level) /\ Len(P) = n
  BY <1>1, <1>2, <1>4
<1> QED BY <1>1, <1>3, <1>5

\* A handle is withdrawn from a transaction.
LEMMA WithdrawnIs ==
    ASSUME NEW U \in Txn, NEW d, NEW V, V = Withdrawn(U, d)
    PROVE  /\ V \in Txn /\ V.levels = U.levels /\ V.kind = U.kind /\ V.seqs = U.seqs
           /\ V.offered = U.offered \ {d} /\ V.pc = U.pc /\ V.opened = U.opened /\ V.overlap = U.overlap
<1>1. /\ V.levels = U.levels /\ V.kind = U.kind /\ V.seqs = U.seqs
      /\ V.offered = U.offered \ {d} /\ V.pc = U.pc /\ V \in Txn
  BY DEF Txn, Withdrawn
<1>2. V.opened = U.opened /\ V.overlap = U.overlap
  BY DEF Txn, Withdrawn
<1> QED BY <1>1, <1>2

\* A thread without a transaction has no handle to withdraw.
LEMMA NothingWithdrawn ==
    ASSUME NEW d
    PROVE  Withdrawn(NoTxn, d) = NoTxn
<1>1. PICK v, b : v = {} /\ b = FALSE
  OBVIOUS
<1>2. PICK X : X = [kind |-> "none", pc |-> "none", seqs |-> <<>>, levels |-> <<>>, offered |-> v,
                    opened |-> b, overlap |-> b]
  OBVIOUS
<1>3. X = NoTxn /\ X.offered \ {d} = v
  BY <1>1, <1>2 DEF NoTxn
<1>4. [X EXCEPT !.offered = v] = X
  BY <1>2, SMTT(30)
<1> QED BY <1>3, <1>4 DEF Withdrawn

\* The level of a transaction that has dropped a database.
LEMMA WithoutDbIs ==
    ASSUME NEW w \in Level, NEW y, NEW s \in Dbis, NEW m \in Names, Recorded(w, y, s, m),
           w.want = y.want, NEW x, x = WithoutDb(w, s, m)
    PROVE  x \in Level /\ DropRecord(x, y, s, m)
<1>1. /\ w.numdbs \in 0..MaxDbs /\ w.flags \in [Dbis -> SUBSET FlagNames] /\ w.dbs \in [Dbis -> Contents]
      /\ w.main \in View /\ w.mine \in SUBSET Pairs /\ w.want \in View
  BY LevelType
<1>2. PICK f : f = [w.flags EXCEPT ![s] = {"STALE"}]
  OBVIOUS
<1>3. PICK a : a = [w.main EXCEPT ![m] = Absent]
  OBVIOUS
<1>4. PICK b : b = [w.want EXCEPT ![m] = Absent]
  OBVIOUS
<1>5. PICK c : c = w.mine \ {<<s, m>>}
  OBVIOUS
<1>6. x = [w EXCEPT !.flags = f, !.main = a, !.want = b, !.mine = c]
  BY <1>2, <1>3, <1>4, <1>5 DEF WithoutDb
<1>7. f \in [Dbis -> SUBSET FlagNames] /\ f[s] = {"STALE"} /\ \A r \in Dbis \ {s} : f[r] = w.flags[r]
  BY <1>1, <1>2 DEF FlagNames
<1>8. a \in View /\ a[m] = Absent /\ \A k \in Names \ {m} : a[k] = w.main[k]
  BY <1>1, <1>3 DEF View, Contents
<1>9. b \in View /\ b[m] = Absent /\ \A k \in Names \ {m} : b[k] = w.want[k]
  BY <1>1, <1>4 DEF View, Contents
<1>10. c \in SUBSET Pairs
  BY <1>1, <1>5
<1>11. x \in Level /\ x.numdbs = w.numdbs /\ x.flags = f /\ x.dbs = w.dbs /\ x.main = a /\ x.want = b /\ x.mine = c
  BY <1>6, <1>7, <1>8, <1>9, <1>10 DEF Level
<1>12. /\ w.numdbs = y.numdbs /\ w.mine = y.mine /\ w.main = y.main
       /\ \A r \in Dbis \ {s} : w.flags[r] = y.flags[r] /\ w.dbs[r] = y.dbs[r]
  BY DEF Recorded
<1> QED BY <1>5, <1>7, <1>8, <1>9, <1>11, <1>12 DEF DropRecord

\* mdb_drop, with the handle deleted.
LEMMA DropDbStep ==
    ASSUME IInv, ~DropRaces, NEW t \in Threads, NEW e \in Handles(t), DropDb(t, e[1], e[2])
    PROVE  IInv'
<1>1. PICK s \in Dbis, m \in Names : s = e[1] /\ m = e[2] /\ names[s] = m
  BY HandlesAre
<1>2. PICK d : d = <<s, m>>
  OBVIOUS
<1>3. PICK g \in Tables : g = Shared /\ TableOK(g) /\ g.names = names /\ g.seqs = seqs
  BY SharedType, SharedIs DEF IInv, TableInv
<1>4. PICK w : w = Fresh(Top(t), s)
  OBVIOUS
<1>5. PICK x : x = WithoutDb(w, s, m)
  OBVIOUS
<1>6. DropDb(t, s, m)
  BY <1>1
<1>7. /\ Writes(t, s) /\ Readable(t, s) /\ ~Changed(t, s) /\ DropsAlone(t, s) /\ held' = held \ {d}
      /\ CloseDbis({s} \cap {i \in Dbis : names[i] # NoName})
      /\ UNCHANGED <<numdbs, main, wmutex, dbimutex, call, saved>>
  BY <1>2, <1>6 DEF DropDb
<1>8. txn[t].pc = "live" /\ txn[t] # NoTxn /\ txn[t].kind = "rw" /\ InUse(t, s)
  BY <1>7, NoTxnIs DEF Writes, InUse, Live
<1>9. PICK T \in Txn : T = txn[t] /\ TxnOK(T, g) /\ T.levels # <<>> /\ T.levels \in Seq(Level) /\ N(T) >= 1
  BY <1>3, <1>8, KindNone
<1>10. PICK n : n = N(T) /\ n \in Nat /\ n \in 1..n /\ n = Len(txn[t].levels)
  BY <1>9, TxnType DEF N
<1>11. PICK y \in Level : y = Top(t) /\ y = T.levels[n]
  BY <1>8, <1>9, <1>10, TopIs
<1>12. w \in Level /\ Recorded(w, y, s, m) /\ w.want = y.want
  BY <1>1, <1>4, <1>7, <1>8, <1>11, ReadableOK
<1>13. x \in Level /\ DropRecord(x, y, s, m)
  BY <1>5, <1>12, WithoutDbIs
<1>14. PICK W : W = Leveled(T, Tipped(T.levels, x))
  OBVIOUS
<1>15. /\ W \in Txn /\ Same(W, T) /\ W.pc = T.pc /\ W.opened = T.opened
       /\ W.kind = T.kind /\ W.overlap = T.overlap /\ Topped(W, T, x) /\ N(W) = N(T)
  BY <1>9, <1>13, <1>14, WithTopIs
<1>16. PICK P : P = Purged(W.levels, d)
  OBVIOUS
<1>17. /\ P \in Seq(Level) /\ Len(P) = n
       /\ \A i \in 1..n : Alike(P[i], W.levels[i]) /\ P[i].mine = W.levels[i].mine \ {d}
  <2>1. PICK K \in Seq(Level) : K = W.levels /\ Len(K) = n
    BY <1>10, <1>15, TxnType DEF N
  <2> QED BY <1>16, <2>1, PurgedIs
<1>18. PICK Z : Z = Leveled(W, P)
  OBVIOUS
<1>19. /\ Z \in Txn /\ Same(Z, W) /\ Z.levels = P /\ Z.pc = W.pc /\ Z.kind = W.kind /\ Z.overlap = W.overlap
  BY <1>15, <1>17, <1>18, WithLevels
<1>20. PICK f : f = Uses(t, Z)
  OBVIOUS
<1>21. txn' = [u \in Threads |-> Withdrawn(f[u], d)]
  <2>1. Dropped(t, s, m) = Z
    <3>1. WithTop(t, x) = W
      BY <1>9, <1>14 DEF WithTop, Leveled, Tipped
    <3>2. PICK B : B = WithTop(t, WithoutDb(Fresh(Top(t), s), s, m))
      OBVIOUS
    <3>3. B = W
      BY <1>4, <1>5, <3>1, <3>2
    <3>4. Dropped(t, s, m) = [B EXCEPT !.levels = [i \in DOMAIN B.levels |->
                                      [B.levels[i] EXCEPT !.mine = @ \ {<<s, m>>}]]]
      BY <3>2 DEF Dropped
    <3> QED BY <1>2, <1>16, <1>18, <3>3, <3>4 DEF Leveled, Purged
  <2>2. PICK z : z = Dropped(t, s, m)
    OBVIOUS
  <2>3. txn' = [u \in Threads |-> [Uses(t, z)[u] EXCEPT !.offered = @ \ {<<s, m>>}]]
    BY <1>6, <2>2 DEF DropDb
  <2> QED BY <1>2, <1>20, <2>1, <2>2, <2>3 DEF Withdrawn
<1>22. f[t] = Using(Z) /\ \A u \in Threads : u # t => Touched(f[u], txn[u])
  BY <1>20, UsesIs DEF Using
<1>23. PICK V : V = Withdrawn(f[t], d)
  OBVIOUS
<1>24. /\ V \in Txn /\ V.levels = P /\ V.kind = T.kind /\ V.seqs = T.seqs /\ V.offered = T.offered \ {d}
       /\ V.pc = T.pc /\ V.opened = TRUE /\ V.overlap = T.overlap
  <2>1. PICK X : X = Using(Z)
    OBVIOUS
  <2>2. /\ X \in Txn /\ X.levels = Z.levels /\ X.kind = Z.kind /\ X.seqs = Z.seqs
        /\ X.offered = Z.offered /\ X.pc = Z.pc /\ X.opened = TRUE /\ X.overlap = Z.overlap
    BY <1>19, <2>1, UsingIs
  <2>3. /\ V \in Txn /\ V.levels = X.levels /\ V.kind = X.kind /\ V.seqs = X.seqs
        /\ V.offered = X.offered \ {d} /\ V.pc = X.pc /\ V.opened = X.opened /\ V.overlap = X.overlap
    BY <1>22, <1>23, <2>1, <2>2, WithdrawnIs
  <2> QED BY <1>15, <1>19, <2>2, <2>3 DEF Same
<1>25. txn'[t] = V /\ \A u \in Threads : txn'[u] = Withdrawn(f[u], d)
  BY <1>21, <1>23
<1>26. /\ names' \in [Dbis -> Names \cup {NoName}] /\ valid' \in [Dbis -> BOOLEAN]
       /\ seqs' \in [Dbis -> Nat]
  BY <1>7, ClosedTypes DEF IInv
<1>27. /\ names'[s] = NoName /\ seqs[s] \in Nat /\ seqs'[s] = seqs[s] + 1 /\ ~valid'[s]
       /\ \A r \in Dbis \ {s} : names'[r] = names[r] /\ seqs'[r] = seqs[r] /\ (valid'[r] <=> valid[r])
  <2>1. {s} \cap {i \in Dbis : names[i] # NoName} = {s}
    BY <1>1, DbiAssumption
  <2>2. /\ names' = [i \in Dbis |-> IF i \in {s} THEN NoName ELSE names[i]]
        /\ valid' = [i \in Dbis |-> valid[i] /\ i \notin {s}]
        /\ seqs' = [i \in Dbis |-> IF i \in {s} THEN seqs[i] + 1 ELSE seqs[i]]
    BY <1>7, <2>1 DEF CloseDbis
  <2>3. seqs \in [Dbis -> Nat]
    BY DEF IInv, TypeInv
  <2>4. ~valid'[s] /\ \A r \in Dbis \ {s} : valid'[r] <=> valid[r]
    BY <2>2
  <2>5. names'[s] = NoName /\ seqs'[s] = seqs[s] + 1
    BY <2>2
  <2>6. \A r \in Dbis \ {s} : names'[r] = names[r] /\ seqs'[r] = seqs[r]
    BY <2>2
  <2> QED BY <2>3, <2>4, <2>5, <2>6
<1>28. \A u \in Threads : u # t =>
           /\ txn[u] = NoTxn => txn'[u] = NoTxn
           /\ txn[u] # NoTxn => \E U \in Txn :
                  /\ U = f[u] /\ TxnOK(U, g) /\ U.opened = txn[u].opened /\ U.overlap = TRUE
                  /\ U.kind = txn[u].kind /\ U.levels = txn[u].levels
  <2> TAKE u \in Threads
  <2> HAVE u # t
  <2>1. Touched(f[u], txn[u])
    BY <1>22
  <2>2. CASE txn[u] = NoTxn
    BY <1>25, <2>1, <2>2, NothingWithdrawn DEF Touched
  <2>3. CASE txn[u] # NoTxn
    BY <1>3, <2>1, <2>3, TouchedIs
  <2> QED BY <2>2, <2>3
<1>29. \A u \in Threads : u # t /\ txn[u] # NoTxn =>
           /\ txn'[u] \in Txn /\ txn'[u] # NoTxn /\ txn'[u].overlap = TRUE /\ txn'[u].opened = txn[u].opened
           /\ txn'[u].kind = txn[u].kind /\ txn'[u].levels = txn[u].levels
  <2> TAKE u \in Threads
  <2> HAVE u # t /\ txn[u] # NoTxn
  <2>1. PICK U \in Txn : /\ U = f[u] /\ U.opened = txn[u].opened /\ U.overlap = TRUE
                         /\ U.kind = txn[u].kind /\ U.levels = txn[u].levels
    BY <1>28
  <2>2. PICK V2 : V2 = Withdrawn(U, d)
    OBVIOUS
  <2>3. V2 \in Txn /\ V2.levels = U.levels /\ V2.kind = U.kind /\ V2.opened = U.opened /\ V2.overlap = U.overlap
    BY <2>2, WithdrawnIs
  <2>4. txn'[u] = V2
    BY <1>25, <2>1, <2>2
  <2> QED BY <2>1, <2>3, <2>4, NoTxnIs
<1>30. txn' \in [Threads -> Txn \cup {NoTxn}]
  <2>1. \A u \in Threads : txn'[u] \in Txn \cup {NoTxn}
    BY <1>24, <1>25, <1>28, <1>29
  <2> QED BY <1>21, <2>1
<1>31. TypeInv'
  <2>1. held' \in SUBSET Pairs
    BY <1>7 DEF IInv, TypeInv
  <2> QED BY <1>7, <1>26, <1>30, <2>1 DEF IInv, TypeInv
<1>32. PICK h \in Tables : h = Shared'
  BY <1>31, TypeNext
<1>33. h.names = names' /\ h.seqs = seqs' /\ h.numdbs = g.numdbs /\ h.main = g.main /\ h.held = g.held \ {d}
  BY <1>3, <1>7, <1>32, SharedIs, SharedNext
<1>34. h.open = g.open \ {s}
  <2>1. {r \in Dbis : valid'[r]} = {r \in Dbis : valid[r]} \ {s}
    BY <1>27
  <2> QED BY <1>3, <1>32, <2>1, SharedIs, SharedNext
<1>35. \A r \in Dbis \ {s} : h.names[r] = g.names[r] /\ h.seqs[r] = g.seqs[r]
  BY <1>3, <1>27, <1>33
<1>36. g.seqs[s] < h.seqs[s]
  BY <1>3, <1>27, <1>33
<1>37. ASSUME NEW u \in Threads, txn[u] # NoTxn, NEW i \in 1..N(txn[u]), <<u, i>> # <<t, n>>
       PROVE  ~Known(txn[u].levels[i], s)
  <2>1. PICK U \in Txn : U = txn[u] /\ TxnOK(U, g) /\ U.levels \in Seq(Level)
    BY <1>3, <1>37, KindNone
  <2>2. FlagsOK(U.levels[i])
    BY <1>37, <2>1 DEF TxnOK, Shape
  <2>3. i \in DOMAIN txn[u].levels
    BY <1>37, <2>1 DEF N
  <2>4. Exist(txn[u].levels[i], s) => Stale(txn[u].levels[i], s)
    BY <1>7, <1>10, <1>37, <2>3 DEF DropsAlone
  <2> QED BY <2>1, <2>2, <2>4 DEF FlagsOK, Known, Has, Exist, Stale
<1>38. \A u \in Threads : call[u] = NoCall /\ (u # t => ~txn[u].opened)
  BY <1>7 DEF DropsAlone
<1>39. TxnOK(V, h) /\ \A r \in Dbis \ {s} : NewIn(V, r) <=> NewIn(T, r)
  <2>1. \A i \in 1..(n - 1) : ~Known(T.levels[i], s)
    <3>1. \A i \in 1..(n - 1) : i \in 1..N(T) /\ i # n
      BY <1>10
    <3> QED BY <1>8, <1>9, <1>37, <3>1
  <2>2. h.held = g.held \ {<<s, m>>} /\ V.offered = T.offered \ {<<s, m>>}
    BY <1>2, <1>24, <1>33
  <2>3. /\ x.numdbs = y.numdbs /\ x.flags[s] = {"STALE"}
        /\ \A r \in Dbis \ {s} : x.flags[r] = y.flags[r] /\ x.dbs[r] = y.dbs[r]
        /\ x.main[m] = x.want[m]
        /\ \A a \in Names \ {m} : x.main[a] = y.main[a] /\ x.want[a] = y.want[a]
        /\ x.mine = y.mine \ {<<s, m>>}
    BY <1>13 DEF DropRecord
  <2>4. /\ N(V) = n
        /\ \A i \in 1..n : /\ Alike(V.levels[i], W.levels[i])
                           /\ V.levels[i].mine = W.levels[i].mine \ {<<s, m>>}
        /\ W.levels[n] = x /\ \A i \in 1..(n - 1) : W.levels[i] = T.levels[i] /\ i \in 1..n
    BY <1>2, <1>10, <1>15, <1>17, <1>24 DEF Topped, N
  <2>5. PICK X : X = V.levels[n]
    OBVIOUS
  <2>6. /\ X.numdbs = y.numdbs /\ X.flags[s] = {"STALE"}
        /\ \A r \in Dbis \ {s} : X.flags[r] = y.flags[r] /\ X.dbs[r] = y.dbs[r]
        /\ X.main[m] = X.want[m]
        /\ \A a \in Names \ {m} : X.main[a] = y.main[a] /\ X.want[a] = y.want[a]
        /\ X.mine = y.mine \ {<<s, m>>}
    <3>1. Alike(X, x) /\ X.mine = x.mine \ {<<s, m>>}
      BY <1>10, <2>4, <2>5
    <3> QED BY <2>3, <3>1 DEF Alike
  <2>7. \A i \in 1..(n - 1) : /\ Alike(V.levels[i], T.levels[i])
                              /\ V.levels[i].mine = T.levels[i].mine \ {<<s, m>>}
    BY <2>4
  <2>8. T.kind = "rw" /\ T.pc = "live" /\ g.names[s] = m
    BY <1>1, <1>3, <1>8, <1>9
  <2>9. DropTable(h, g, s, d)
    BY <1>2, <1>33, <1>34, <1>35, <1>36, <2>2 DEF DropTable
  <2>10. DropTxn(V, T, d)
    BY <1>2, <1>10, <1>24, <2>2, <2>4, <2>7 DEF DropTxn
  <2>11. DropRecord(X, y, s, m)
    BY <2>6 DEF DropRecord
  <2>12. OnlyLast(T, s) /\ n = N(T)
    BY <1>10, <2>1 DEF OnlyLast
  <2>13. TableOK(g) /\ TxnOK(T, g) /\ V \in Txn /\ y = T.levels[n] /\ d = <<s, m>>
    BY <1>2, <1>3, <1>9, <1>11, <1>24
  <2> QED BY <2>5, <2>8, <2>9, <2>10, <2>11, <2>12, <2>13, DroppedOK
<1>40. \A u \in Threads : u # t /\ txn[u] # NoTxn => TxnOK(txn'[u], h)
  <2> SUFFICES ASSUME NEW u \in Threads, u # t, txn[u] # NoTxn PROVE TxnOK(txn'[u], h)
    OBVIOUS
  <2>1. PICK U \in Txn : /\ U = f[u] /\ TxnOK(U, g) /\ U.opened = txn[u].opened /\ U.overlap = TRUE
                         /\ U.kind = txn[u].kind /\ U.levels = txn[u].levels
    BY <1>28
  <2>2. ~U.opened /\ U.overlap
    BY <1>38, <2>1
  <2>3. U.kind = "ro"
    BY <1>8, <2>1, KindNone DEF IInv, MutexInv
  <2>4. ~Known(U.levels[1], s)
    <3>1. N(txn[u]) \in Nat /\ N(txn[u]) >= 1
      BY KindNone
    <3>2. 1 \in 1..N(txn[u]) /\ <<u, 1>> # <<t, n>>
      BY <3>1
    <3> QED BY <1>37, <2>1, <3>2
  <2>5. txn'[u] = Withdrawn(U, d)
    BY <1>25, <2>1
  <2> QED BY <1>3, <1>32, <1>33, <1>34, <1>35, <2>1, <2>2, <2>3, <2>4, <2>5, Drops
<1>41. TxnsInv'
  <2>1. \A u \in Threads : txn'[u] # NoTxn => TxnOK(txn'[u], Shared')
    BY <1>25, <1>28, <1>32, <1>39, <1>40
  <2> QED BY <2>1 DEF TxnsInv
<1>42. SoleInv' /\ MutexInv'
  <2>1. txn'[t] \in Txn /\ txn'[t].kind = txn[t].kind /\ txn'[t].overlap = txn[t].overlap
        /\ txn'[t].opened = TRUE
    BY <1>9, <1>24, <1>25
  <2>2. \A u \in Threads : (call'[u] # NoCall <=> call[u] # NoCall) /\ call'[u].op = call[u].op
    BY <1>7
  <2> QED BY <1>7, <1>8, <1>28, <1>29, <1>38, <2>1, <2>2, SoleUser, ZenonT(60)
<1>43. TableOK(h)
  <2>1. \A r \in h.open : r \in Dbis \ {s} /\ r \in g.open
    BY <1>34 DEF Tables
  <2>2. \A r \in h.open : h.names[r] # NoName /\ r <= h.numdbs /\ h.main[h.names[r]] # Absent
    BY <1>3, <1>33, <1>35, <2>1 DEF TableOK
  <2>3. \A a, r \in Dbis : h.names[a] # NoName /\ h.names[a] = h.names[r] => a = r
    <3>1. \A a, r \in Dbis : g.names[a] # NoName /\ g.names[a] = g.names[r] => a = r
      BY <1>3 DEF TableOK
    <3>2. h.names[s] = NoName
      BY <1>27, <1>33
    <3> QED BY <1>35, <3>1, <3>2
  <2>4. \A k \in h.held : k[1] \in h.open /\ h.names[k[1]] = k[2]
    <3> SUFFICES ASSUME NEW k \in h.held PROVE k[1] \in h.open /\ h.names[k[1]] = k[2]
      OBVIOUS
    <3>1. k \in Pairs /\ k # d /\ k[1] \in g.open /\ g.names[k[1]] = k[2]
      BY <1>3, <1>33 DEF TableOK, Tables
    <3>2. k = <<k[1], k[2]>> /\ k[1] \in Dbis
      BY <3>1 DEF Pairs
    <3>3. k[1] # s
      BY <1>1, <1>2, <1>3, <3>1, <3>2
    <3> QED BY <1>34, <1>35, <3>1, <3>2, <3>3
  <2> QED BY <2>2, <2>3, <2>4 DEF TableOK
<1>44. TableInv'
  <2>1. \A r \in Dbis : names[r] # NoName => valid[r] \/ \E u \in Threads : NewIn(txn[u], r)
    BY DEF IInv, TableInv, NamedInv
  <2>2. \A u \in Threads, r \in Dbis \ {s} : NewIn(txn[u], r) => NewIn(txn'[u], r)
    <3> TAKE u \in Threads, r \in Dbis \ {s}
    <3>1. CASE u = t
      BY <1>9, <1>25, <1>39, <3>1
    <3>2. CASE u # t /\ txn[u] # NoTxn
      BY <1>29, <3>2 DEF NewIn, N
    <3>3. CASE u # t /\ txn[u] = NoTxn
      BY <1>28, <3>3
    <3> QED BY <3>1, <3>2, <3>3
  <2>3. NamedInv'
    <3>1. \A r \in Dbis : names'[r] # NoName => valid'[r] \/ \E u \in Threads : NewIn(txn'[u], r)
      BY <1>27, <2>1, <2>2
    <3> QED BY <3>1 DEF NamedInv
  <2>4. main' = saved'
    BY <1>7 DEF IInv, TableInv
  <2> QED BY <1>32, <1>43, <2>3, <2>4 DEF TableInv
<1> QED BY <1>31, <1>41, <1>42, <1>44 DEF IInv

\* Environment::close_db.
LEMMA CloseDbStep ==
    ASSUME IInv, NEW e \in held, CloseDb(e[1], e[2])
    PROVE  IInv'
<1>1. PICK s, m : s = e[1] /\ m = e[2]
  OBVIOUS
<1>2. CloseDb(s, m)
  BY <1>1
<1>3. e \in Pairs
  BY DEF IInv, TypeInv
<1>4. s \in Dbis /\ m \in Names /\ e = <<s, m>>
  BY <1>1, <1>3 DEF Pairs
<1>5. PICK g \in Tables : g = Shared /\ TableOK(g) /\ g.names = names /\ g.seqs = seqs
  BY SharedType, SharedIs DEF IInv, TableInv
<1>6. names[s] = m
  BY <1>1, <1>5, SharedIs DEF TableOK
<1>7. /\ \A t \in Threads : txn[t] = NoTxn /\ call[t] = NoCall
      /\ CloseDbis({s} \cap {i \in Dbis : names[i] # NoName}) /\ held' = held \ {<<s, m>>}
      /\ UNCHANGED <<numdbs, main, wmutex, dbimutex, txn, call, saved>>
  BY <1>2 DEF CloseDb
<1>8. /\ names' \in [Dbis -> Names \cup {NoName}] /\ valid' \in [Dbis -> BOOLEAN]
      /\ seqs' \in [Dbis -> Nat]
  BY <1>7, ClosedTypes DEF IInv
<1>9. /\ names'[s] = NoName /\ ~valid'[s]
      /\ \A r \in Dbis \ {s} : names'[r] = names[r] /\ (valid'[r] <=> valid[r])
  <2>1. {s} \cap {i \in Dbis : names[i] # NoName} = {s}
    BY <1>4, <1>6, DbiAssumption
  <2>2. /\ names' = [i \in Dbis |-> IF i \in {s} THEN NoName ELSE names[i]]
        /\ valid' = [i \in Dbis |-> valid[i] /\ i \notin {s}]
    BY <1>7, <2>1 DEF CloseDbis
  <2>3. ~valid'[s] /\ \A r \in Dbis \ {s} : valid'[r] <=> valid[r]
    BY <1>4, <2>2
  <2>4. names'[s] = NoName /\ \A r \in Dbis \ {s} : names'[r] = names[r]
    BY <1>4, <2>2
  <2> QED BY <2>3, <2>4
<1>10. TypeInv'
  <2>1. held' \in SUBSET Pairs
    BY <1>7 DEF IInv, TypeInv
  <2> QED BY <1>7, <1>8, <2>1 DEF IInv, TypeInv
<1>11. PICK h \in Tables : h = Shared'
  BY <1>10, TypeNext
<1>12. h.names = names' /\ h.numdbs = g.numdbs /\ h.main = g.main /\ h.held = g.held \ {e}
  BY <1>4, <1>5, <1>7, <1>11, SharedIs, SharedNext
<1>13. h.open = g.open \ {s}
  <2>1. {r \in Dbis : valid'[r]} = {r \in Dbis : valid[r]} \ {s}
    BY <1>9
  <2> QED BY <1>5, <1>11, <2>1, SharedIs, SharedNext
<1>14. \A r \in Dbis \ {s} : h.names[r] = g.names[r]
  BY <1>5, <1>9, <1>12
<1>15. TableOK(h)
  <2>1. \A r \in h.open : r \in Dbis \ {s} /\ r \in g.open
    BY <1>13 DEF Tables
  <2>2. \A r \in h.open : h.names[r] # NoName /\ r <= h.numdbs /\ h.main[h.names[r]] # Absent
    BY <1>5, <1>12, <1>14, <2>1 DEF TableOK
  <2>3. \A a, r \in Dbis : h.names[a] # NoName /\ h.names[a] = h.names[r] => a = r
    <3>1. \A a, r \in Dbis : g.names[a] # NoName /\ g.names[a] = g.names[r] => a = r
      BY <1>5 DEF TableOK
    <3>2. h.names[s] = NoName
      BY <1>9, <1>12
    <3> QED BY <1>14, <3>1, <3>2
  <2>4. \A k \in h.held : k[1] \in h.open /\ h.names[k[1]] = k[2]
    <3> SUFFICES ASSUME NEW k \in h.held PROVE k[1] \in h.open /\ h.names[k[1]] = k[2]
      OBVIOUS
    <3>1. k \in Pairs /\ k # e /\ k[1] \in g.open /\ g.names[k[1]] = k[2]
      BY <1>5, <1>12 DEF TableOK, Tables
    <3>2. k = <<k[1], k[2]>> /\ k[1] \in Dbis
      BY <3>1 DEF Pairs
    <3>3. k[1] # s
      BY <1>4, <1>5, <1>6, <3>1, <3>2
    <3> QED BY <1>13, <1>14, <3>1, <3>2, <3>3
  <2> QED BY <2>2, <2>3, <2>4 DEF TableOK
<1>16. TableInv'
  <2>1. \A u \in Threads, r \in Dbis : ~NewIn(txn[u], r)
    BY <1>7, NoTxnIs DEF NewIn
  <2>2. \A r \in Dbis : names[r] # NoName => valid[r] \/ \E u \in Threads : NewIn(txn[u], r)
    BY DEF IInv, TableInv, NamedInv
  <2>3. NamedInv'
    <3>1. \A r \in Dbis : names'[r] # NoName => valid'[r] \/ \E u \in Threads : NewIn(txn'[u], r)
      BY <1>9, <2>1, <2>2
    <3> QED BY <3>1 DEF NamedInv
  <2>4. main' = saved'
    BY <1>7 DEF IInv, TableInv
  <2> QED BY <1>11, <1>15, <2>3, <2>4 DEF TableInv
<1>17. TxnsInv'
  BY <1>7 DEF TxnsInv
<1>18. SoleInv'
  BY <1>7 DEF IInv, SoleInv
<1>19. MutexInv'
  BY <1>7 DEF IInv, MutexInv
<1> QED BY <1>10, <1>16, <1>17, <1>18, <1>19 DEF IInv

-----------------------------------------------------------------------------
(* The theorems: databases are not opened while a write transaction copies    *)
(* the table, and not dropped with less care than DropsAlone asks for.  (The  *)
(* runs without these rules find what happens then.)                          *)

\* The environment is opened: no database, no transaction.
LEMMA InitOK ==
    ASSUME Init
    PROVE  IInv
<1>1. \A t \in Threads : txn[t] = NoTxn /\ call[t] = NoCall
  BY DEF Init
<1>2. TypeInv
  <2>1. names \in [Dbis -> Names \cup {NoName}] /\ valid \in [Dbis -> BOOLEAN] /\ seqs \in [Dbis -> Nat]
    BY DEF Init
  <2>2. main \in View
    BY DEF Init, View, Contents
  <2>3. txn \in [Threads -> Txn \cup {NoTxn}] /\ call \in [Threads -> Call \cup {NoCall}]
    BY DEF Init
  <2>4. numdbs \in 0..MaxDbs /\ held \in SUBSET Pairs
    BY DbiAssumption DEF Init
  <2> QED BY <2>1, <2>2, <2>3, <2>4 DEF TypeInv, Init
<1>3. TableInv
  <2>1. Shared.open = {} /\ Shared.held = {} /\ \A s \in Dbis : Shared.names[s] = NoName
    BY SharedIs DEF Init
  <2>2. TableOK(Shared)
    BY <2>1 DEF TableOK
  <2>3. NamedInv
    BY DEF NamedInv, Init
  <2> QED BY <2>2, <2>3 DEF TableInv, Init
<1>4. TxnsInv
  BY <1>1 DEF TxnsInv
<1>5. SoleInv
  BY <1>1, NoTxnIs DEF SoleInv
<1>6. MutexInv
  <2>1. \A t \in Threads : t # Nobody
    BY DbiAssumption DEF Threads
  <2>2. wmutex = Nobody /\ dbimutex = Nobody
    BY DEF Init
  <2>3. \A t \in Threads : txn[t].kind = "rw" <=> wmutex = t
    BY <1>1, <2>1, <2>2, NoTxnIs
  <2>4. \A t \in Threads : call[t] # NoCall <=> dbimutex = t
    BY <1>1, <2>1, <2>2
  <2> QED BY <1>1, <2>3, <2>4 DEF MutexInv
<1> QED BY <1>2, <1>3, <1>4, <1>5, <1>6 DEF IInv

\* The step of a thread, one case for each action.
LEMMA StepOK ==
    ASSUME IInv, ~DropRaces, ~OpenDuringBegin, NEW t \in Threads, Step(t)
    PROVE  IInv'
<1>1. CASE BeginRo(t)
  BY <1>1, BeginRoStep
<1>2. CASE BeginRw(t)
  BY <1>2, BeginRwStep
<1>3. CASE BeginFlags(t)
  BY <1>3, BeginFlagsStep
<1>4. CASE BeginNested(t)
  BY <1>4, BeginNestedStep
<1>5. ASSUME NEW n \in Names, NEW create \in BOOLEAN, OpenInTxn(t, n, create) PROVE IInv'
  BY <1>5, OpenInTxnStep
<1>6. ASSUME NEW n \in Names, NEW op \in {"open", "create"}, CallOpen(t, op, n) PROVE IInv'
  BY <1>6, CallOpenStep
<1>7. CASE OpenInCall(t)
  BY <1>7, OpenInCallStep
<1>8. CASE CallReturn(t)
  BY <1>8, CallReturnStep
<1>9. CASE CommitRo(t)
  BY <1>9, CommitRoStep
<1>10. CASE CommitRw(t)
  BY <1>10, CommitRwStep
<1>11. CASE CommitEnd(t)
  BY <1>11, CommitEndStep
<1>12. CASE CommitNested(t)
  BY <1>12, CommitNestedStep
<1>13. CASE Abort(t)
  BY <1>13, AbortStep
<1>14. ASSUME NEW h \in Handles(t), Get(t, h[1]) PROVE IInv'
  BY <1>14, GetStep
<1>15. ASSUME NEW h \in Handles(t), NEW v \in Values, Put(t, h[1], h[2], v) PROVE IInv'
  BY <1>15, PutStep
<1>16. ASSUME NEW h \in Handles(t), ClearDb(t, h[1], h[2]) PROVE IInv'
  BY <1>16, PutStep DEF ClearDb
<1>17. ASSUME NEW h \in Handles(t), DropDb(t, h[1], h[2]) PROVE IInv'
  BY <1>17, DropDbStep
<1> QED
  BY <1>1, <1>2, <1>3, <1>4, <1>5, <1>6, <1>7, <1>8, <1>9, <1>10, <1>11, <1>12, <1>13, <1>14, <1>15,
     <1>16, <1>17 DEF Step

\* Nothing changes.
LEMMA SameOK ==
    ASSUME IInv, UNCHANGED vars
    PROVE  IInv'
<1>1. /\ names' = names /\ valid' = valid /\ seqs' = seqs /\ numdbs' = numdbs /\ main' = main
      /\ wmutex' = wmutex /\ dbimutex' = dbimutex /\ txn' = txn /\ call' = call /\ held' = held
      /\ saved' = saved
  BY DEF vars
<1>2. Shared' = Shared
  BY <1>1 DEF Shared
<1>3. TypeInv'
  BY <1>1 DEF IInv, TypeInv
<1>4. TableInv' /\ TxnsInv'
  BY <1>1, <1>2 DEF IInv, TableInv, NamedInv, TxnsInv
<1>5. SoleInv' /\ MutexInv'
  BY <1>1 DEF IInv, SoleInv, MutexInv
<1> QED BY <1>3, <1>4, <1>5 DEF IInv

\* The table of handles, the transactions and the application's handles agree:
\* IInv holds at every step.
THEOREM TablesAgree ==
    ASSUME ~DropRaces, ~OpenDuringBegin
    PROVE  Spec => []IInv
<1>1. Init => IInv
  BY InitOK
<1>2. IInv /\ [Next]_vars => IInv'
  <2>1. ASSUME IInv, Next PROVE IInv'
    BY <2>1, StepOK, CloseDbStep DEF Next
  <2> QED BY <2>1, SameOK
<1> QED BY <1>1, <1>2, PTL DEF Spec

\* What a handle is used for, in a transaction that has begun.
LEMMA HandleOK ==
    ASSUME IInv, NEW t \in Threads, txn[t].pc = "live", NEW h \in Handles(t), Has(Top(t), "VALID", h[1])
    PROVE  /\ IF Has(Top(t), "STALE", h[1])
              THEN Changed(t, h[1]) \/ (names[h[1]] = h[2] /\ Top(t).main[h[2]] = Top(t).want[h[2]])
              ELSE Top(t).dbs[h[1]] = Top(t).want[h[2]]
           /\ txn[t].kind = "rw" => ~Changed(t, h[1]) /\ Top(t).want[h[2]] # Absent
<1>1. PICK s \in Dbis, m \in Names :
          s = h[1] /\ m = h[2] /\ names[s] = m /\ (s \in Shared.open \/ NewIn(txn[t], s))
  BY HandlesAre
<1>2. PICK g \in Tables : g = Shared /\ TableOK(g) /\ g.names[s] = m
  BY <1>1, SharedType, SharedIs DEF IInv, TableInv
<1>3. txn[t] # NoTxn
  BY NoTxnIs
<1>4. PICK T \in Txn : T = txn[t] /\ TxnOK(T, g) /\ T.kind \in {"ro", "rw"}
  BY <1>2, <1>3, KindNone
<1>5. PICK n : n = N(T) /\ n \in Nat /\ n >= 1 /\ n \in 1..n
  BY <1>4, TxnType DEF TxnOK, Shape
<1>6. PICK y \in Level : y = Top(t) /\ y = T.levels[n]
  BY <1>3, <1>4, <1>5, TopIs
<1>7. CASE T.kind = "ro"
  <2>1. RoOK(T, g) /\ n = 1 /\ y.main = y.want
    BY <1>4, <1>5, <1>6, <1>7 DEF TxnOK, RoOK
  <2>2. ~Has(y, "STALE", s) => Known(y, s)
    BY <1>1, <1>6 DEF Known
  <2>3. ~Has(y, "STALE", s) => y.dbs[s] = y.want[m]
    BY <1>2, <1>6, <2>1, <2>2 DEF RoOK
  <2> QED BY <1>1, <1>4, <1>6, <1>7, <2>1, <2>3
<1>8. CASE T.kind = "rw"
  <2>1. KnownOK(T, n, g) /\ StaleOK(T, n, g) /\ OpenOK(T, n, g)
    BY <1>4, <1>5, <1>8 DEF TxnOK, RwOK, LevelOK
  <2>2. T.seqs[s] = g.seqs[s] /\ y.want[m] # Absent
    <3>1. CASE s \in g.open
      BY <1>1, <1>2, <1>6, <2>1, <3>1 DEF OpenOK
    <3>2. CASE s \notin g.open
      <4>1. PICK i \in 1..n : Has(T.levels[i], "NEW", s)
        BY <1>1, <1>2, <1>4, <1>5, <3>2 DEF NewIn
      <4>2. Known(T.levels[n], s)
        BY <1>4, <1>5, <4>1, NewKnown
      <4> QED BY <1>2, <1>6, <2>1, <4>2 DEF KnownOK
    <3> QED BY <3>1, <3>2
  <2>3. ~Changed(t, s)
    BY <1>2, <1>4, <2>2, SharedIs DEF Changed
  <2>4. Has(y, "STALE", s) => y.main[m] = y.want[m]
    <3>1. ~NewAbove(T, n, s)
      BY <1>5 DEF NewAbove
    <3> QED BY <1>1, <1>2, <1>6, <2>1, <2>2, <3>1 DEF StaleOK
  <2>5. ~Has(y, "STALE", s) => y.dbs[s] = y.want[m]
    <3>1. ~Has(y, "STALE", s) => Known(y, s)
      BY <1>1, <1>6 DEF Known
    <3> QED BY <1>2, <1>6, <2>1, <3>1 DEF KnownOK
  <2> QED BY <1>1, <1>6, <2>2, <2>3, <2>4, <2>5
<1> QED BY <1>4, <1>7, <1>8

\* A handle that the transaction began with, or has opened, is accepted.
LEMMA Accepted ==
    ASSUME IInv, NEW t \in Threads, txn[t].pc = "live", NEW h \in Handles(t) \ (held \ txn[t].offered)
    PROVE  Exist(Top(t), h[1])
<1>1. PICK s \in Dbis : s = h[1]
  BY HandlesAre
<1>2. txn[t] # NoTxn
  BY NoTxnIs
<1>3. PICK T \in Txn : T = txn[t] /\ TxnOK(T, Shared) /\ T.levels \in Seq(Level)
  BY <1>2, KindNone
<1>4. PICK n : n = N(T) /\ n \in Nat /\ n >= 1 /\ n \in 1..n
  BY <1>3, TxnType DEF TxnOK, Shape
<1>5. Top(t) = T.levels[n]
  BY <1>2, <1>3, <1>4, TopIs
<1>6. Has(T.levels[n], "VALID", s)
  <2>1. CASE h \in T.offered
    BY <1>1, <1>3, <1>4, <2>1 DEF TxnOK, OfferedOK
  <2>2. CASE h \notin T.offered
    <3>1. PICK i \in DOMAIN T.levels : h \in T.levels[i].mine
      BY <1>3, <2>2 DEF Handles
    <3>2. i \in 1..n /\ n \in i..n
      BY <1>3, <1>4, <3>1 DEF N
    <3> QED BY <1>1, <1>3, <1>4, <3>1, <3>2 DEF TxnOK, MineOK
  <2> QED BY <2>1, <2>2
<1>7. s <= T.levels[n].numdbs
  BY <1>3, <1>4, <1>6 DEF TxnOK, Shape, FlagsOK
<1> QED BY <1>1, <1>5, <1>6, <1>7 DEF Exist, Has

\* A handle is used for the database it was opened for, never for another that
\* had the number before or got it meanwhile.
THEOREM HandlesDenote ==
    ASSUME ~DropRaces, ~OpenDuringBegin
    PROVE  Spec => []HandleDenotes
<1>1. ASSUME IInv PROVE HandleDenotes
  <2> SUFFICES ASSUME NEW t \in Threads, Live(t), NEW h \in Handles(t), Exist(Top(t), h[1])
               PROVE  IF Stale(Top(t), h[1])
                      THEN Changed(t, h[1]) \/ (names[h[1]] = h[2] /\ Top(t).main[h[2]] = Top(t).want[h[2]])
                      ELSE Top(t).dbs[h[1]] = Top(t).want[h[2]]
    BY DEF HandleDenotes
  <2>1. txn[t].pc = "live" /\ Has(Top(t), "VALID", h[1])
    BY DEF Live, Exist, Has
  <2> QED BY <1>1, <2>1, HandleOK DEF Stale, Has
<1>2. IInv => HandleDenotes
  BY <1>1
<1>3. Spec => []IInv
  BY TablesAgree
<1> QED BY <1>2, <1>3, PTL

\* A transaction accepts the handles it began with and those it has opened, and a
\* write transaction finds the databases of those it accepts.
THEOREM HandlesUsable ==
    ASSUME ~DropRaces, ~OpenDuringBegin
    PROVE  Spec => []HandleUsable
<1>1. ASSUME IInv PROVE HandleUsable
  <2> SUFFICES ASSUME NEW t \in Threads, Live(t)
               PROVE  /\ \A h \in Handles(t) \ (held \ txn[t].offered) : Exist(Top(t), h[1])
                      /\ txn[t].kind = "rw" => \A h \in Handles(t) : Exist(Top(t), h[1]) =>
                            ~Changed(t, h[1]) /\ Top(t).want[h[2]] # Absent
    BY DEF HandleUsable
  <2>1. txn[t].pc = "live"
    BY DEF Live
  <2>2. \A h \in Handles(t) \ (held \ txn[t].offered) : Exist(Top(t), h[1])
    BY <1>1, <2>1, Accepted
  <2>3. ASSUME txn[t].kind = "rw", NEW h \in Handles(t), Exist(Top(t), h[1])
        PROVE  ~Changed(t, h[1]) /\ Top(t).want[h[2]] # Absent
    <3>1. Has(Top(t), "VALID", h[1])
      BY <2>3 DEF Exist, Has
    <3> QED BY <1>1, <2>1, <2>3, <3>1, HandleOK
  <2> QED BY <2>2, <2>3
<1>2. IInv => HandleUsable
  BY <1>1
<1>3. Spec => []IInv
  BY TablesAgree
<1> QED BY <1>2, <1>3, PTL

\* What is committed is what the application has done, to every database under
\* its own name, and nothing of what was aborted.
THEOREM CommitsExact ==
    ASSUME ~DropRaces, ~OpenDuringBegin
    PROVE  Spec => []CommitExact
<1>1. IInv => CommitExact
  BY DEF IInv, TableInv, CommitExact
<1>2. Spec => []IInv
  BY TablesAgree
<1> QED BY <1>1, <1>2, PTL
=============================================================================
