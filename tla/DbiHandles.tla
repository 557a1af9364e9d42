----------------------------- MODULE DbiHandles -----------------------------
(* The handles of named databases: numbers that all transactions of a process *)
(* share.  The environment keeps the name behind each number, whether it is   *)
(* valid, and a sequence number that tells one use of it from the next; each  *)
(* transaction keeps its own copy of the database's record.                   *)
(*                                                                            *)
(* Threads open databases through Environment::open_db and create_db, or in a *)
(* transaction of their own; they read, write, clear and drop databases by    *)
(* handle, nest write transactions, commit and abort.  A database is known by *)
(* its name, its content is one value.  The records of all databases are in   *)
(* the main database; a snapshot of it stands for what a transaction reads.   *)
EXTENDS Integers, Sequences, SequencesExt, FiniteSets, FiniteSetsExt

CONSTANTS
    Writers, Readers,  \* the threads with write transactions, and with read
                       \* transactions, of their own
    Openers,           \* those that open databases in a transaction of their own
    Names,             \* the names of databases
    MaxDbs,            \* me_maxdbs - CORE_DBS
    Values,            \* contents that are written; a new database has 0
    OpenDuringBegin,   \* whether a database may be opened while a write
                       \* transaction copies the state of the environment
    DropRaces,         \* whether databases are dropped with no more care than
                       \* the documentation asks for
    MaxDepth,          \* bound on the nesting of transactions
    MaxClearDepth,     \* bound on that nesting where a database is emptied
    MaxChanges,        \* bound on the sum of the sequence numbers at an open
    Absent,            \* no record
    NoName, Nobody

ASSUME DbiAssumption == /\ MaxDbs \in Nat \ {0} /\ Absent \notin Values \cup {0}
                        /\ NoName \notin Names /\ Nobody \notin Writers \cup Readers

VARIABLES
    names,      \* me_dbxs[].md_name
    valid,      \* me_dbflags[] & MDB_VALID
    seqs,       \* me_dbiseqs[]
    numdbs,     \* me_numdbs - CORE_DBS
    main,       \* the committed records of the databases
    wmutex,     \* the mutex of the writer
    dbimutex,   \* Environment::dbi_open_mutex
    txn,        \* the transaction of each thread, with its nested ones
    call,       \* the call of open_db or create_db a thread is in
    held,       \* the handles the application has, with their names
    saved       \* what the application has committed (not in the code)

vars == <<names, valid, seqs, numdbs, main, wmutex, dbimutex, txn, call, held, saved>>

Threads == Writers \cup Readers
Dbis == 1..MaxDbs

----------------------------------------------------------------------------
(* A transaction: the levels of nesting, the outermost first.  Of each level: *)
(* mt_numdbs, mt_dbflags, mt_dbs, its view of the main database, and, not in  *)
(* the code, the handles it has opened and what the application expects to    *)
(* read.  mt_dbiseqs is shared by the levels.                                 *)

NoTxn == [kind |-> "none", pc |-> "none", seqs |-> <<>>, levels |-> <<>>, offered |-> {},
          opened |-> FALSE, overlap |-> FALSE]
NoCall == [op |-> "none", name |-> NoName, done |-> FALSE]

Top(t) == Last(txn[t].levels)
WithTop(t, x) == [txn[t] EXCEPT !.levels = Append(Front(@), x)]
Live(t) == txn[t].pc = "live"
Exist(x, s) == s <= x.numdbs /\ "VALID" \in x.flags[s]                 \* TXN_DBI_EXIST

\* TXN_DBI_CHANGED; readers share the sequence numbers of the environment.
Changed(t, s) == txn[t].kind = "rw" /\ txn[t].seqs[s] # seqs[s]

----------------------------------------------------------------------------
(* mdb_txn_begin, mdb_txn_renew0.  The sequence numbers are copied first, the *)
(* flags later.                                                               *)

Begun(kind, mt_dbiseqs) ==
    [NoTxn EXCEPT !.kind = kind, !.pc = "begin", !.seqs = mt_dbiseqs, !.offered = held,
                  !.overlap = \E u \in Threads : txn[u].opened,
                  !.levels = <<[numdbs |-> 0, flags |-> [s \in Dbis |-> {}],
                                dbs |-> [s \in Dbis |-> Absent], main |-> main,
                                mine |-> {}, want |-> saved]>>]

BeginRo(t) ==
    /\ txn[t] = NoTxn /\ ~call[t].done
    /\ IF call[t] = NoCall THEN t \in Readers ELSE call[t].op = "open"
    /\ txn' = [txn EXCEPT ![t] = Begun("ro", <<>>)]
    /\ UNCHANGED <<names, valid, seqs, numdbs, main, wmutex, dbimutex, call, held, saved>>

BeginRw(t) ==
    /\ txn[t] = NoTxn /\ ~call[t].done
    /\ IF call[t] = NoCall THEN t \in Writers ELSE call[t].op = "create"
    /\ wmutex = Nobody
    /\ wmutex' = t
    /\ txn' = [txn EXCEPT ![t] = Begun("rw", seqs)]
    /\ UNCHANGED <<names, valid, seqs, numdbs, main, dbimutex, call, held, saved>>

BeginFlags(t) ==
    /\ txn[t].pc = "begin"
    /\ txn' = [txn EXCEPT ![t] =
                 [WithTop(t, [Top(t) EXCEPT
                                !.numdbs = numdbs,
                                !.flags = [s \in Dbis |-> IF s <= numdbs /\ valid[s]
                                                          THEN {"VALID", "STALE"} ELSE {}]])
                  EXCEPT !.pc = "live"]]
    /\ UNCHANGED <<names, valid, seqs, numdbs, main, wmutex, dbimutex, call, held, saved>>

\* Mutant: the child keeps DB_NEW
ChildFlagsKept(flags) == flags

ChildFlags(flags) == flags \ {"NEW"}

BeginNested(t) ==
    /\ Live(t) /\ txn[t].kind = "rw" /\ call[t] = NoCall
    /\ Len(txn[t].levels) < MaxDepth
    /\ txn' = [txn EXCEPT ![t].levels =
                 Append(@, [Top(t) EXCEPT !.flags = [s \in Dbis |-> ChildFlags(Top(t).flags[s])],
                                          !.mine = {}])]
    /\ UNCHANGED <<names, valid, seqs, numdbs, main, wmutex, dbimutex, call, held, saved>>

----------------------------------------------------------------------------
(* mdb_dbi_open. *)

Registered(x, n) == {s \in 1..x.numdbs : names[s] = n}
SlotFor(x) == Min({s \in 1..x.numdbs : names[s] = NoName} \cup {x.numdbs + 1})

\* The function is used by t (not in the code): the documentation asks that it
\* is not used by two transactions that are open at the same time.
Uses(t, x) == [u \in Threads |-> IF u = t THEN [x EXCEPT !.opened = TRUE]
                                 ELSE [txn[u] EXCEPT !.overlap = @ \/ txn[u] # NoTxn]]

BeginsUndisturbed ==
    ~OpenDuringBegin => \A u \in Threads : txn[u].kind = "rw" => txn[u].pc # "begin"

\* The database is open already.
OpenKnown(t, n) ==
    LET x == Top(t) IN
    /\ Registered(x, n) # {}
    /\ txn' = Uses(t, WithTop(t, [x EXCEPT !.mine = @ \cup {<<Min(Registered(x, n)), n>>}]))
    /\ UNCHANGED <<names, seqs>>

\* The level with the record of a database that gets the number s; the database
\* is created if there is none.
NewDb(x, s, n) ==
    LET new == x.main[n] = Absent
    IN [x EXCEPT !.numdbs = Max({@, s}),
                 !.flags[s] = {"NEW", "VALID"} \cup IF new THEN {"DIRTY"} ELSE {},
                 !.dbs[s] = IF new THEN 0 ELSE x.main[n],
                 !.main[n] = IF new THEN 0 ELSE @,
                 !.want[n] = IF new THEN 0 ELSE @,
                 !.mine = @ \cup {<<s, n>>}]

OpenNew(t, n, create) ==
    LET x == Top(t)
        s == SlotFor(x)
        y == WithTop(t, NewDb(x, s, n))
    IN /\ Registered(x, n) = {} /\ s <= MaxDbs
       /\ MapThenSumSet(LAMBDA i : seqs[i], Dbis) < MaxChanges
       /\ x.main[n] = Absent => create
       /\ BeginsUndisturbed
       /\ names' = [names EXCEPT ![s] = n]
       /\ seqs' = [seqs EXCEPT ![s] = seqs[s] + 1]
       /\ txn' = Uses(t, IF txn[t].kind = "ro" THEN y
                         ELSE [y EXCEPT !.seqs[s] = seqs[s] + 1])

\* MDB_DBS_FULL, MDB_NOTFOUND
OpenFails(t, n, create) ==
    LET x == Top(t)
    IN Registered(x, n) = {} /\ (SlotFor(x) > MaxDbs \/ (x.main[n] = Absent /\ ~create))

\* Transaction::open_db and RwTransaction::create_db, within the rule that is
\* documented for them.
MayOpen(t) ==
    /\ ~txn[t].overlap
    /\ \A u \in Threads \ {t} : ~txn[u].opened
    /\ \A u \in Threads : call[u] = NoCall

OpenInTxn(t, n, create) ==
    /\ t \in Openers /\ Live(t) /\ call[t] = NoCall /\ MayOpen(t)
    /\ create => txn[t].kind = "rw"
    /\ OpenKnown(t, n) \/ OpenNew(t, n, create)
    /\ UNCHANGED <<valid, numdbs, main, wmutex, dbimutex, call, held, saved>>

----------------------------------------------------------------------------
(* The end of a transaction: mdb_dbis_update exports the handles it opened or *)
(* closes them.                                                               *)

\* Mutant: the handles of an aborted transaction stay open
ClosedByNobody(x) == {}

NewDbis(x) == {s \in 1..x.numdbs : "NEW" \in x.flags[s]}
ClosedBy(x) == {s \in NewDbis(x) : names[s] # NoName}

CloseDbis(S) ==
    /\ names' = [s \in Dbis |-> IF s \in S THEN NoName ELSE names[s]]
    /\ valid' = [s \in Dbis |-> valid[s] /\ s \notin S]
    /\ seqs' = [s \in Dbis |-> IF s \in S THEN seqs[s] + 1 ELSE seqs[s]]

Release(t) == wmutex' = IF wmutex = t THEN Nobody ELSE wmutex

Exported(t) ==
    LET x == Top(t) IN
    /\ valid' = [s \in Dbis |-> valid[s] \/ s \in NewDbis(x)]
    /\ numdbs' = Max({numdbs, x.numdbs})
    /\ held' = held \cup x.mine
    /\ txn' = [txn EXCEPT ![t] = NoTxn]
    /\ Release(t)

Aborted(t) ==
    /\ CloseDbis(ClosedBy(Top(t)))
    /\ txn' = [txn EXCEPT ![t] = IF Len(txn[t].levels) = 1 THEN NoTxn
                                 ELSE [txn[t] EXCEPT !.levels = Front(txn[t].levels)]]
    /\ IF Len(txn[t].levels) = 1 THEN Release(t) ELSE UNCHANGED wmutex

\* What mdb_txn_commit writes to the main database: the records of the
\* databases the transaction has changed.
DirtyDbis(x) == {s \in 1..x.numdbs : "DIRTY" \in x.flags[s]}
Updated(x) ==
    [n \in Names |-> LET D == {s \in DirtyDbis(x) : names[s] = n}
                     IN IF D = {} THEN x.main[n] ELSE x.dbs[Max(D)]]

CommitRo(t) ==
    /\ Live(t) /\ txn[t].kind = "ro"
    /\ call[t] # NoCall => txn[t].opened
    /\ Exported(t)
    /\ UNCHANGED <<names, seqs, main, dbimutex, call, saved>>

\* The meta page is written; the handles are exported later.
CommitRw(t) ==
    /\ Live(t) /\ txn[t].kind = "rw" /\ Len(txn[t].levels) = 1
    /\ call[t] # NoCall => txn[t].opened
    /\ \A s \in DirtyDbis(Top(t)) : ~Changed(t, s)
    /\ main' = Updated(Top(t))
    /\ saved' = Top(t).want
    /\ txn' = [txn EXCEPT ![t].pc = "written"]
    /\ UNCHANGED <<names, valid, seqs, numdbs, wmutex, dbimutex, call, held>>

CommitEnd(t) ==
    /\ txn[t].pc = "written"
    /\ Exported(t)
    /\ UNCHANGED <<names, seqs, main, dbimutex, call, saved>>

\* The parent keeps its own DB_NEW.
MergedFlags(parent, child) == child \cup (parent \cap {"NEW"})

CommitNested(t) ==
    LET L == txn[t].levels
        x == Top(t)
        p == L[Len(L) - 1]
        merged == [p EXCEPT !.flags = [s \in Dbis |-> IF s <= x.numdbs
                                                      THEN MergedFlags(p.flags[s], x.flags[s])
                                                      ELSE p.flags[s]],
                            !.dbs = x.dbs, !.numdbs = x.numdbs, !.main = x.main,
                            !.want = x.want, !.mine = @ \cup x.mine]
    IN /\ Live(t) /\ Len(L) > 1
       /\ txn' = [txn EXCEPT ![t].levels = Append(Front(Front(L)), merged)]
       /\ UNCHANGED <<names, valid, seqs, numdbs, main, wmutex, dbimutex, call, held, saved>>

\* Also a commit that fails, and open_db or create_db that does.
Abort(t) ==
    /\ Live(t)
    /\ call[t] # NoCall => call[t].done /\ ~txn[t].opened
    /\ Aborted(t)
    /\ UNCHANGED <<numdbs, main, dbimutex, call, held, saved>>

----------------------------------------------------------------------------
(* Environment::open_db and create_db.                                        *)

\* Mutant: the mutex is not taken
MutexIgnored == TRUE

MutexFree == dbimutex = Nobody

CallOpen(t, op, n) ==
    /\ txn[t] = NoTxn /\ call[t] = NoCall
    /\ \A u \in Threads : txn[u].opened => call[u] # NoCall
    /\ MutexFree
    /\ dbimutex' = t
    /\ call' = [call EXCEPT ![t] = [op |-> op, name |-> n, done |-> FALSE]]
    /\ UNCHANGED <<names, valid, seqs, numdbs, main, wmutex, txn, held, saved>>

OpenInCall(t) ==
    LET n == call[t].name
        create == call[t].op = "create"
    IN /\ Live(t) /\ call[t] # NoCall /\ ~call[t].done
       /\ \/ OpenKnown(t, n)
          \/ OpenNew(t, n, create)
          \/ OpenFails(t, n, create) /\ UNCHANGED <<names, seqs, txn>>
       /\ call' = [call EXCEPT ![t].done = TRUE]
       /\ UNCHANGED <<valid, numdbs, main, wmutex, dbimutex, held, saved>>

CallReturn(t) ==
    /\ call[t].done /\ txn[t] = NoTxn
    /\ dbimutex' = Nobody
    /\ call' = [call EXCEPT ![t] = NoCall]
    /\ UNCHANGED <<names, valid, seqs, numdbs, main, wmutex, txn, held, saved>>

----------------------------------------------------------------------------
(* Reading and writing through a handle that the application has: mdb_get,    *)
(* mdb_put, mdb_drop.                                                         *)

Handles(t) == held \cup UNION {txn[t].levels[i].mine : i \in DOMAIN txn[t].levels}

InUse(t, s) == Live(t) /\ call[t] = NoCall /\ Exist(Top(t), s)
Writes(t, s) == InUse(t, s) /\ txn[t].kind = "rw"

\* mdb_page_search: a record that is stale is read from the main database.
Stale(x, s) == "STALE" \in x.flags[s]
Readable(t, s) ==
    Stale(Top(t), s) =>
        ~Changed(t, s) /\ names[s] # NoName /\ Top(t).main[names[s]] # Absent
Fresh(x, s) == IF Stale(x, s) THEN [x EXCEPT !.flags[s] = @ \ {"STALE"}, !.dbs[s] = x.main[names[s]]]
               ELSE x

\* A record that was read before is not read again.
Get(t, s) ==
    /\ InUse(t, s) /\ Stale(Top(t), s) /\ Readable(t, s)
    /\ txn' = [txn EXCEPT ![t] = WithTop(t, Fresh(Top(t), s))]
    /\ UNCHANGED <<names, valid, seqs, numdbs, main, wmutex, dbimutex, call, held, saved>>

\* mdb_put.
Put(t, s, n, v) ==
    LET x == Fresh(Top(t), s)
    IN /\ Writes(t, s) /\ Readable(t, s)
       /\ "DIRTY" \in x.flags[s] \/ ~Changed(t, s)
       /\ txn' = [txn EXCEPT ![t] = WithTop(t, [x EXCEPT !.flags[s] = @ \cup {"DIRTY"},
                                                        !.dbs[s] = v, !.want[n] = v])]
       /\ UNCHANGED <<names, valid, seqs, numdbs, main, wmutex, dbimutex, call, held, saved>>

\* mdb_drop without del: the database is emptied.
ClearDb(t, s, n) ==
    Len(txn[t].levels) <= MaxClearDepth /\ ~Changed(t, s) /\ Put(t, s, n, 0)

\* No transaction that is open has used the database, and mdb_dbi_open is not
\* used until this one has ended: more than the documentation asks for.
DropsAlone(t, s) ==
    /\ \A u \in Threads : call[u] = NoCall /\ (u # t => ~txn[u].opened)
    /\ \A u \in Threads : \A i \in DOMAIN txn[u].levels :
           <<u, i>> # <<t, Len(txn[t].levels)>> /\ Exist(txn[u].levels[i], s)
           => Stale(txn[u].levels[i], s)

\* The level, and the transaction, without the database and its handle.
WithoutDb(x, s, n) == [x EXCEPT !.flags[s] = {"STALE"}, !.main[n] = Absent,
                                !.want[n] = Absent, !.mine = @ \ {<<s, n>>}]
Dropped(t, s, n) ==
    LET y == WithTop(t, WithoutDb(Fresh(Top(t), s), s, n))
    IN [y EXCEPT !.levels = [i \in DOMAIN y.levels |->
                                [y.levels[i] EXCEPT !.mine = @ \ {<<s, n>>}]]]

\* mdb_drop with del: the database goes with the transaction, the handle at
\* once.  The application does not use the handle any more.
DropDb(t, s, n) ==
    LET z == Dropped(t, s, n)
        after == IF DropRaces THEN [txn EXCEPT ![t] = z] ELSE Uses(t, z)
    IN /\ Writes(t, s) /\ Readable(t, s) /\ ~Changed(t, s)
       /\ ~DropRaces => DropsAlone(t, s)
       /\ txn' = [u \in Threads |-> [after[u] EXCEPT !.offered = @ \ {<<s, n>>}]]
       /\ held' = held \ {<<s, n>>}
       /\ CloseDbis({s} \cap {i \in Dbis : names[i] # NoName})
       /\ UNCHANGED <<numdbs, main, wmutex, dbimutex, call, saved>>

\* Environment::close_db borrows the environment alone: no transaction is open.
CloseDb(s, n) ==
    /\ <<s, n>> \in held
    /\ \A t \in Threads : txn[t] = NoTxn /\ call[t] = NoCall
    /\ CloseDbis({s} \cap {i \in Dbis : names[i] # NoName})
    /\ held' = held \ {<<s, n>>}
    /\ UNCHANGED <<numdbs, main, wmutex, dbimutex, txn, call, saved>>

----------------------------------------------------------------------------
Init ==
    /\ names = [s \in Dbis |-> NoName]
    /\ valid = [s \in Dbis |-> FALSE]
    /\ seqs = [s \in Dbis |-> 0]
    /\ numdbs = 0
    /\ main \in [Names -> {Absent, 0}] /\ saved = main
    /\ wmutex = Nobody /\ dbimutex = Nobody
    /\ txn = [t \in Threads |-> NoTxn]
    /\ call = [t \in Threads |-> NoCall]
    /\ held = {}

Step(t) ==
    \/ BeginRo(t) \/ BeginRw(t) \/ BeginFlags(t) \/ BeginNested(t)
    \/ \E n \in Names : \/ \E create \in BOOLEAN : OpenInTxn(t, n, create)
                         \/ \E op \in {"open", "create"} : CallOpen(t, op, n)
    \/ OpenInCall(t) \/ CallReturn(t)
    \/ CommitRo(t) \/ CommitRw(t) \/ CommitEnd(t) \/ CommitNested(t) \/ Abort(t)
    \/ \E h \in Handles(t) : \/ Get(t, h[1])
                             \/ \E v \in Values : Put(t, h[1], h[2], v)
                             \/ ClearDb(t, h[1], h[2])
                             \/ DropDb(t, h[1], h[2])

Next == (\E t \in Threads : Step(t)) \/ (\E h \in held : CloseDb(h[1], h[2]))

Spec == Init /\ [][Next]_vars

----------------------------------------------------------------------------
(* Properties. *)

\* What a handle is used for is the database it was opened for: a transaction
\* that accepts it reads the record of this name in its own view, not that of
\* another database that had the number before or got it meanwhile.
HandleDenotes ==
    \A t \in Threads : Live(t) => \A h \in Handles(t) :
        LET x == Top(t)
            s == h[1]
        IN Exist(x, s) =>
               IF Stale(x, s) THEN Changed(t, s) \/ (names[s] = h[2] /\ x.main[h[2]] = x.want[h[2]])
               ELSE x.dbs[s] = x.want[h[2]]

\* "After a successful commit the handle will reside in the shared environment,
\* and may be used by other transactions" (mdb_dbi_open, lmdb.h): one that
\* began with the handle, or has opened it, accepts it, and a write transaction
\* that accepts it finds its database and is not told MDB_BAD_DBI.
HandleUsable ==
    \A t \in Threads : Live(t) =>
        /\ \A h \in Handles(t) \ (held \ txn[t].offered) : Exist(Top(t), h[1])
        /\ txn[t].kind = "rw" => \A h \in Handles(t) : Exist(Top(t), h[1]) =>
               ~Changed(t, h[1]) /\ Top(t).want[h[2]] # Absent

\* Each commit saves what the application has done in the transaction, to every
\* database under its own name, and nothing of what was aborted.
CommitExact == main = saved
=============================================================================
