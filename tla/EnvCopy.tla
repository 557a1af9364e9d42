------------------------------- MODULE EnvCopy -------------------------------
(* mdb_env_copyfd1, the compacting copy of an environment.  The caller walks  *)
(* the trees of a snapshot depth first and puts the pages, renumbered, into   *)
(* one of two buffers; a thread of its own writes the other one to the file.  *)
(* Buffers change hands under a mutex with a condition variable, everything   *)
(* else is outside it.                                                        *)
(*                                                                            *)
(* Buffers and writes count in pages.  Of a page its source, its new number   *)
(* and the new numbers its nodes refer to are kept; of a value on overflow    *)
(* pages only the first page goes through a buffer, the thread writes the     *)
(* others straight from the map.                                              *)
EXTENDS Integers, Sequences, FiniteSets, FiniteSetsExt, SequencesExt

CONSTANTS
    Nodes,     \* the nodes of each page of the snapshot
    Roots,     \* the roots the main database may have
    WBuf,      \* size of a buffer: MDB_WBUF
    Leaks,     \* numbers of pages that are neither in a tree nor free
    NoPage,    \* P_INVALID
    Meta, Junk \* a meta page; a page whose content is not the snapshot's

\* A node has data, a page (a child, or the root of a sub-database, which may
\* be empty) or a value on len overflow pages.
ASSUME CopyAssumption ==
    /\ WBuf \in Nat /\ WBuf >= 2
    /\ \A p \in DOMAIN Nodes : \A i \in DOMAIN Nodes[p] :
           LET n == Nodes[p][i]
           IN \/ n.kind = "data" /\ n.pg = NoPage
              \/ n.kind = "page" /\ n.pg \in DOMAIN Nodes \cup {NoPage}
              \/ n.kind = "big" /\ n.len \in Nat \ {0}

VARIABLES
    db,        \* the snapshot: root of the main database, number of lost pages
    live,      \* whether the read transaction is open
    prod,      \* the caller
    wr,        \* the thread that writes
    my,        \* mdb_copy
    lock,      \* who holds mc_mutex from one step to the next
    waiting,   \* who waits for mc_cond
    file,      \* the pages written
    faults,    \* what went wrong (not in the code)
    ret        \* the result

vars == <<db, live, prod, wr, my, lock, waiting, file, faults, ret>>

----------------------------------------------------------------------------
(* Pages. *)

\* Pages of the database below page p, its overflow pages included.
Size[p \in DOMAIN Nodes] ==
    LET Below(n) == CASE n.kind = "big" -> n.len
                      [] n.kind = "page" /\ n.pg # NoPage -> Size[n.pg]
                      [] OTHER -> 0
    IN 1 + MapThenSumSet(LAMBDA i : Below(Nodes[p][i]), DOMAIN Nodes[p])

\* The last page of the copy, from the page counts of the environment: it will
\* be the root of the main database.
NewRoot == Size[db.root] + 1 + db.leak

Page(num, of, part, refs) == [num |-> num, of |-> of, part |-> part, refs |-> refs]
MetaPage(i) == Page(i, Meta, 1, IF i = 1 /\ db.root # NoPage THEN <<NewRoot>> ELSE <<>>)

----------------------------------------------------------------------------
(* The caller. *)

Frame(p) == [p |-> p, refs |-> <<>>]
Top == Last(prod.stack)
Node == Nodes[Top.p][Len(Top.refs) + 1]
More == Len(Top.refs) < Len(Nodes[Top.p])
At(pc) == prod.pc = pc
Full == my.wlen[my.toggle] >= WBuf

\* Page x is put into the buffer in hand.
Buffered(x) == [my EXCEPT !.wbuf[my.toggle][my.wlen[my.toggle] + 1] = x,
                          !.wlen[my.toggle] = @ + 1]

\* The next node of the topmost page refers to page num of the copy.
Referring(stack, num) ==
    Append(Front(stack), [Last(stack) EXCEPT !.refs = Append(@, num)])

Fails(what) ==
    /\ prod' = [prod EXCEPT !.pc = "finish", !.rc = TRUE]
    /\ faults' = faults \cup {what}

\* The transaction, the two meta pages, and the count of free pages.
Begin ==
    /\ At("begin")
    /\ live' = TRUE
    /\ my' = [my EXCEPT !.wbuf[0][1] = MetaPage(0), !.wbuf[0][2] = MetaPage(1), !.wlen[0] = 2]
    /\ prod' = IF db.root = NoPage THEN [prod EXCEPT !.pc = "finish"]
               ELSE [prod EXCEPT !.pc = "walk", !.stack = <<Frame(db.root)>>]
    /\ UNCHANGED <<db, wr, lock, waiting, file, faults, ret>>

BeginFails ==
    /\ At("begin")
    /\ Fails("begin")
    /\ live' \in BOOLEAN
    /\ UNCHANGED <<db, wr, my, lock, waiting, file, ret>>

\* mdb_env_cwalk, at a node with nothing to copy.
Pass ==
    /\ At("walk") /\ More /\ Node.pg = NoPage
    /\ prod' = [prod EXCEPT !.stack = Referring(@, NoPage)]
    /\ UNCHANGED <<db, live, wr, my, lock, waiting, file, faults, ret>>

Descend ==
    /\ At("walk") /\ More /\ Node.kind = "page" /\ Node.pg # NoPage
    /\ prod' = [prod EXCEPT !.stack = Append(@, Frame(Node.pg))]
    /\ UNCHANGED <<db, live, wr, my, lock, waiting, file, faults, ret>>

ReadFails ==
    /\ At("walk") /\ More /\ Node.pg # NoPage
    /\ Fails("read")
    /\ UNCHANGED <<db, live, wr, my, lock, waiting, file, ret>>

\* A value with more than one page ends the buffer: the rest follows it.
CopyOverflow ==
    LET tail == Node.len - 1
        b == Buffered(Page(prod.next, Node.pg, 1, <<>>))
    IN /\ At("walk") /\ More /\ Node.kind = "big" /\ ~Full
       /\ my' = IF tail > 0 THEN [b EXCEPT !.olen[my.toggle] = tail, !.over[my.toggle] = Node.pg]
                ELSE b
       /\ prod' = [prod EXCEPT !.stack = Referring(@, prod.next), !.next = @ + Node.len,
                               !.pc = IF tail > 0 THEN "hand" ELSE "walk"]
       /\ UNCHANGED <<db, live, wr, lock, waiting, file, faults, ret>>

\* All nodes are done.  The root comes last and must have the number that was
\* computed for it.
CopyPage ==
    LET up == Front(prod.stack)
    IN /\ At("walk") /\ ~More /\ ~Full
       /\ my' = Buffered(Page(prod.next, Top.p, 1, Top.refs))
       /\ prod' = IF up # <<>>
                  THEN [prod EXCEPT !.stack = Referring(up, prod.next), !.next = @ + 1]
                  ELSE [prod EXCEPT !.stack = up, !.pc = "finish", !.rc = prod.next # NewRoot]
       /\ UNCHANGED <<db, live, wr, lock, waiting, file, faults, ret>>

HandFull ==
    /\ At("walk") /\ (More => Node.kind = "big") /\ Full
    /\ prod' = [prod EXCEPT !.pc = "hand"]
    /\ UNCHANGED <<db, live, wr, my, lock, waiting, file, faults, ret>>

Finish ==
    /\ At("finish")
    /\ my' = [my EXCEPT !.error = @ \/ prod.rc]
    /\ prod' = [prod EXCEPT !.pc = "hand", !.eof = TRUE]
    /\ UNCHANGED <<db, live, wr, lock, waiting, file, faults, ret>>

----------------------------------------------------------------------------
(* Changing hands: mdb_env_cthr_toggle. *)

\* Mutant: nobody is woken
SignalNobody(w) == w

\* pthread_cond_signal wakes the other thread, if it waits.
Signal(w) == {}

\* Mutant: the caller goes on although the thread has both buffers
BothInUseNever(new) == FALSE

BothInUse(new) == new >= 2

\* The caller waits for a free buffer, or goes on.
WaitOrGo(new, w) ==
    /\ waiting' = IF BothInUse(new) THEN w \cup {"caller"} ELSE w
    /\ prod' = [prod EXCEPT !.pc = IF BothInUse(new) THEN "wait" ELSE "handed"]

Hand ==
    /\ At("hand") /\ lock = "free"
    /\ my' = [my EXCEPT !.new = @ + 1, !.eof = prod.eof]
    /\ WaitOrGo(my.new + 1, Signal(waiting))
    /\ UNCHANGED <<db, live, wr, lock, file, faults, ret>>

Woken ==
    /\ At("wait") /\ "caller" \notin waiting /\ lock = "free"
    /\ WaitOrGo(my.new, waiting)
    /\ UNCHANGED <<db, live, wr, my, lock, file, faults, ret>>

\* Outside the mutex.
Handed ==
    /\ At("handed")
    /\ my' = [my EXCEPT !.toggle = 1 - @, !.wlen[1 - my.toggle] = 0]
    /\ prod' = [prod EXCEPT !.rc = my.error,
                            !.pc = IF prod.eof THEN "join" ELSE IF my.error THEN "finish" ELSE "walk"]
    /\ UNCHANGED <<db, live, wr, lock, waiting, file, faults, ret>>

\* The transaction is open until the thread has ended.
Join ==
    /\ At("join") /\ wr.pc = "gone"
    /\ live' = FALSE
    /\ ret' = IF my.error THEN "error" ELSE "ok"
    /\ prod' = [prod EXCEPT !.pc = "done"]
    /\ UNCHANGED <<db, wr, my, lock, waiting, file, faults>>

----------------------------------------------------------------------------
(* The thread that writes: mdb_env_copythr.  It has the mutex while it writes *)
(* a buffer and from one buffer to the next.                                  *)

\* Blocking SIGPIPE may fail.
WrStart ==
    /\ wr.pc = "start"
    /\ wr' = [wr EXCEPT !.pc = "check"]
    /\ \/ UNCHANGED <<my, faults>>
       \/ my' = [my EXCEPT !.error = TRUE] /\ faults' = faults \cup {"signals"}
    /\ UNCHANGED <<db, live, prod, lock, waiting, file, ret>>

WrCheck ==
    /\ wr.pc = "check" /\ "writer" \notin waiting
    /\ CASE my.new > 0 -> /\ wr' = [wr EXCEPT !.pc = "write", !.over = FALSE, !.pos = 0,
                                              !.len = my.wlen[wr.toggle]]
                          /\ lock' = "writer" /\ UNCHANGED waiting
         [] my.new = 0 /\ my.eof -> wr' = [wr EXCEPT !.pc = "gone"] /\ lock' = "free" /\ UNCHANGED waiting
         [] OTHER -> UNCHANGED wr /\ lock' = "free" /\ waiting' = waiting \cup {"writer"}
    /\ UNCHANGED <<db, live, prod, my, file, faults, ret>>

Writing == wr.pc = "write" /\ wr.pos < wr.len /\ ~my.error

\* The page to write; overflow pages are read from the map.
PageToWrite ==
    IF ~wr.over THEN my.wbuf[wr.toggle][wr.pos + 1]
    ELSE IF live THEN Page(0, my.over[wr.toggle], wr.pos + 2, <<>>) ELSE Junk

WrPage ==
    /\ Writing
    /\ file' = Append(file, PageToWrite)
    /\ wr' = [wr EXCEPT !.pos = @ + 1]
    /\ UNCHANGED <<db, live, prod, my, lock, waiting, faults, ret>>

WrFails ==
    /\ Writing
    /\ my' = [my EXCEPT !.error = TRUE]
    /\ faults' = faults \cup {"write"}
    /\ UNCHANGED <<db, live, prod, wr, lock, waiting, file, ret>>

WrTail ==
    /\ wr.pc = "write" /\ ~Writing /\ my.olen[wr.toggle] > 0
    /\ wr' = [wr EXCEPT !.over = TRUE, !.pos = 0, !.len = my.olen[wr.toggle]]
    /\ my' = [my EXCEPT !.olen[wr.toggle] = 0]
    /\ UNCHANGED <<db, live, prod, lock, waiting, file, faults, ret>>

WrReturn ==
    /\ wr.pc = "write" /\ ~Writing /\ my.olen[wr.toggle] = 0
    /\ my' = [my EXCEPT !.wlen[wr.toggle] = 0, !.new = @ - 1]
    /\ wr' = [wr EXCEPT !.pc = "check", !.toggle = 1 - @]
    /\ waiting' = Signal(waiting)
    /\ UNCHANGED <<db, live, prod, lock, file, faults, ret>>

\* A thread may wake without a signal.
Spurious(t) ==
    /\ t \in waiting
    /\ waiting' = waiting \ {t}
    /\ UNCHANGED <<db, live, prod, wr, my, lock, file, faults, ret>>

----------------------------------------------------------------------------
Init ==
    /\ db \in [root : Roots, leak : Leaks]
    /\ live = FALSE
    /\ prod = [pc |-> "begin", rc |-> FALSE, stack |-> <<>>, next |-> 2, eof |-> FALSE]
    /\ wr = [pc |-> "start", toggle |-> 0, over |-> FALSE, pos |-> 0, len |-> 0]
    /\ my = [wbuf |-> [b \in {0, 1} |-> [i \in 1..WBuf |-> Junk]], wlen |-> [b \in {0, 1} |-> 0],
             over |-> [b \in {0, 1} |-> NoPage], olen |-> [b \in {0, 1} |-> 0],
             toggle |-> 0, new |-> 0, eof |-> FALSE, error |-> FALSE]
    /\ lock = "free"
    /\ waiting = {}
    /\ file = <<>>
    /\ faults = {}
    /\ ret = "none"

Caller == \/ Begin \/ BeginFails \/ Pass \/ Descend \/ ReadFails \/ CopyOverflow \/ CopyPage
          \/ HandFull \/ Finish \/ Hand \/ Woken \/ Handed \/ Join

Writer == WrStart \/ WrCheck \/ WrPage \/ WrFails \/ WrTail \/ WrReturn

Next == Caller \/ Writer \/ \E t \in waiting : Spurious(t)

Spec == Init /\ [][Next]_vars /\ WF_vars(Caller) /\ WF_vars(Writer)

----------------------------------------------------------------------------
(* Properties. *)

\* Page q of the file is in its place, and what its nodes refer to is before it.
InPlace(q) ==
    LET x == file[q + 1] IN
    IF x.part > 1 THEN q > 0 /\ file[q].of = x.of /\ file[q].part = x.part - 1
    ELSE /\ x.num = q
         /\ x.of \in DOMAIN Nodes =>
                /\ Len(x.refs) = Len(Nodes[x.of])
                /\ \A i \in DOMAIN x.refs :
                       LET n == Nodes[x.of][i]
                       IN n.pg # NoPage =>
                              /\ x.refs[i] < q /\ file[x.refs[i] + 1].of = n.pg
                              /\ file[x.refs[i] + 1].part = 1
                              /\ n.kind = "big" =>
                                     /\ x.refs[i] + n.len <= q
                                     /\ file[x.refs[i] + n.len].of = n.pg
                                     /\ file[x.refs[i] + n.len].part = n.len

\* However the two threads interleave, and whichever fails, the file grows page
\* by page into a copy of the trees: no page is lost, written twice, out of its
\* place or overwritten in a buffer, and each refers to the copies of its
\* children.  The copy is reported good if and only if it is complete, with the
\* root where the meta page has it (mdb_env_copyfd1).
CopyFaithful ==
    /\ \A q \in 0..(Len(file) - 1) : file[q + 1] # Junk /\ InPlace(q)
    /\ ret # "none" => (ret = "ok" <=> faults = {} /\ (db.root = NoPage \/ db.leak = 0))
    /\ ret = "ok" => IF db.root = NoPage THEN Len(file) = 2
                     ELSE Last(file).of = db.root /\ file[2].refs = <<Len(file) - 1>>

\* The copy comes back: the two threads never wait for each other, no signal is
\* lost, and after an error both stop.
CopyReturns == <>(ret # "none")
=============================================================================
