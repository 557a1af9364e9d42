----------------------------- MODULE OrderedMap -----------------------------
(* What a database of LMDB promises to the holder of a write transaction: a   *)
(* map from keys to values in key order, with cursors that keep their place   *)
(* while items are put and deleted around them.                               *)
EXTENDS Integers, FiniteSets

CONSTANTS Keys, DataSizes, Cursors, OpKeys

VARIABLES
    map,    \* the items: a function from the keys present to their values
    pos,    \* the place of each open cursor
    ret     \* the last call with its result

vars == <<map, pos, ret>>

\* A place is a key of the map, Unset, or End, which is past the last key.
\* gap: just before that key, not on it; del: the item the cursor was on is
\* deleted and the place is its successor; eof: the cursor has met the end.
Unset == 0
End == 1 + CHOOSE k \in Keys : \A j \in Keys : j <= k
Place(k) == [at |-> k, gap |-> FALSE, del |-> FALSE, eof |-> FALSE]

NoItem == [k |-> 0, v |-> 0]
NoCursor == "none"
Item(k) == [k |-> k, v |-> map[k]]

Least(S) == CHOOSE k \in S : \A j \in S : k <= j
Succ(m, k) == Least({j \in DOMAIN m : j > k} \cup {End})
SuccEq(m, k) == Least({j \in DOMAIN m : j >= k} \cup {End})
Pred(m, k) == LET S == {j \in DOMAIN m : j < k}
              IN IF S = {} THEN Unset ELSE CHOOSE j \in S : \A i \in S : i <= j

Returns(op, c, key, rc, item) ==
    ret' = [op |-> op, c |-> c, key |-> key, rc |-> rc, item |-> item]
Moves(c, p) == pos' = [pos EXCEPT ![c] = p]

----------------------------------------------------------------------------
(* Reading. *)

Get(k) ==
    /\ IF k \in DOMAIN map THEN Returns("get", NoCursor, k, "ok", Item(k))
                           ELSE Returns("get", NoCursor, k, "notfound", NoItem)
    /\ UNCHANGED <<map, pos>>

\* The cursor is moved to target, if that is a key.
Reach(c, op, arg, target, eof) ==
    /\ target \in Keys
    /\ Returns(op, c, arg, "ok", Item(target))
    /\ Moves(c, [Place(target) EXCEPT !.eof = eof])

First(c) ==
    /\ \/ Reach(c, "first", 0, Succ(map, 0), FALSE)
       \/ /\ map = <<>>
          /\ Returns("first", c, 0, "notfound", NoItem)
          /\ Moves(c, [pos[c] EXCEPT !.del = FALSE])
    /\ UNCHANGED map

Last(c) ==
    /\ \/ Reach(c, "last", 0, Pred(map, End), TRUE)
       \/ /\ map = <<>>
          /\ Returns("last", c, 0, "notfound", NoItem)
          /\ Moves(c, [pos[c] EXCEPT !.del = FALSE])
    /\ UNCHANGED map

\* A cursor that has met the end may miss items put behind it since.
NextItem(c) ==
    LET p == pos[c]
        target == IF p.at # Unset /\ (p.del \/ p.gap) THEN p.at ELSE Succ(map, p.at)
    IN /\ \/ Reach(c, "next", 0, target, FALSE)
          \/ /\ p.eof \/ target = End
             /\ Returns("next", c, 0, "notfound", NoItem)
             /\ Moves(c, [p EXCEPT !.del = FALSE, !.eof = p.at # Unset])
       /\ UNCHANGED map

PrevItem(c) ==
    LET p == pos[c]
        target == IF p.at = Unset THEN Pred(map, End) ELSE Pred(map, p.at)
    IN /\ \/ Reach(c, "prev", 0, target, FALSE)
          \/ /\ target = Unset
             /\ Returns("prev", c, 0, "notfound", NoItem)
             /\ Moves(c, [p EXCEPT !.del = FALSE, !.eof = FALSE])
       /\ UNCHANGED map

CurrentItem(c) ==
    LET p == pos[c] IN
    /\ IF p.at = Unset THEN Returns("current", c, 0, "einval", NoItem)
       ELSE IF p.at = End \/ p.gap THEN Returns("current", c, 0, "notfound", NoItem)
       ELSE Returns("current", c, 0, "ok", Item(p.at))
    /\ Moves(c, [p EXCEPT !.del = FALSE])
    /\ UNCHANGED map

\* A search that fails leaves the cursor next to where the key would be.
Miss(c, op, k) ==
    /\ Returns(op, c, k, "notfound", NoItem)
    /\ \E gap, eof \in BOOLEAN :
           LET at == IF map = <<>> THEN Unset ELSE SuccEq(map, k)
           IN Moves(c, [at |-> at, gap |-> gap /\ at \in Keys, del |-> FALSE, eof |-> eof])

Seek(c, k) ==
    /\ \/ k \in DOMAIN map /\ Reach(c, "set", k, k, FALSE)
       \/ k \notin DOMAIN map /\ Miss(c, "set", k)
    /\ UNCHANGED map

SeekRange(c, k) ==
    /\ \/ Reach(c, "range", k, SuccEq(map, k), FALSE)
       \/ SuccEq(map, k) = End /\ Miss(c, "range", k)
    /\ UNCHANGED map

----------------------------------------------------------------------------
(* Writing. *)

Stored(k, v) == map' = [j \in DOMAIN map \cup {k} |-> IF j = k THEN v ELSE map[j]]

\* The cursors keep their place when k is put; before or after it, if they
\* were in the gap it falls into.
PutBy(p, q, k) == \/ q = p
                  \/ p.gap /\ k < p.at /\ q = [p EXCEPT !.at = k]

\* Cursor c, if there is one, is where the key was put.
Put(c, k) ==
    \E v \in DataSizes :
        /\ Stored(k, v)
        /\ Returns("put", c, k, "ok", NoItem)
        /\ DOMAIN pos' = DOMAIN pos
        /\ \A d \in DOMAIN pos :
               IF d = c THEN \E eof \in BOOLEAN : pos'[d] = [Place(k) EXCEPT !.eof = eof]
               ELSE PutBy(pos[d], pos'[d], k)

\* MDB_NOOVERWRITE and MDB_APPEND refuse a key that is in the map, or one that
\* is not beyond the last.
Refused(c, k) ==
    /\ Pred(map, End) >= k
    /\ UNCHANGED map
    /\ \E item \in {NoItem} \cup {Item(j) : j \in {k} \cap DOMAIN map} :
           Returns("put", c, k, "keyexist", item)
    /\ DOMAIN pos' = DOMAIN pos
    /\ \A d \in DOMAIN pos :
           IF d = c THEN \E at \in {k} \cup {Pred(map, End)}, del, eof \in BOOLEAN :
                             /\ at \in DOMAIN map
                             /\ pos'[d] = [Place(at) EXCEPT !.eof = eof, !.del = del]
           ELSE pos'[d] = pos[d]

\* Without a cursor on an item there is nothing to replace or to delete.
Invalid(c, op) ==
    /\ \/ pos[c].at = Unset /\ Returns(op, c, 0, "einval", NoItem)
       \/ op = "del" /\ (pos[c].at = End \/ pos[c].gap) /\ Returns(op, c, 0, "notfound", NoItem)
    /\ UNCHANGED <<map, pos>>

\* The place q of a cursor after k is deleted from under p, leaving m.
DelBy(p, q, k, m) ==
    LET on == p.at = k /\ ~p.gap
        at == IF m = <<>> THEN Unset ELSE IF p.at = k THEN Succ(m, k) ELSE p.at
    IN /\ q.at = at
       /\ q.gap => p.gap /\ at \in Keys
       /\ q.del = (p.del \/ on)
       /\ q.eof = (p.eof \/ (on /\ at = End)) \/ (at = End /\ q.eof)
\* (a cursor that was already past the end may get eof as well)

Delete(c, k, arg) ==
    LET m == [j \in DOMAIN map \ {k} |-> map[j]] IN
    /\ k \in DOMAIN map
    /\ map' = m
    /\ Returns("del", c, arg, "ok", NoItem)
    /\ DOMAIN pos' = DOMAIN pos
    /\ \A d \in DOMAIN pos :
           IF d # c THEN DelBy(pos[d], pos'[d], k, m)
           ELSE \E eof, del \in BOOLEAN :
                    LET at == IF m = <<>> THEN Unset ELSE Succ(m, k)
                    IN /\ pos'[d] = [at |-> at, gap |-> FALSE, del |-> del, eof |-> eof]
                       /\ at # Unset => del
                       /\ at = End => eof

DeleteMissing(k) ==
    /\ k \notin DOMAIN map
    /\ Returns("del", NoCursor, k, "notfound", NoItem)
    /\ UNCHANGED <<map, pos>>

Drop ==
    /\ map' = <<>>
    /\ pos' = [c \in DOMAIN pos |-> [pos[c] EXCEPT !.at = Unset, !.gap = FALSE, !.eof = FALSE]]
    /\ Returns("drop", NoCursor, 0, "ok", NoItem)

Open(c) ==
    /\ c \notin DOMAIN pos
    /\ pos' = [d \in DOMAIN pos \cup {c} |-> IF d = c THEN Place(Unset) ELSE pos[d]]
    /\ Returns("open", c, 0, "ok", NoItem)
    /\ UNCHANGED map

Close(c) ==
    /\ pos' = [d \in DOMAIN pos \ {c} |-> pos[d]]
    /\ Returns("close", c, 0, "ok", NoItem)
    /\ UNCHANGED map

----------------------------------------------------------------------------

Init ==
    /\ DOMAIN map \subseteq Keys
    /\ \A k \in DOMAIN map : map[k] \in DataSizes
    /\ DOMAIN pos \subseteq Cursors
    /\ \A c \in DOMAIN pos :
           /\ pos[c].at \in DOMAIN map \cup {Unset, End}
           /\ map = <<>> => pos[c].at = Unset
           /\ ~pos[c].del
    /\ ret.op = "begin"

Next ==
    \/ \E k \in OpKeys : \/ Get(k) \/ Put(NoCursor, k) \/ Refused(NoCursor, k)
                         \/ Delete(NoCursor, k, k) \/ DeleteMissing(k)
    \/ Drop
    \/ \E c \in Cursors \ DOMAIN pos : Open(c)
    \/ \E c \in DOMAIN pos :
           \/ First(c) \/ Last(c) \/ NextItem(c) \/ PrevItem(c) \/ CurrentItem(c)
           \/ \E k \in OpKeys : Seek(c, k) \/ SeekRange(c, k) \/ Put(c, k) \/ Refused(c, k)
           \/ /\ pos[c].at \in Keys /\ ~pos[c].gap
              /\ \/ Put(c, pos[c].at)
                 \/ Delete(c, pos[c].at, 0)
           \/ \E op \in {"put", "del"} : Invalid(c, op)
           \/ Close(c)

Spec == Init /\ [][Next]_vars
=============================================================================
