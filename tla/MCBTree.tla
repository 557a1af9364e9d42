------------------------------- MODULE MCBTree -------------------------------
(* BTree for TLC.                                                             *)
EXTENDS BTree

PutAll(keys, v) == [i \in DOMAIN keys |-> [k |-> keys[i], v |-> v]]
DelAll(keys) == PutAll(keys, 0)

\* Pages of 80 bytes, on which two to four items fit.
MCKeys == 1..14
MCKeySize == [k \in Keys |-> IF k % 3 = 0 THEN 10 ELSE 4]
Ascending == [i \in 1..13 |-> i]
Descending == Reverse(Ascending)
\* From the empty tree to trees of three levels; branch pages that lose a child
\* take one from a neighbour or are merged; a root that is full.
MCLoads == {<<>>,
            PutAll(Ascending, 16),
            PutAll(Descending, 16) \o DelAll(<<2, 3, 8, 11>>),
            PutAll(Descending, 16) \o DelAll(<<2, 3, 8, 11, 12, 13, 10, 6>>),
            PutAll(<<1, 2, 5, 7, 8, 10, 11, 3>>, 16)}

\* A page of 4 kB with 17 small items and 16 of 240 bytes, of which key 21 is
\* still to be put.
FullKeys == 1..34
FullKeySize == [k \in Keys |-> 1]
FullLoads == {PutAll([i \in 1..17 |-> i], 1) \o PutAll(<<18, 19, 20>>, 229)
              \o PutAll([i \in 1..13 |-> 21 + i], 229)}
=============================================================================
