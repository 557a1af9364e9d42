------------------------------ MODULE MCEnvCopy ------------------------------
(* EnvCopy for TLC.                                                           *)
EXTENDS EnvCopy

CONSTANTS root, leaf1, leaf2, sub, big1, big2, big3

Data == [kind |-> "data", pg |-> NoPage, len |-> 0]
Ref(p) == [kind |-> "page", pg |-> p, len |-> 0]
Big(p, n) == [kind |-> "big", pg |-> p, len |-> n]

\* Values on one, two and three overflow pages, two of them in one leaf; a
\* sub-database with a page and an empty one.
MCNodes == (root :> <<Ref(leaf1), Ref(leaf2)>>)
        @@ (leaf1 :> <<Data, Big(big1, 3), Big(big2, 2)>>)
        @@ (leaf2 :> <<Ref(sub), Ref(NoPage), Data>>)
        @@ (sub :> <<Big(big3, 1)>>)
=============================================================================
