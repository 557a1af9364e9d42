----------------------------- MODULE MCNestedTxn -----------------------------
(* Instances of NestedTxn for TLC. *)
EXTENDS NestedTxn, TLC

Sym == Permutations(Values)
=============================================================================
