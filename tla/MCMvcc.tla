------------------------------- MODULE MCMvcc -------------------------------
(* Instances of Mvcc for TLC. *)
EXTENDS Mvcc, TLC

Sym == Permutations(Readers) \cup Permutations(Writers) \cup Permutations(Keys)
=============================================================================
