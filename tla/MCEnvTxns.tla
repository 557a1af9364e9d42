----------------------------- MODULE MCEnvTxns -----------------------------
(* Instances of EnvTxns for TLC. *)
EXTENDS EnvTxns, TLC

Sym == Permutations(Threads) \cup Permutations(Slots)
=============================================================================
