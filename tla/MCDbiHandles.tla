---------------------------- MODULE MCDbiHandles ----------------------------
(* DbiHandles for TLC. *)
EXTENDS DbiHandles, TLC

CONSTANTS t1, t2, a, b

NamesAlike == Permutations(Names)
=============================================================================
