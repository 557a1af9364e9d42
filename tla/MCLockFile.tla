----------------------------- MODULE MCLockFile -----------------------------
(* Instances of LockFile for TLC: a process with two threads that read, and   *)
(* one with MDB_NOTLS whose thread reads, commits and checks the readers.     *)
EXTENDS LockFile, TLC

CONSTANTS p1, p2, t1, t2, m

MCThreads == [p \in {p1, p2} |-> IF p = p1 THEN {t1, t2} ELSE {m}]
MCTls == [p \in {p1, p2} |-> p = p1]
ThreadsAlike == Permutations({t1, t2})
=============================================================================
