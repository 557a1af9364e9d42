----------------------------- MODULE MapAccess -----------------------------
(* What the transaction machinery promises about the memory map: it is       *)
(* replaced only while nobody reads through it, and nobody starts to read     *)
(* while it is absent.  EnvTxns implements this with two counters and a lock. *)
CONSTANT Readers

VARIABLES live, mapped
mvars == <<live, mapped>>

Init == live = {} /\ mapped = TRUE

Enter(r) == mapped /\ r \notin live /\ live' = live \cup {r} /\ UNCHANGED mapped
Leave(r) == r \in live /\ live' = live \ {r} /\ UNCHANGED mapped
Unmap == mapped /\ live = {} /\ mapped' = FALSE /\ UNCHANGED live
Map == ~mapped /\ mapped' = TRUE /\ UNCHANGED live

Next == Unmap \/ Map \/ \E r \in Readers : Enter(r) \/ Leave(r)
Spec == Init /\ [][Next]_mvars
=============================================================================
