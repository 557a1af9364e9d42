---------------------------- MODULE SnapshotStore ----------------------------
(* What LMDB promises its users about snapshots: committed states form a log; *)
(* a reader sees one state of the log, no older than the last commit that had *)
(* returned when it began, and goes on seeing it; a crash of the machine cuts *)
(* the log, never below what was made durable.                                *)
EXTENDS Naturals, Sequences

CONSTANTS Readers,
          First,   \* the state of a new environment
          NoView   \* the view of a reader that has no snapshot

VARIABLES
    log,       \* committed states, oldest first
    returned,  \* length of the log when the last commit returned
    durable,   \* length of the log that survives a crash
    from,      \* length of the log a beginning reader must at least see
    view       \* the state each reader sees

vars == <<log, returned, durable, from, view>>

Init == /\ log = <<First>>
        /\ returned = 1
        /\ durable = 1
        /\ from = [r \in Readers |-> 1]
        /\ view = [r \in Readers |-> NoView]

\* A commit takes effect before it returns.
Commit(s) == /\ log' = Append(log, s)
               /\ UNCHANGED <<returned, durable, from, view>>

Return == /\ returned' = Len(log)
          /\ durable' \in durable..Len(log)
          /\ UNCHANGED <<log, from, view>>

Persist == /\ durable' \in durable..Len(log)
           /\ UNCHANGED <<log, returned, from, view>>

Begin(r) == /\ view[r] = NoView
            /\ \E n \in returned..Len(log) : from' = [from EXCEPT ![r] = n]
            /\ UNCHANGED <<log, returned, durable, view>>

TakeSnapshot(r) == /\ view[r] = NoView
                   /\ \E n \in from[r]..Len(log) : view' = [view EXCEPT ![r] = log[n]]
                   /\ UNCHANGED <<log, returned, durable, from>>

End(r) == /\ view' = [view EXCEPT ![r] = NoView]
          /\ from' = [from EXCEPT ![r] = 1]
          /\ UNCHANGED <<log, returned, durable>>

Crash == /\ \E n \in durable..Len(log) :
              /\ log' = SubSeq(log, 1, n)
              /\ returned' = n
              /\ durable' = n
         /\ from' = [r \in Readers |-> 1]
         /\ view' = [r \in Readers |-> NoView]

Next == \/ Return \/ Persist \/ Crash
        \/ log' # log /\ Commit(log'[Len(log')])
        \/ \E r \in Readers : Begin(r) \/ TakeSnapshot(r) \/ End(r)

Spec == Init /\ [][Next]_vars
=============================================================================
