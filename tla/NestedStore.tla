----------------------------- MODULE NestedStore -----------------------------
(* What nested write transactions promise: each one works on a copy of its    *)
(* parent's state, a commit replaces the parent's state by the copy, an abort *)
(* drops it, and only the commit of the outermost one changes the database.   *)
(* A transaction that failed can no longer be committed, and an attempt to do *)
(* so fails its parent.                                                       *)
EXTENDS Naturals, Sequences, SequencesExt

CONSTANTS Keys, Contents,
          Blank,   \* the content of a key that is not there
          Failed   \* in place of the state of a transaction that failed

VARIABLES
    committed,  \* the state every new reader sees
    stack       \* the states of the open transactions, outermost first

vars == <<committed, stack>>

Init == committed \in [Keys -> Contents] /\ stack = <<>>

Begin == /\ stack = <<>>
         /\ stack' = <<committed>>
         /\ UNCHANGED committed

BeginNested == /\ stack # <<>> /\ Last(stack) # Failed
               /\ stack' = Append(stack, Last(stack))
               /\ UNCHANGED committed

Update == /\ stack # <<>> /\ Last(stack) # Failed
          /\ \E k \in Keys, c \in Contents :
                stack' = Append(Front(stack), [Last(stack) EXCEPT ![k] = c])
          /\ UNCHANGED committed

Drop == /\ stack # <<>> /\ Last(stack) # Failed
        /\ stack' = Append(Front(stack), [k \in Keys |-> Blank])
        /\ UNCHANGED committed

Fail == /\ stack # <<>>
        /\ stack' = Append(Front(stack), Failed)
        /\ UNCHANGED committed

CommitNested == /\ Len(stack) > 1
                /\ stack' = Append(Front(Front(stack)), Last(stack))
                /\ UNCHANGED committed

Commit == /\ Len(stack) = 1
          /\ stack' = <<>>
          /\ committed' = IF stack[1] = Failed THEN committed ELSE stack[1]

\* Also a commit that fails.
Abort == /\ stack # <<>>
         /\ stack' = Front(stack)
         /\ UNCHANGED committed

Next == Begin \/ BeginNested \/ Update \/ Drop \/ Fail
        \/ CommitNested \/ Commit \/ Abort

Spec == Init /\ [][Next]_vars
=============================================================================
