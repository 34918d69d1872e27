----------------------------- MODULE HistorySpec -----------------------------
(***************************************************************************)
(* What ChatHistory promises.  A batch is added once, whole, with its      *)
(* messages in order, after all that is there; a reader gets what the      *)
(* history holds at one moment.                                            *)
(***************************************************************************)
EXTENDS Integers, Sequences

CONSTANTS
    Readers,  \* who reads
    Batches,  \* the identities of batches
    Lengths   \* how many messages a batch can have

VARIABLES
    history,  \* the messages <<batch, number>>
    added,    \* the batches added so far
    returned  \* returned[c]: what a read has returned and c has not yet taken

vars == <<history, added, returned>>

Init ==
    /\ history = <<>>
    /\ added = {}
    /\ returned = [c \in Readers |-> <<>>]

Batch(b, n) == [i \in 1..n |-> <<b, i>>]

Add ==
    \E b \in Batches \ added, n \in Lengths :
        /\ history' = history \o Batch(b, n)
        /\ added' = added \cup {b}
        /\ UNCHANGED returned

Read(c) ==
    /\ returned' = [returned EXCEPT ![c] = history]
    /\ UNCHANGED <<history, added>>

Take(c) ==
    /\ returned' = [returned EXCEPT ![c] = <<>>]
    /\ UNCHANGED <<history, added>>

Clear ==
    /\ history' = <<>>
    /\ UNCHANGED <<added, returned>>

Next == Add \/ Clear \/ \E c \in Readers : Read(c) \/ Take(c)

Spec == Init /\ [][Next]_vars
=============================================================================
