----------------------------- MODULE VectorSpec ------------------------------
(***************************************************************************)
(* What a vdb::VectorBackend promises about insert: the documents of a     *)
(* call reach the store one after the other and in order; a call that      *)
(* returns has passed on all of them; one that is rejected has passed on   *)
(* none and never will; one that fails half-way may leave any number.      *)
(***************************************************************************)
EXTENDS Integers

CONSTANT
    Inserts   \* the calls of insert

VARIABLES
    size,     \* size[a]: number of documents of call a
    status,   \* how it stands with call a
    held,     \* <<a, i>>: the store has document i of call a
    refused   \* <<a, i>>: the store was given it and refused it

vars == <<size, status, held, refused>>

Init ==
    /\ size = [a \in Inserts |-> 0]
    /\ status = [a \in Inserts |-> "none"]
    /\ held = {}
    /\ refused = {}

\* The documents of call a that have reached the store.
Passed(a) == {i \in 1..size[a] : <<a, i>> \in held \cup refused}

\* A call begins, with any number of documents.
Begin(a) ==
    /\ status[a] = "none"
    /\ \E s \in {"open", "rejected"} : status' = [status EXCEPT ![a] = s]
    /\ size'[a] \in Nat /\ size' = [size EXCEPT ![a] = size'[a]]
    /\ UNCHANGED <<held, refused>>

\* The store is given the first document that it has not had.
PassNext(a) ==
    /\ status[a] \in {"open", "failed"}
    /\ \E i \in 1..size[a] :
          /\ Passed(a) = 1..(i - 1)
          /\ \/ held' = held \cup {<<a, i>>} /\ UNCHANGED refused
             \/ refused' = refused \cup {<<a, i>>} /\ UNCHANGED held
    /\ UNCHANGED <<size, status>>

End(a) ==
    /\ status[a] = "open"
    /\ \/ status' = [status EXCEPT ![a] = "returned"] /\ Passed(a) = 1..size[a]
       \/ status' = [status EXCEPT ![a] = "rejected"] /\ Passed(a) = {}
       \/ status' = [status EXCEPT ![a] = "failed"]
    /\ UNCHANGED <<size, held, refused>>

Next == \E a \in Inserts : Begin(a) \/ PassNext(a) \/ End(a)

Spec == Init /\ [][Next]_vars
=============================================================================
