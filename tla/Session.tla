------------------------------- MODULE Session -------------------------------
(***************************************************************************)
(* Threads of a program that clean documents and keep a chat history.  The *)
(* components meet in the OpenMP runtime: what ProcessDocuments does to    *)
(* the number of threads of its caller holds for the regions of the        *)
(* history as well, and a team that ends the process ends all the others.  *)
(***************************************************************************)
EXTENDS ContentCleaner, ChatHistory

CONSTANTS MaxCalls  \* bound: how many calls there are

ASSUME SessionAssumption == MaxCalls \in Nat

VARIABLES calls     \* how many calls have begun

vars == <<pc, nthreads, team, cleaner, chat, calls>>

Init ==
    /\ OpenMPInit
    /\ CleanerInit
    /\ ChatInit
    /\ calls = 0

Begin(c) ==
    /\ calls < MaxCalls
    /\ calls' = calls + 1
    /\ \/ CleanerCall(c) /\ UNCHANGED chat
       \/ ChatCall(c) /\ UNCHANGED cleaner

Continue(c) ==
    /\ UNCHANGED calls
    /\ \/ CleanerStep(c) /\ UNCHANGED chat
       \/ ChatStep(c) /\ UNCHANGED cleaner

Next == ~terminated /\ \E c \in Callers : Begin(c) \/ Continue(c)

Spec == Init /\ [][Next]_vars

-----------------------------------------------------------------------------
(***************************************************************************)
(* The shapes of the states; a thread has a team in a region and only      *)
(* there, at least one thread strong, and no thread has a result of one    *)
(* component while it is in a call of the other.                           *)
(***************************************************************************)
TypeOK ==
    /\ nthreads \in [Callers -> 1..Processors]
    /\ terminated \in BOOLEAN
    /\ added \subseteq Batches
    /\ calls \in 0..MaxCalls
    /\ \A c \in Callers :
          /\ pc[c] \in {"idle", "fork", "clean", "cleaned", "make", "add", "insert", "copy", "got"}
          /\ (team[c] # <<>>) <=> (pc[c] \in {"clean", "make", "copy"})
          /\ docs[c] # <<>> => pc[c] \in {"fork", "clean", "cleaned"} /\ docs[c] \in Lists
          /\ Len(documents[c]) = Len(docs[c])
          /\ vectors[c] # <<>> => pc[c] \in {"make", "add", "insert"}
          /\ result[c] # <<>> => pc[c] \in {"copy", "got"}
=============================================================================
