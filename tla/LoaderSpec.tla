------------------------------ MODULE LoaderSpec ------------------------------
(***************************************************************************)
(* What a DataLoader promises its caller: the files of the listing are     *)
(* extracted, each once and in any order, and Load returns the documents   *)
(* of all of them.  The promise lapses when a remaining-work counter loses *)
(* an update (`lossy`): Load then returns what there is at the time.       *)
(***************************************************************************)
EXTENDS Integers

CONSTANT MaxFiles

VARIABLES files, outcome, loaded, lossy

Files == 1..MaxFiles
NotLoaded == {0}
Documents == {f \in Files : outcome[f] = "doc"}

Init ==
    /\ files = 0
    /\ outcome = [f \in Files |-> "pending"]
    /\ loaded = NotLoaded
    /\ lossy = FALSE

List ==
    /\ files = 0
    /\ loaded = NotLoaded
    /\ files' \in Files
    /\ UNCHANGED <<outcome, loaded, lossy>>

Extract ==
    /\ \E f \in 1..files, o \in {"doc", "nothing", "threw"} :
          /\ outcome[f] = "pending"
          /\ outcome' = [outcome EXCEPT ![f] = o]
    /\ UNCHANGED <<files, loaded, lossy>>

LoseUpdate ==
    /\ lossy' = TRUE
    /\ UNCHANGED <<files, outcome, loaded>>

Load ==
    /\ ~lossy => \A f \in 1..files : outcome[f] \in {"doc", "nothing"}
    /\ loaded' = Documents
    /\ UNCHANGED <<files, outcome, lossy>>

Next == List \/ Extract \/ LoseUpdate \/ Load

Spec == Init /\ [][Next]_<<files, outcome, loaded, lossy>>
=============================================================================
