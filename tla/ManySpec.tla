------------------------------- MODULE ManySpec --------------------------------
(***************************************************************************)
(* What query_many promises each client.  A call starts at most one search *)
(* for each of its embeddings, beside anything else, and each search finds *)
(* something or fails.  The call ends when no search is running: it throws *)
(* if it has not started all of them, or if it is to raise and one has     *)
(* failed, and otherwise returns the results in the order of the           *)
(* embeddings, an empty one for each that failed.                          *)
(***************************************************************************)
EXTENDS Integers

CONSTANTS Clients, MaxQueries

VARIABLES
    open,     \* the clients in a query_many
    size,     \* size[c]: the number of embeddings of c's last one
    raising,  \* the clients whose last one has raiseOnErr
    answer,   \* answer[c][i]: whether the i-th search runs, and how it has ended
    ended,    \* ended[c]: how c's last call has ended
    list      \* list[c]: what it has returned: whose results, or 0 for an empty one

vars == <<open, size, raising, answer, ended, list>>

NoAnswers == [i \in 1..MaxQueries |-> "none"]
NoList == [i \in 1..MaxQueries |-> 0]

Init ==
    /\ open = {}
    /\ size = [c \in Clients |-> 0]
    /\ raising = {}
    /\ answer = [c \in Clients |-> NoAnswers]
    /\ ended = [c \in Clients |-> "none"]
    /\ list = [c \in Clients |-> NoList]

Begin(c) ==
    /\ c \notin open
    /\ open' = open \cup {c}
    /\ \E n \in 0..MaxQueries : size' = [size EXCEPT ![c] = n]
    /\ raising' \in {raising \cup {c}, raising \ {c}}
    /\ ended' = [ended EXCEPT ![c] = "none"]
    /\ list' = [list EXCEPT ![c] = NoList]
    /\ UNCHANGED answer

Start(c, i) ==
    /\ c \in open /\ i <= size[c]
    /\ answer[c][i] = "none"
    /\ answer' = [answer EXCEPT ![c][i] = "searching"]
    /\ UNCHANGED <<open, size, raising, ended, list>>

Answer(c, i) ==
    /\ c \in open /\ i <= size[c]
    /\ answer[c][i] = "searching"
    /\ \E a \in {"found", "failed"} : answer' = [answer EXCEPT ![c][i] = a]
    /\ UNCHANGED <<open, size, raising, ended, list>>

\* Why a call throws.
Failed(c) ==
    \E i \in 1..size[c] :
        answer[c][i] = "none" \/ (c \in raising /\ answer[c][i] = "failed")

End(c) ==
    /\ c \in open /\ \A i \in 1..size[c] : answer[c][i] # "searching"
    /\ open' = open \ {c}
    /\ answer' = [answer EXCEPT ![c] = NoAnswers]
    /\ \/ /\ Failed(c)
          /\ ended' = [ended EXCEPT ![c] = "threw"]
          /\ UNCHANGED list
       \/ /\ ~Failed(c)
          /\ ended' = [ended EXCEPT ![c] = "returned"]
          /\ list' = [list EXCEPT ![c] = [i \in 1..MaxQueries |-> IF answer[c][i] = "found" THEN i ELSE 0]]
    /\ UNCHANGED <<size, raising>>

Next == \E c \in Clients : Begin(c) \/ End(c) \/ \E i \in 1..MaxQueries : Start(c, i) \/ Answer(c, i)

Spec == Init /\ [][Next]_vars
=============================================================================
