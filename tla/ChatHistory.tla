----------------------------- MODULE ChatHistory -----------------------------
(***************************************************************************)
(* ChatHistory: a deque of messages under a shared mutex.  get_messages    *)
(* copies it in an OpenMP loop while the caller holds the mutex shared;    *)
(* add_benchmark_messages_omp makes its messages in a loop before it takes *)
(* the mutex, each member of the team in a vector of its own, and appends  *)
(* the vectors in the order of thread numbers.  A message is <<b, i>>, the *)
(* i-th one of the call that added it.                                     *)
(***************************************************************************)
EXTENDS OpenMP, SequencesExt, FiniteSets

CONSTANTS
    Lengths,  \* how many messages a call may add
    Batches   \* bound: the numbers of the calls that add

ASSUME ChatAssumption == Lengths \subseteq Nat /\ Batches \subseteq Nat

VARIABLES
    messages,  \* the deque
    vectors,   \* vectors[c]: what c has to append, a vector for each thread
    total,     \* total[c]: how many messages c's call adds
    number,    \* history: number[c], the batch that c adds
    result,    \* result[c]: what c's get_messages has copied
    added      \* history: the batches for which the mutex was taken

chat == <<messages, vectors, total, number, result, added>>

ChatInit ==
    /\ messages = <<>>
    /\ vectors = [c \in Callers |-> <<>>]
    /\ total = [c \in Callers |-> 0]
    /\ number = [c \in Callers |-> 0]
    /\ result = [c \in Callers |-> <<>>]
    /\ added = {}

\* messages_mutex: std::shared_lock and std::unique_lock.
CanShare == \A d \in Callers : pc[d] # "insert"
CanOwn == \A d \in Callers : pc[d] \notin {"insert", "copy"}

-----------------------------------------------------------------------------
Least(i, S) == i \in S /\ \A j \in S : i <= j

NewBatch(c) ==
    LET unused == Batches \ (added \cup {number[d] : d \in Callers})
    IN  /\ \E b \in unused : Least(b, unused) /\ number' = [number EXCEPT ![c] = b]
        /\ UNCHANGED <<messages, result, added>>

\* add_message, of one message or of a vector.
add_message(c) ==
    /\ pc[c] = "idle"
    /\ NewBatch(c)
    /\ \E n \in Lengths :
          /\ vectors' = [vectors EXCEPT ![c] = <<[i \in 1..n |-> <<number'[c], i>>]>>]
          /\ total' = [total EXCEPT ![c] = n]
    /\ Goto(c, "add")
    /\ UNCHANGED <<nthreads, team>>

\* add_benchmark_messages_omp: the region, in which no member passes the barrier
\* of "omp single" before the vectors are there.
add_benchmark_messages_omp(c) ==
    /\ pc[c] = "idle"
    /\ NewBatch(c)
    /\ \E n \in Lengths : Fork(c, n) /\ total' = [total EXCEPT ![c] = n]
    /\ vectors' = [vectors EXCEPT ![c] = [m \in DOMAIN team'[c] |-> <<>>]]
    /\ Goto(c, "make")
    /\ UNCHANGED nthreads

\* thread_local_messages[thread_id].push_back
MakeMessage(c, m) ==
    /\ pc[c] = "make"
    /\ Running(c, m, total[c])
    /\ vectors' = [vectors EXCEPT ![c][m] = Append(@, <<number[c], team[c][m]>>)]
    /\ Advance(c, m)
    /\ UNCHANGED <<pc, nthreads, messages, total, number, result, added>>

JoinMaking(c) ==
    /\ pc[c] = "make"
    /\ Finished(c, total[c])
    /\ Disband(c)
    /\ Goto(c, "add")
    /\ UNCHANGED <<nthreads, chat>>

LockForAdding(c) ==
    /\ pc[c] = "add"
    /\ CanOwn
    /\ added' = added \cup {number[c]}
    /\ Goto(c, "insert")
    /\ UNCHANGED <<nthreads, team, messages, vectors, total, number, result>>

Unfinished(c) == {t \in DOMAIN vectors[c] : vectors[c][t] # <<>>}

\* The next message goes to the end of messages, from vector t.
AppendFrom(c, t) ==
    /\ messages' = Append(messages, Head(vectors[c][t]))
    /\ vectors' = [vectors EXCEPT ![c][t] = Tail(@)]
    /\ UNCHANGED <<pc, nthreads, team, total, number, result, added>>

\* Mutant of Insert: the vectors in any order, as members that append their own would.
InsertAsFinished(c) == pc[c] = "insert" /\ \E t \in Unfinished(c) : AppendFrom(c, t)

Insert(c) == pc[c] = "insert" /\ \E t \in Unfinished(c) : Least(t, Unfinished(c)) /\ AppendFrom(c, t)

UnlockAdded(c) ==
    /\ pc[c] = "insert"
    /\ Unfinished(c) = {}
    /\ vectors' = [vectors EXCEPT ![c] = <<>>]
    /\ total' = [total EXCEPT ![c] = 0]
    /\ number' = [number EXCEPT ![c] = 0]
    /\ Goto(c, "idle")
    /\ UNCHANGED <<nthreads, team, messages, result, added>>

-----------------------------------------------------------------------------
\* An empty history needs no team.
get_messages(c) ==
    /\ pc[c] = "idle"
    /\ CanShare
    /\ IF messages = <<>>
       THEN Goto(c, "got") /\ UNCHANGED <<team, result>>
       ELSE /\ result' = [result EXCEPT ![c] = [i \in DOMAIN messages |-> <<>>]]
            /\ Fork(c, Len(messages))
            /\ Goto(c, "copy")
    /\ UNCHANGED <<nthreads, messages, vectors, total, number, added>>

CopyMessage(c, m) ==
    LET i == team[c][m] IN
    /\ pc[c] = "copy"
    /\ Running(c, m, Len(messages))
    /\ result' = [result EXCEPT ![c][i] = messages[i]]
    /\ Advance(c, m)
    /\ UNCHANGED <<pc, nthreads, messages, vectors, total, number, added>>

JoinCopying(c) ==
    /\ pc[c] = "copy"
    /\ Finished(c, Len(messages))
    /\ Disband(c)
    /\ Goto(c, "got")
    /\ UNCHANGED <<nthreads, chat>>

TakeMessages(c) ==
    /\ pc[c] = "got"
    /\ result' = [result EXCEPT ![c] = <<>>]
    /\ Goto(c, "idle")
    /\ UNCHANGED <<nthreads, team, messages, vectors, total, number, added>>

clear(c) ==
    /\ pc[c] = "idle"
    /\ CanOwn
    /\ messages' = <<>>
    /\ UNCHANGED <<pc, nthreads, team, vectors, total, number, result, added>>

ChatCall(c) == add_message(c) \/ add_benchmark_messages_omp(c) \/ get_messages(c) \/ clear(c)

ChatStep(c) ==
    \/ JoinMaking(c) \/ LockForAdding(c) \/ Insert(c) \/ UnlockAdded(c)
    \/ JoinCopying(c) \/ TakeMessages(c)
    \/ \E m \in DOMAIN team[c] : MakeMessage(c, m) \/ CopyMessage(c, m)

-----------------------------------------------------------------------------
\* How many messages of c's batch are in the history.
Done(c) == IF messages # <<>> /\ Last(messages)[1] = number[c] THEN Last(messages)[2] ELSE 0

\* The history is what the mutex makes it: all that its owner still appends is there.
Promised ==
    LET owners == {c \in Callers : pc[c] = "insert"}
        Rest(c) == [i \in 1..(total[c] - Done(c)) |-> <<number[c], Done(c) + i>>]
    IN  messages \o (IF owners = {} THEN <<>> ELSE Rest(CHOOSE c \in owners : TRUE))

Returned == [c \in Callers |-> IF pc[c] = "got" THEN result[c] ELSE <<>>]

History == INSTANCE HistorySpec WITH
    Readers <- Callers, history <- Promised, returned <- Returned

(***************************************************************************)
(* Whatever runs beside it, a call adds its messages once, without another *)
(* one between them and, however its team shared the making of them, in    *)
(* their order; get_messages returns what was there at one moment, never   *)
(* a part of a batch and never an element that was not copied.             *)
(***************************************************************************)
ImplementsHistorySpec == History!Spec
=============================================================================
