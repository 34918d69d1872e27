-------------------------- MODULE ConcurrentSearch ---------------------------
(***************************************************************************)
(* vdb::wrappers::ConcurrentSearchWrapper over a RedisVectorBackend, used  *)
(* by several client threads.  insert and close lock the wrapper's mutex;  *)
(* query locks it only when the backend is not thread-safe, and otherwise  *)
(* reads backend_ beside a close that is resetting it.  query_many starts  *)
(* one thread for each embedding, which calls query, and collects their    *)
(* futures in order; when the system has no thread left std::async throws. *)
(*                                                                         *)
(* Thread <<c, 0>> is client c, thread <<c, i>> the one that query_many    *)
(* has started for c's i-th embedding.  What a search finds is left out;   *)
(* it succeeds or throws.  A call that goes through a null pointer, or     *)
(* uses a connection that is taken away, sets `undefined`, and the model   *)
(* stops there.                                                            *)
(***************************************************************************)
EXTENDS Integers, FiniteSets

CONSTANTS
    Clients,
    MaxQueries,  \* bound: embeddings of a query_many
    MaxCalls,    \* bound: calls of a client
    Modes        \* the values of backendThreadSafe to consider

ASSUME WrapperAssumption ==
    /\ MaxQueries \in Nat
    /\ MaxCalls \in Nat
    /\ Modes \subseteq BOOLEAN

VARIABLES
    threadSafe,  \* backendThreadSafe_
    backend,     \* backend_ is not null
    redis,       \* the backend's redis_ is not null
    mtx,         \* the thread that holds mtx_, or NoThread
    pc,          \* each thread: the statement it is about to execute
    many,        \* each client's query_many: number of embeddings, raiseOnErr, index
    out,         \* the results it has collected: whose, or 0 for an empty one
    ended,       \* how each client's last query_many ended
    calls,       \* calls made by each client
    undefined

vars == <<threadSafe, backend, redis, mtx, pc, many, out, ended, calls, undefined>>

Threads == Clients \X (0..MaxQueries)
NoThread == <<>>
NoCall == [n |-> 0, raise |-> FALSE, i |-> 0]
NoResults == [i \in 1..MaxQueries |-> 0]

Init ==
    /\ threadSafe \in Modes
    /\ backend = TRUE
    /\ redis = TRUE
    /\ mtx = NoThread
    /\ pc = [t \in Threads |-> IF t[2] = 0 THEN "idle" ELSE "none"]
    /\ many = [c \in Clients |-> NoCall]
    /\ out = [c \in Clients |-> NoResults]
    /\ ended = [c \in Clients |-> "none"]
    /\ calls = [c \in Clients |-> 0]
    /\ undefined = FALSE

Goto(t, label) == pc' = [pc EXCEPT ![t] = label]
Unlock(t) == mtx' = IF mtx = t THEN NoThread ELSE mtx

-----------------------------------------------------------------------------
\* A client calls a function of the wrapper.
Call(c) ==
    /\ pc[<<c, 0>>] = "idle"
    /\ calls[c] < MaxCalls
    /\ calls' = [calls EXCEPT ![c] = @ + 1]
    /\ \E f \in {"insert", "query", "close"} : Goto(<<c, 0>>, f)
    /\ UNCHANGED <<threadSafe, backend, redis, mtx, many, out, ended, undefined>>

\* insert and close: scoped_lock.
Lock(t) ==
    /\ pc[t] \in {"insert", "close"}
    /\ mtx = NoThread
    /\ mtx' = t
    /\ Goto(t, IF pc[t] = "insert" THEN "inserting" ELSE "closing")
    /\ UNCHANGED <<threadSafe, backend, redis, many, out, ended, calls, undefined>>

\* backend_->insert(docs), which returns or throws, and the end of the scope.
Insert(t) ==
    /\ pc[t] = "inserting"
    /\ undefined' = ~backend
    /\ Unlock(t)
    /\ Goto(t, "idle")
    /\ UNCHANGED <<threadSafe, backend, redis, many, out, ended, calls>>

\* Mutant of CloseBackend: without the scoped_lock.
CloseBackendUnlocked(t) ==
    /\ pc[t] \in {"close", "closing"}
    /\ Unlock(t)
    /\ redis' = (redis /\ ~backend)
    /\ Goto(t, IF backend THEN "reset" ELSE "idle")
    /\ UNCHANGED <<threadSafe, backend, many, out, ended, calls, undefined>>

\* if (backend_) backend_->close()
CloseBackend(t) ==
    /\ pc[t] = "closing"
    /\ redis' = (redis /\ ~backend)
    /\ IF backend THEN Goto(t, "reset") /\ UNCHANGED mtx
                  ELSE Goto(t, "idle") /\ Unlock(t)
    /\ UNCHANGED <<threadSafe, backend, many, out, ended, calls, undefined>>

\* backend_.reset()
Reset(t) ==
    /\ pc[t] = "reset"
    /\ backend' = FALSE
    /\ Unlock(t)
    /\ Goto(t, "idle")
    /\ UNCHANGED <<threadSafe, redis, many, out, ended, calls, undefined>>

-----------------------------------------------------------------------------
\* Mutant of Query: never locks.
QueryUnlocked(t) ==
    /\ pc[t] = "query"
    /\ Goto(t, "searching")
    /\ undefined' = ~backend
    /\ UNCHANGED <<threadSafe, backend, redis, mtx, many, out, ended, calls>>

\* query: locks if the backend asks for it, and enters backend_->query.
Query(t) ==
    /\ pc[t] = "query"
    /\ IF threadSafe THEN UNCHANGED mtx ELSE mtx = NoThread /\ mtx' = t
    /\ Goto(t, "searching")
    /\ undefined' = ~backend
    /\ UNCHANGED <<threadSafe, backend, redis, many, out, ended, calls>>

\* redis_->command, which answers or throws, and the return.
Search(t) ==
    /\ pc[t] = "searching"
    /\ undefined' = ~redis
    /\ Unlock(t)
    /\ IF t[2] = 0 THEN Goto(t, "idle") ELSE \E end \in {"found", "error"} : Goto(t, end)
    /\ UNCHANGED <<threadSafe, backend, redis, many, out, ended, calls>>

-----------------------------------------------------------------------------
\* Mutant of QueryMany: holds the mutex for the whole call.
QueryManyLocked(c) ==
    /\ pc[<<c, 0>>] = "idle"
    /\ calls[c] < MaxCalls
    /\ mtx = NoThread
    /\ mtx' = <<c, 0>>
    /\ calls' = [calls EXCEPT ![c] = @ + 1]
    /\ \E n \in 0..MaxQueries, raise \in BOOLEAN :
          many' = [many EXCEPT ![c] = [n |-> n, raise |-> raise, i |-> 1]]
    /\ out' = [out EXCEPT ![c] = NoResults]
    /\ ended' = [ended EXCEPT ![c] = "none"]
    /\ Goto(<<c, 0>>, "launch")
    /\ UNCHANGED <<threadSafe, backend, redis, undefined>>

\* query_many
QueryMany(c) ==
    /\ pc[<<c, 0>>] = "idle"
    /\ calls[c] < MaxCalls
    /\ calls' = [calls EXCEPT ![c] = @ + 1]
    /\ \E n \in 0..MaxQueries, raise \in BOOLEAN :
          many' = [many EXCEPT ![c] = [n |-> n, raise |-> raise, i |-> 1]]
    /\ out' = [out EXCEPT ![c] = NoResults]
    /\ ended' = [ended EXCEPT ![c] = "none"]
    /\ Goto(<<c, 0>>, "launch")
    /\ UNCHANGED <<threadSafe, backend, redis, mtx, undefined>>

\* Mutant of Launch: one thread too many.
LaunchPast(c) ==
    /\ pc[<<c, 0>>] = "launch"
    /\ IF many[c].i <= many[c].n + 1 /\ many[c].i <= MaxQueries
         THEN /\ pc' = [pc EXCEPT ![<<c, many[c].i>>] = "query"]
              /\ many' = [many EXCEPT ![c].i = @ + 1]
         ELSE /\ Goto(<<c, 0>>, "collect")
              /\ many' = [many EXCEPT ![c].i = 1]
    /\ UNCHANGED <<threadSafe, backend, redis, mtx, out, ended, calls, undefined>>

\* std::async for one embedding.
Launch(c) ==
    /\ pc[<<c, 0>>] = "launch"
    /\ IF many[c].i <= many[c].n
         THEN /\ pc' = [pc EXCEPT ![<<c, many[c].i>>] = "query"]
              /\ many' = [many EXCEPT ![c].i = @ + 1]
         ELSE /\ Goto(<<c, 0>>, "collect")
              /\ many' = [many EXCEPT ![c].i = 1]
    /\ UNCHANGED <<threadSafe, backend, redis, mtx, out, ended, calls, undefined>>

\* std::async throws std::system_error, which no catch is around.
LaunchFails(c) ==
    /\ pc[<<c, 0>>] = "launch"
    /\ many[c].i <= many[c].n
    /\ Goto(<<c, 0>>, "unwind")
    /\ UNCHANGED <<threadSafe, backend, redis, mtx, many, out, ended, calls, undefined>>

Ready(c, i) == pc[<<c, i>>] \in {"found", "error"}

\* Mutants of Collect: results in the order they come in; the exception
\* leaves the call at once.
CollectAny(c) ==
    LET i == many[c].i IN
    /\ pc[<<c, 0>>] = "collect"
    /\ i <= many[c].n
    /\ \E j \in 1..many[c].n :
          /\ Ready(c, j)
          /\ \A l \in 1..many[c].n : out[c][l] # j
          /\ out' = [out EXCEPT ![c][i] = IF pc[<<c, j>>] = "found" THEN j ELSE 0]
          /\ IF pc[<<c, j>>] = "error" /\ many[c].raise
               THEN Goto(<<c, 0>>, "unwind") /\ UNCHANGED many
               ELSE UNCHANGED pc /\ many' = [many EXCEPT ![c].i = @ + 1]
    /\ UNCHANGED <<threadSafe, backend, redis, mtx, ended, calls, undefined>>

CollectLeaves(c) ==
    LET i == many[c].i IN
    /\ pc[<<c, 0>>] = "collect"
    /\ i <= many[c].n
    /\ Ready(c, i)
    /\ out' = [out EXCEPT ![c][i] = IF pc[<<c, i>>] = "found" THEN i ELSE 0]
    /\ IF pc[<<c, i>>] = "error" /\ many[c].raise
         THEN /\ Goto(<<c, 0>>, "idle")
              /\ ended' = [ended EXCEPT ![c] = "threw"]
              /\ UNCHANGED many
         ELSE UNCHANGED <<pc, ended>> /\ many' = [many EXCEPT ![c].i = @ + 1]
    /\ UNCHANGED <<threadSafe, backend, redis, mtx, calls, undefined>>

\* futs[i].get()
Collect(c) ==
    LET i == many[c].i IN
    /\ pc[<<c, 0>>] = "collect"
    /\ i <= many[c].n
    /\ Ready(c, i)
    /\ out' = [out EXCEPT ![c][i] = IF pc[<<c, i>>] = "found" THEN i ELSE 0]
    /\ IF pc[<<c, i>>] = "error" /\ many[c].raise
         THEN Goto(<<c, 0>>, "unwind") /\ UNCHANGED many
         ELSE UNCHANGED pc /\ many' = [many EXCEPT ![c].i = @ + 1]
    /\ UNCHANGED <<threadSafe, backend, redis, mtx, ended, calls, undefined>>

\* return, or the exception leaves the call; either way the futures there are
\* get destroyed, and the future of an async task waits for its thread.
Finish(c) ==
    /\ \/ pc[<<c, 0>>] = "collect" /\ many[c].i > many[c].n
       \/ pc[<<c, 0>>] = "unwind"
    /\ \A i \in 1..many[c].n : pc[<<c, i>>] \notin {"query", "searching"}
    /\ ended' = [ended EXCEPT ![c] = IF pc[<<c, 0>>] = "unwind" THEN "threw" ELSE "returned"]
    /\ pc' = [t \in Threads |->
                IF t[1] # c THEN pc[t] ELSE IF t[2] = 0 THEN "idle" ELSE "none"]
    /\ UNCHANGED <<threadSafe, backend, redis, mtx, many, out, calls, undefined>>

-----------------------------------------------------------------------------
Step(t) ==
    /\ ~undefined
    /\ \/ Lock(t) \/ Insert(t) \/ CloseBackend(t) \/ Reset(t) \/ Query(t) \/ Search(t)
       \/ t[2] = 0 /\ (Launch(t[1]) \/ LaunchFails(t[1]) \/ Collect(t[1]) \/ Finish(t[1]))

Next ==
    \/ \E t \in Threads : Step(t)
    \/ ~undefined /\ \E c \in Clients : Call(c) \/ QueryMany(c)

Spec == Init /\ [][Next]_vars

\* Every thread that can run does.  Calls are the clients' choice and finitely
\* many, so that std::mutex, which is not fair, still lets every thread in.
FairSpec == Spec /\ \A t \in Threads : WF_vars(Step(t))

-----------------------------------------------------------------------------
Labels == {"none", "idle", "insert", "inserting", "close", "closing", "reset",
           "query", "searching", "found", "error", "launch", "collect", "unwind"}

TypeOK ==
    /\ threadSafe \in Modes
    /\ backend \in BOOLEAN
    /\ redis \in BOOLEAN
    /\ mtx \in Threads \cup {NoThread}
    /\ pc \in [Threads -> Labels]
    /\ many \in [Clients -> [n : 0..MaxQueries, raise : BOOLEAN, i : 0..(MaxQueries + 1)]]
    /\ out \in [Clients -> [1..MaxQueries -> 0..MaxQueries]]
    /\ ended \in [Clients -> {"none", "returned", "threw"}]
    /\ calls \in [Clients -> 0..MaxCalls]
    /\ undefined \in BOOLEAN
    /\ \A c \in Clients, i \in 1..MaxQueries : i > many[c].n => pc[<<c, i>>] = "none"

InBackend(t) == pc[t] \in {"inserting", "closing", "reset", "searching"}

(***************************************************************************)
(* "Inserts are serialised ... Queries can run in parallel as long as the  *)
(* wrapped backend is thread-safe; otherwise we serialise them too": two   *)
(* threads are in the backend only as two queries of a thread-safe one, or *)
(* as a query of it beside an insert or a close.                           *)
(***************************************************************************)
Serialised ==
    \A t, u \in Threads :
        t # u /\ InBackend(t) /\ InBackend(u) =>
            threadSafe /\ "searching" \in {pc[t], pc[u]}

(***************************************************************************)
(* Without a close every call goes through a live backend; and when the    *)
(* backend is not thread-safe, no call ever sees one that is half closed,  *)
(* only a null pointer after the close.                                    *)
(***************************************************************************)
UndefinedOnlyByClose ==
    /\ undefined => ~redis
    /\ undefined /\ ~threadSafe => ~backend

(***************************************************************************)
(* The threads of query_many refer to its parameters k and filter; none is *)
(* left when the call ends, also when it ends by the first exception of a  *)
(* search or because a thread could not be started.                        *)
(***************************************************************************)
TasksEndFirst ==
    \A c \in Clients : pc[<<c, 0>>] = "idle" => \A i \in 1..MaxQueries : pc[<<c, i>>] = "none"

\* Who is in query_many, and how it is with each search, as its future tells.
InCall == {"launch", "collect", "unwind"}
Answered(t) ==
    IF pc[t] = "error" THEN "failed"
    ELSE IF pc[t] \in {"query", "searching"} THEN "searching" ELSE pc[t]

Open == {c \in Clients : pc[<<c, 0>>] \in InCall}
Sizes == [c \in Clients |-> many[c].n]
Raising == {c \in Clients : many[c].raise}
Answers == [c \in Clients |-> [i \in 1..MaxQueries |-> Answered(<<c, i>>)]]
Returned == [c \in Clients |-> IF ended[c] = "returned" THEN out[c] ELSE NoResults]

Many == INSTANCE ManySpec WITH
    open <- Open, size <- Sizes, raising <- Raising, answer <- Answers, list <- Returned

(***************************************************************************)
(* "collect preserving order": whatever order the searches end in, and     *)
(* whatever other threads do, the i-th result of a call that returns is    *)
(* that of the i-th embedding or, if its search failed, empty.  The call   *)
(* throws if and only if it could not start them all, whatever raiseOnErr, *)
(* or has raiseOnErr and one has failed; and however it ends, it ends when *)
(* all that it has started have.                                           *)
(***************************************************************************)
ImplementsManySpec == Many!Spec

(***************************************************************************)
(* Every call returns: the searches of query_many lock the mutex on their  *)
(* own threads while the client that waits for them does not hold it.      *)
(***************************************************************************)
CallsReturn == \A c \in Clients : pc[<<c, 0>>] # "idle" ~> pc[<<c, 0>>] = "idle" \/ undefined
=============================================================================
