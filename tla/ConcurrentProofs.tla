-------------------------- MODULE ConcurrentProofs ---------------------------
(***************************************************************************)
(* Proofs about ConcurrentSearch: what the wrapper serialises, what only a *)
(* close can break, what query_many keeps of its tasks and of their order, *)
(* and that it implements ManySpec, for any number of clients, embeddings  *)
(* and calls.                                                              *)
(***************************************************************************)
EXTENDS ConcurrentSearch, TLAPS

-----------------------------------------------------------------------------
(***************************************************************************)
(* The inductive invariant, one part after the other.                      *)
(***************************************************************************)
ClientLabels == Labels \ {"none", "found", "error"}
TaskLabels == {"none", "query", "searching", "found", "error"}

\* A client is never a task, nor a task a client.
Roles ==
    \A c \in Clients :
        /\ pc[<<c, 0>>] \in ClientLabels
        /\ \A i \in 1..MaxQueries : pc[<<c, i>>] \in TaskLabels

\* mtx_ is held in insert and close, and in a query of an unsafe backend.
NeedsMutex(t) ==
    pc[t] \in {"inserting", "closing", "reset"} \/ (pc[t] = "searching" /\ ~threadSafe)

MutexHeld == \A t \in Threads : NeedsMutex(t) <=> mtx = t

\* backend_ is null only after its close; in between a thread is about to reset it.
ClosedFirst ==
    /\ ~backend => ~redis
    /\ ~redis /\ backend => \E t \in Threads : pc[t] = "reset"
    /\ \A t \in Threads : pc[t] = "reset" => ~redis

\* The tasks of a query_many are those started so far.
Tasks(c) ==
    /\ pc[<<c, 0>>] \notin InCall => \A i \in 1..MaxQueries : pc[<<c, i>>] = "none"
    /\ pc[<<c, 0>>] = "launch" =>
          \A i \in 1..MaxQueries : i >= many[c].i => pc[<<c, i>>] = "none"
    /\ pc[<<c, 0>>] \in InCall => many[c].i \in 1..(many[c].n + 1)
    /\ \A i \in 1..MaxQueries : i > many[c].n => pc[<<c, i>>] = "none"

\* The results before the index are in order, and complete if the call raises.
Collected(c, i) == out[c][i] \in {0, i} /\ (many[c].raise => out[c][i] = i)

Results(c) ==
    /\ pc[<<c, 0>>] \in InCall => ended[c] = "none"
    /\ pc[<<c, 0>>] = "collect" => \A i \in 1..many[c].n : i < many[c].i => Collected(c, i)
    /\ ended[c] = "returned" => \A i \in 1..many[c].n : Collected(c, i)

ManyOK == \A c \in Clients : Tasks(c) /\ Results(c)

IInv ==
    /\ TypeOK /\ Roles /\ MutexHeld /\ ClosedFirst /\ UndefinedOnlyByClose
    /\ ManyOK

-----------------------------------------------------------------------------
LEMMA NoThreadIsNone == NoThread \notin Threads
BY DEF NoThread, Threads

LEMMA ThreadShape ==
    ASSUME NEW c \in Clients
    PROVE  /\ <<c, 0>> \in Threads
           /\ \A i \in 1..MaxQueries : <<c, i>> \in Threads /\ <<c, i>> # <<c, 0>>
BY WrapperAssumption DEF Threads

LEMMA ManyShape ==
    ASSUME TypeOK, NEW c \in Clients
    PROVE  /\ many[c].n \in 0..MaxQueries /\ many[c].n \in Nat
           /\ many[c].raise \in BOOLEAN
           /\ many[c].i \in 0..(MaxQueries + 1) /\ many[c].i \in Nat
BY WrapperAssumption DEF TypeOK

\* A step of one client's query_many leaves those of the others alone.
LEMMA Others ==
    ASSUME ManyOK, NEW d \in Clients,
           pc'[<<d, 0>>] = pc[<<d, 0>>],
           \A i \in 1..MaxQueries : pc'[<<d, i>>] = pc[<<d, i>>],
           many'[d] = many[d], out'[d] = out[d], ended'[d] = ended[d]
    PROVE  Tasks(d)' /\ Results(d)'
<1>1. Tasks(d)'
  BY DEF ManyOK, Tasks
<1>2. Results(d)'
  BY DEF ManyOK, Results, Collected
<1> QED
  BY <1>1, <1>2

LEMMA ThreadIs ==
    ASSUME NEW t \in Threads
    PROVE  \/ \E c \in Clients : t = <<c, 0>>
           \/ \E c \in Clients, i \in 1..MaxQueries : t = <<c, i>>
BY WrapperAssumption DEF Threads

LEMMA Initially == Init => IInv
<1> SUFFICES ASSUME Init PROVE IInv
  OBVIOUS
<1> USE DEF Init
<1>1. TypeOK
  <2>1. pc \in [Threads -> Labels]
    BY DEF Labels
  <2>2. many \in [Clients -> [n : 0..MaxQueries, raise : BOOLEAN, i : 0..(MaxQueries + 1)]]
        /\ out \in [Clients -> [1..MaxQueries -> 0..MaxQueries]]
        /\ calls \in [Clients -> 0..MaxCalls]
    BY WrapperAssumption DEF NoCall, NoResults
  <2>3. \A c \in Clients, i \in 1..MaxQueries : pc[<<c, i>>] = "none"
    BY ThreadShape
  <2> QED
    BY <2>1, <2>2, <2>3, WrapperAssumption DEF TypeOK
<1>2. Roles
  BY ThreadShape DEF Roles, ClientLabels, TaskLabels, Labels
<1>3. MutexHeld /\ ClosedFirst /\ UndefinedOnlyByClose
  BY NoThreadIsNone DEF MutexHeld, NeedsMutex, ClosedFirst, UndefinedOnlyByClose
<1>4. ManyOK
  BY ThreadShape DEF ManyOK, Tasks, Results, InCall
<1> QED
  BY <1>1, <1>2, <1>3, <1>4 DEF IInv

-----------------------------------------------------------------------------
(***************************************************************************)
(* Steps of one thread that leave the loops of query_many alone.           *)
(***************************************************************************)

\* Thread t goes on to a label of its kind, and is not in a loop of query_many.
Moves(t, label) ==
    /\ pc' = [pc EXCEPT ![t] = label]
    /\ UNCHANGED <<threadSafe, many, out, ended>>
    /\ \/ pc[t] \in ClientLabels \ TaskLabels /\ label \in ClientLabels
       \/ pc[t] = "query" /\ label = "searching"
       \/ pc[t] = "searching" /\ t[2] = 0 /\ label = "idle"
       \/ pc[t] = "searching" /\ t[2] # 0 /\ label \in {"found", "error"}
    /\ pc[t] \notin InCall /\ label \notin InCall

LEMMA MovesStep ==
    ASSUME IInv, NEW t \in Threads, NEW label, Moves(t, label)
    PROVE  /\ pc' \in [Threads -> Labels]
           /\ pc'[t] = label
           /\ \A u \in Threads \ {t} : pc'[u] = pc[u]
           /\ Roles' /\ ManyOK'
           /\ \A c \in Clients, i \in 1..MaxQueries : i > many'[c].n => pc'[<<c, i>>] = "none"
<1> USE DEF IInv
<1>1. label \in Labels
  BY DEF Moves, ClientLabels, Labels
<1>2. /\ pc' \in [Threads -> Labels]
      /\ pc'[t] = label
      /\ \A u \in Threads \ {t} : pc'[u] = pc[u]
  BY <1>1 DEF Moves, TypeOK
<1>3. CASE \E c \in Clients : t = <<c, 0>>
  <2>1. PICK c \in Clients : t = <<c, 0>>
    BY <1>3
  <2>2. pc[t] \in ClientLabels /\ label \in ClientLabels
    BY <2>1 DEF Moves, Roles, ClientLabels, Labels
  <2>3. \A d \in Clients, i \in 1..MaxQueries : pc'[<<d, i>>] = pc[<<d, i>>]
    BY <1>2, <2>1, ThreadShape
  <2>4. \A d \in Clients \ {c} : pc'[<<d, 0>>] = pc[<<d, 0>>]
    BY <1>2, <2>1, ThreadShape
  <2>5. Roles'
    BY <1>2, <2>1, <2>2, <2>3, <2>4 DEF Roles
  <2>6. Tasks(c)' /\ Results(c)'
    BY <1>2, <2>1, <2>3 DEF Moves, ManyOK, Tasks, Results, Collected, InCall
  <2>7. ManyOK'
    BY <2>3, <2>4, <2>6, Others DEF Moves, ManyOK
  <2> QED
    BY <1>2, <2>3, <2>5, <2>7 DEF Moves, TypeOK
<1>4. CASE \E c \in Clients, i \in 1..MaxQueries : t = <<c, i>>
  <2>1. PICK c \in Clients, i \in 1..MaxQueries : t = <<c, i>>
    BY <1>4
  <2>2. pc[t] \in {"query", "searching"} /\ label \in TaskLabels
    <3>1. t[2] = i /\ i # 0
      BY <2>1
    <3>2. pc[t] \in TaskLabels
      BY <2>1 DEF Roles
    <3> QED
      BY <3>1, <3>2 DEF Moves, TaskLabels
  <2>3. \A d \in Clients : pc'[<<d, 0>>] = pc[<<d, 0>>]
    BY <1>2, <2>1, ThreadShape
  <2>4. \A d \in Clients, j \in 1..MaxQueries :
           \/ pc'[<<d, j>>] = pc[<<d, j>>]
           \/ d = c /\ j = i
    BY <1>2, <2>1, ThreadShape
  <2>5. Roles'
    BY <1>2, <2>1, <2>2, <2>3, <2>4 DEF Roles
  <2>6. \A j \in 1..MaxQueries : pc[<<c, j>>] = "none" => pc'[<<c, j>>] = "none"
    BY <2>1, <2>2, <2>4
  <2>7. Tasks(c)' /\ Results(c)'
    BY <2>1, <2>2, <2>3, <2>6 DEF Moves, ManyOK, Tasks, Results, Collected
  <2>8. ManyOK'
    BY <2>3, <2>4, <2>7, Others DEF Moves, ManyOK
  <2> QED
    BY <1>2, <2>5, <2>8 DEF Moves, ManyOK, Tasks
<1> QED
  BY <1>3, <1>4, ThreadIs

LEMMA CallStep ==
    ASSUME IInv, NEW c \in Clients, Call(c)
    PROVE  IInv'
<1> USE DEF IInv
<1> DEFINE t == <<c, 0>>
<1>1. PICK f \in {"insert", "query", "close"} :
         /\ pc[t] = "idle" /\ pc' = [pc EXCEPT ![t] = f]
         /\ calls[c] < MaxCalls /\ calls' = [calls EXCEPT ![c] = @ + 1]
         /\ UNCHANGED <<threadSafe, backend, redis, mtx, many, out, ended, undefined>>
  BY DEF Call, Goto
<1>2. t \in Threads
  BY ThreadShape
<1> HIDE DEF t
<1>3. Moves(t, f)
  BY <1>1 DEF Moves, ClientLabels, TaskLabels, Labels, InCall
<1>4. TypeOK'
  <2>1. calls' \in [Clients -> 0..MaxCalls]
    BY <1>1, WrapperAssumption DEF TypeOK
  <2> QED
    BY <1>1, <1>2, <1>3, <2>1, MovesStep DEF TypeOK
<1>5. MutexHeld'
  BY <1>1, <1>2, <1>3, MovesStep DEF MutexHeld, NeedsMutex
<1>6. ClosedFirst' /\ UndefinedOnlyByClose'
  BY <1>1, <1>2, <1>3, MovesStep DEF ClosedFirst, UndefinedOnlyByClose
<1> QED
  BY <1>2, <1>3, <1>4, <1>5, <1>6, MovesStep

\* insert, close and the bodies they guard.
LEMMA LockStep ==
    ASSUME IInv, NEW t \in Threads, Lock(t)
    PROVE  IInv'
<1> USE DEF IInv
<1> DEFINE label == IF pc[t] = "insert" THEN "inserting" ELSE "closing"
<1>1. /\ pc[t] \in {"insert", "close"} /\ mtx = NoThread /\ mtx' = t
      /\ pc' = [pc EXCEPT ![t] = label]
      /\ UNCHANGED <<threadSafe, backend, redis, many, out, ended, calls, undefined>>
  BY DEF Lock, Goto
<1>2. label \in {"inserting", "closing"}
  OBVIOUS
<1> HIDE DEF label
<1>3. Moves(t, label)
  BY <1>1, <1>2 DEF Moves, ClientLabels, TaskLabels, Labels, InCall
<1>4. TypeOK'
  BY <1>1, <1>3, MovesStep DEF TypeOK
<1>5. MutexHeld'
  BY <1>1, <1>2, <1>3, MovesStep, NoThreadIsNone DEF MutexHeld, NeedsMutex
<1>6. ClosedFirst' /\ UndefinedOnlyByClose'
  BY <1>1, <1>2, <1>3, MovesStep DEF ClosedFirst, UndefinedOnlyByClose
<1> QED
  BY <1>3, <1>4, <1>5, <1>6, MovesStep

LEMMA InsertStep ==
    ASSUME IInv, NEW t \in Threads, Insert(t)
    PROVE  IInv'
<1> USE DEF IInv
<1>1. /\ pc[t] = "inserting" /\ undefined' = ~backend
      /\ mtx' = IF mtx = t THEN NoThread ELSE mtx
      /\ pc' = [pc EXCEPT ![t] = "idle"]
      /\ UNCHANGED <<threadSafe, backend, redis, many, out, ended, calls>>
  BY DEF Insert, Goto, Unlock
<1>2. Moves(t, "idle")
  BY <1>1 DEF Moves, ClientLabels, TaskLabels, Labels, InCall
<1>3. TypeOK'
  BY <1>1, <1>2, MovesStep DEF TypeOK
<1>4. MutexHeld'
  BY <1>1, <1>2, MovesStep, NoThreadIsNone DEF MutexHeld, NeedsMutex
<1>5. ClosedFirst' /\ UndefinedOnlyByClose'
  BY <1>1, <1>2, MovesStep DEF ClosedFirst, UndefinedOnlyByClose, TypeOK
<1> QED
  BY <1>2, <1>3, <1>4, <1>5, MovesStep

LEMMA CloseBackendStep ==
    ASSUME IInv, NEW t \in Threads, CloseBackend(t)
    PROVE  IInv'
<1> USE DEF IInv
<1> DEFINE label == IF backend THEN "reset" ELSE "idle"
<1>1. /\ pc[t] = "closing" /\ redis' = (redis /\ ~backend)
      /\ mtx' = IF ~backend /\ mtx = t THEN NoThread ELSE mtx
      /\ pc' = [pc EXCEPT ![t] = label]
      /\ UNCHANGED <<threadSafe, backend, many, out, ended, calls, undefined>>
  BY DEF CloseBackend, Goto, Unlock
<1>2. label \in {"reset", "idle"} /\ (label = "reset" <=> backend)
  OBVIOUS
<1> HIDE DEF label
<1>3. Moves(t, label)
  BY <1>1, <1>2 DEF Moves, ClientLabels, TaskLabels, Labels, InCall
<1>4. TypeOK'
  BY <1>1, <1>3, MovesStep DEF TypeOK
<1>5. MutexHeld'
  BY <1>1, <1>2, <1>3, MovesStep, NoThreadIsNone DEF MutexHeld, NeedsMutex
<1>6. ClosedFirst' /\ UndefinedOnlyByClose'
  BY <1>1, <1>2, <1>3, MovesStep DEF ClosedFirst, UndefinedOnlyByClose, TypeOK
<1> QED
  BY <1>3, <1>4, <1>5, <1>6, MovesStep

LEMMA ResetStep ==
    ASSUME IInv, NEW t \in Threads, Reset(t)
    PROVE  IInv'
<1> USE DEF IInv
<1>1. /\ pc[t] = "reset" /\ backend' = FALSE
      /\ mtx' = IF mtx = t THEN NoThread ELSE mtx
      /\ pc' = [pc EXCEPT ![t] = "idle"]
      /\ UNCHANGED <<threadSafe, redis, many, out, ended, calls, undefined>>
  BY DEF Reset, Goto, Unlock
<1>2. Moves(t, "idle")
  BY <1>1 DEF Moves, ClientLabels, TaskLabels, Labels, InCall
<1>3. TypeOK'
  BY <1>1, <1>2, MovesStep DEF TypeOK
<1>4. MutexHeld'
  BY <1>1, <1>2, MovesStep, NoThreadIsNone DEF MutexHeld, NeedsMutex
<1>5. ClosedFirst' /\ UndefinedOnlyByClose'
  BY <1>1, <1>2, MovesStep DEF ClosedFirst, UndefinedOnlyByClose, TypeOK
<1> QED
  BY <1>2, <1>3, <1>4, <1>5, MovesStep

\* A query enters the backend, and comes out of it.
LEMMA QueryStep ==
    ASSUME IInv, NEW t \in Threads, Query(t), ~undefined
    PROVE  IInv'
<1> USE DEF IInv
<1>1. /\ pc[t] = "query" /\ undefined' = ~backend
      /\ IF threadSafe THEN mtx' = mtx ELSE mtx = NoThread /\ mtx' = t
      /\ pc' = [pc EXCEPT ![t] = "searching"]
      /\ UNCHANGED <<threadSafe, backend, redis, many, out, ended, calls>>
  BY DEF Query, Goto
<1>2. Moves(t, "searching")
  BY <1>1 DEF Moves, InCall
<1>3. TypeOK'
  BY <1>1, <1>2, MovesStep DEF TypeOK
<1>4. MutexHeld'
  BY <1>1, <1>2, MovesStep, NoThreadIsNone DEF MutexHeld, NeedsMutex
<1>5. ClosedFirst' /\ UndefinedOnlyByClose'
  BY <1>1, <1>2, MovesStep DEF ClosedFirst, UndefinedOnlyByClose, TypeOK
<1> QED
  BY <1>2, <1>3, <1>4, <1>5, MovesStep

LEMMA SearchStep ==
    ASSUME IInv, NEW t \in Threads, Search(t)
    PROVE  IInv'
<1> USE DEF IInv
<1>1. PICK label :
         /\ IF t[2] = 0 THEN label = "idle" ELSE label \in {"found", "error"}
         /\ pc' = [pc EXCEPT ![t] = label]
  BY DEF Search, Goto
<1>2. /\ pc[t] = "searching" /\ undefined' = ~redis
      /\ mtx' = IF mtx = t THEN NoThread ELSE mtx
      /\ UNCHANGED <<threadSafe, backend, redis, many, out, ended, calls>>
  BY DEF Search, Unlock
<1>3. Moves(t, label)
  BY <1>1, <1>2 DEF Moves, InCall
<1>4. TypeOK'
  BY <1>2, <1>3, MovesStep DEF TypeOK
<1>5. MutexHeld'
  BY <1>1, <1>2, <1>3, MovesStep, NoThreadIsNone DEF MutexHeld, NeedsMutex
<1>6. ClosedFirst'
  BY <1>1, <1>2, <1>3, MovesStep DEF ClosedFirst, TypeOK
<1>7. UndefinedOnlyByClose'
  <2>1. ~threadSafe => \A u \in Threads : pc[u] # "reset"
    BY <1>2 DEF MutexHeld, NeedsMutex
  <2> QED
    BY <1>2, <2>1 DEF UndefinedOnlyByClose, ClosedFirst, TypeOK
<1> QED
  BY <1>3, <1>4, <1>5, <1>6, <1>7, MovesStep

-----------------------------------------------------------------------------
(***************************************************************************)
(* query_many.                                                             *)
(***************************************************************************)

\* A step of query_many: only pc of one thread of the client, and its own call.
LEMMA OwnCall ==
    ASSUME IInv, NEW c \in Clients,
           UNCHANGED <<threadSafe, backend, redis, mtx, undefined>>,
           pc' \in [Threads -> Labels],
           \A u \in Threads : pc'[u] # pc[u] =>
               pc[u] \notin {"inserting", "closing", "reset", "searching"}
               /\ pc'[u] \notin {"inserting", "closing", "reset", "searching"}
    PROVE  MutexHeld' /\ ClosedFirst' /\ UndefinedOnlyByClose'
<1> USE DEF IInv
<1>1. MutexHeld'
  BY DEF MutexHeld, NeedsMutex
<1>2. ClosedFirst'
  BY DEF ClosedFirst
<1>3. UndefinedOnlyByClose'
  BY DEF UndefinedOnlyByClose
<1> QED
  BY <1>1, <1>2, <1>3

LEMMA QueryManyStep ==
    ASSUME IInv, NEW c \in Clients, QueryMany(c)
    PROVE  IInv'
<1> USE DEF IInv
<1>1. PICK n \in 0..MaxQueries, raise \in BOOLEAN :
         many' = [many EXCEPT ![c] = [n |-> n, raise |-> raise, i |-> 1]]
  BY DEF QueryMany
<1>2. /\ pc[<<c, 0>>] = "idle" /\ calls[c] < MaxCalls
      /\ calls' = [calls EXCEPT ![c] = @ + 1]
      /\ out' = [out EXCEPT ![c] = NoResults]
      /\ ended' = [ended EXCEPT ![c] = "none"]
      /\ pc' = [pc EXCEPT ![<<c, 0>>] = "launch"]
      /\ UNCHANGED <<threadSafe, backend, redis, mtx, undefined>>
  BY DEF QueryMany, Goto
<1>3. /\ pc' \in [Threads -> Labels] /\ pc'[<<c, 0>>] = "launch"
      /\ \A u \in Threads \ {<<c, 0>>} : pc'[u] = pc[u]
  BY <1>2, ThreadShape DEF TypeOK, Labels
<1>4. /\ \A d \in Clients, i \in 1..MaxQueries : pc'[<<d, i>>] = pc[<<d, i>>]
      /\ \A d \in Clients \ {c} : pc'[<<d, 0>>] = pc[<<d, 0>>]
  BY <1>3, ThreadShape
<1>5. \A i \in 1..MaxQueries : pc[<<c, i>>] = "none"
  BY <1>2 DEF ManyOK, Tasks, InCall
<1>6. TypeOK'
  <2>1. calls' \in [Clients -> 0..MaxCalls]
    BY <1>2, WrapperAssumption DEF TypeOK
  <2>2. many' \in [Clients -> [n : 0..MaxQueries, raise : BOOLEAN, i : 0..(MaxQueries + 1)]]
    BY <1>1, WrapperAssumption DEF TypeOK
  <2>3. out' \in [Clients -> [1..MaxQueries -> 0..MaxQueries]]
    BY <1>2, WrapperAssumption DEF TypeOK, NoResults
  <2>4. ended' \in [Clients -> {"none", "returned", "threw"}]
    BY <1>2 DEF TypeOK
  <2>5. \A d \in Clients, i \in 1..MaxQueries : i > many'[d].n => pc'[<<d, i>>] = "none"
    BY <1>1, <1>4, <1>5 DEF TypeOK
  <2> QED
    BY <1>2, <1>3, <2>1, <2>2, <2>3, <2>4, <2>5 DEF TypeOK
<1>7. Roles'
  BY <1>3, <1>4 DEF Roles, ClientLabels, Labels
<1>8. MutexHeld' /\ ClosedFirst' /\ UndefinedOnlyByClose'
  BY <1>2, <1>3, OwnCall
<1>9. many'[c].i = 1 /\ many'[c].n \in Nat /\ \A d \in Clients \ {c} : many'[d] = many[d]
  BY <1>1 DEF TypeOK
<1>10. ended'[c] = "none" /\ \A d \in Clients \ {c} : ended'[d] = ended[d] /\ out'[d] = out[d]
  BY <1>2 DEF TypeOK
<1>11. Tasks(c)'
  BY <1>3, <1>4, <1>5, <1>9 DEF Tasks, InCall
<1>12. Results(c)'
  BY <1>3, <1>10 DEF Results
<1>13. ManyOK'
  BY <1>4, <1>9, <1>10, <1>11, <1>12, Others DEF ManyOK
<1> QED
  BY <1>6, <1>7, <1>8, <1>13

LEMMA LaunchStep ==
    ASSUME IInv, NEW c \in Clients, Launch(c)
    PROVE  IInv'
<1> USE DEF IInv
<1> DEFINE i == many[c].i
           n == many[c].n
<1>1. pc[<<c, 0>>] = "launch" /\ UNCHANGED <<threadSafe, backend, redis, mtx, out, ended, calls, undefined>>
  BY DEF Launch
<1>2. n \in 0..MaxQueries /\ i \in 1..(n + 1) /\ n \in Nat /\ i \in Nat
  BY <1>1, ManyShape DEF ManyOK, Tasks, InCall
<1>3. CASE i <= n
  <2>1. i \in 1..MaxQueries /\ <<c, i>> \in Threads /\ <<c, 0>> \in Threads
    BY <1>2, <1>3, ThreadShape, WrapperAssumption
  <2>2. pc' = [pc EXCEPT ![<<c, i>>] = "query"] /\ many' = [many EXCEPT ![c].i = i + 1]
    BY <1>3 DEF Launch
  <2>3. /\ pc' \in [Threads -> Labels] /\ pc'[<<c, i>>] = "query"
        /\ \A u \in Threads \ {<<c, i>>} : pc'[u] = pc[u]
    BY <2>1, <2>2 DEF TypeOK, Labels
  <2>4. /\ \A d \in Clients : pc'[<<d, 0>>] = pc[<<d, 0>>]
        /\ \A d \in Clients, j \in 1..MaxQueries : d # c \/ j # i => pc'[<<d, j>>] = pc[<<d, j>>]
    BY <2>1, <2>3, ThreadShape
  <2>5. /\ many' \in [Clients -> [n : 0..MaxQueries, raise : BOOLEAN, i : 0..(MaxQueries + 1)]]
        /\ many'[c].i = i + 1 /\ many'[c].n = n /\ many'[c].raise = many[c].raise
        /\ \A d \in Clients \ {c} : many'[d] = many[d]
    <3>1. i + 1 \in 0..(MaxQueries + 1)
      BY <1>2, <1>3, WrapperAssumption
    <3>2. many[c] \in [n : 0..MaxQueries, raise : BOOLEAN, i : 0..(MaxQueries + 1)]
      BY DEF TypeOK
    <3>3. [many[c] EXCEPT !.i = i + 1] \in [n : 0..MaxQueries, raise : BOOLEAN, i : 0..(MaxQueries + 1)]
      BY <3>1, <3>2
    <3> QED
      BY <2>2, <3>3 DEF TypeOK
  <2> HIDE DEF i, n
  <2>6. Roles'
    BY <2>3, <2>4 DEF Roles, TaskLabels
  <2>7. \A j \in 1..MaxQueries : j >= i => pc[<<c, j>>] = "none"
    BY <1>1 DEF ManyOK, Tasks, i
  <2>8. MutexHeld' /\ ClosedFirst' /\ UndefinedOnlyByClose'
    BY <1>1, <1>2, <2>1, <2>3, <2>7, OwnCall
  <2>9. Tasks(c)'
    <3>1. \A j \in 1..MaxQueries : j >= i + 1 => pc'[<<c, j>>] = "none"
      BY <1>2, <2>4, <2>7
    <3>2. pc'[<<c, 0>>] = "launch" /\ i + 1 \in 1..(n + 1)
      BY <1>1, <1>2, <1>3, <2>4
    <3>3. \A j \in 1..MaxQueries : j > n => pc'[<<c, j>>] = "none"
      BY <1>2, <1>3, <3>1
    <3> QED
      BY <2>5, <3>1, <3>2, <3>3 DEF Tasks, InCall
  <2>10. Results(c)'
    BY <1>1, <2>4, <2>5 DEF ManyOK, Results, Collected, InCall, n
  <2>11. ManyOK'
    BY <1>1, <2>4, <2>5, <2>9, <2>10, Others DEF ManyOK
  <2>12. TypeOK'
    BY <1>1, <2>3, <2>5, <2>11 DEF TypeOK, ManyOK, Tasks
  <2> QED
    BY <2>6, <2>8, <2>11, <2>12
<1>4. CASE i > n
  <2>1. pc' = [pc EXCEPT ![<<c, 0>>] = "collect"] /\ many' = [many EXCEPT ![c].i = 1]
    BY <1>2, <1>4 DEF Launch, Goto
  <2>2. /\ pc' \in [Threads -> Labels] /\ pc'[<<c, 0>>] = "collect"
        /\ \A u \in Threads \ {<<c, 0>>} : pc'[u] = pc[u]
    BY <2>1, ThreadShape DEF TypeOK, Labels
  <2>3. /\ \A d \in Clients, j \in 1..MaxQueries : pc'[<<d, j>>] = pc[<<d, j>>]
        /\ \A d \in Clients \ {c} : pc'[<<d, 0>>] = pc[<<d, 0>>]
    BY <2>2, ThreadShape
  <2>4. /\ many' \in [Clients -> [n : 0..MaxQueries, raise : BOOLEAN, i : 0..(MaxQueries + 1)]]
        /\ many'[c].i = 1 /\ many'[c].n = n /\ many'[c].raise = many[c].raise
        /\ \A d \in Clients \ {c} : many'[d] = many[d]
    <3>1. 1 \in 0..(MaxQueries + 1)
      BY <1>2, WrapperAssumption
    <3>2. many[c] \in [n : 0..MaxQueries, raise : BOOLEAN, i : 0..(MaxQueries + 1)]
      BY DEF TypeOK
    <3>3. [many[c] EXCEPT !.i = 1] \in [n : 0..MaxQueries, raise : BOOLEAN, i : 0..(MaxQueries + 1)]
      BY <3>1, <3>2
    <3> QED
      BY <2>1, <3>3 DEF TypeOK
  <2> HIDE DEF i, n
  <2>5. Roles'
    BY <2>2, <2>3 DEF Roles, ClientLabels, Labels
  <2>6. MutexHeld' /\ ClosedFirst' /\ UndefinedOnlyByClose'
    BY <1>1, <2>2, OwnCall
  <2>7. Tasks(c)'
    <3>1. \A j \in 1..MaxQueries : j > n => pc[<<c, j>>] = "none"
      BY DEF ManyOK, Tasks, n
    <3>2. 1 \in 1..(n + 1)
      BY <1>2
    <3> QED
      BY <2>2, <2>3, <2>4, <3>1, <3>2 DEF Tasks, InCall
  <2>8. Results(c)'
    <3>1. ended[c] = "none"
      BY <1>1 DEF ManyOK, Results, InCall
    <3> QED
      BY <1>1, <2>2, <2>4, <3>1 DEF Results
  <2>9. ManyOK'
    BY <1>1, <2>3, <2>4, <2>7, <2>8, Others DEF ManyOK
  <2>10. TypeOK'
    BY <1>1, <2>2, <2>4, <2>9 DEF TypeOK, ManyOK, Tasks
  <2> QED
    BY <2>5, <2>6, <2>9, <2>10
<1> QED
  BY <1>2, <1>3, <1>4

LEMMA LaunchFailsStep ==
    ASSUME IInv, NEW c \in Clients, LaunchFails(c)
    PROVE  IInv'
<1> USE DEF IInv
<1>1. /\ pc[<<c, 0>>] = "launch" /\ pc' = [pc EXCEPT ![<<c, 0>>] = "unwind"]
      /\ UNCHANGED <<threadSafe, backend, redis, mtx, many, out, ended, calls, undefined>>
  BY DEF LaunchFails, Goto
<1>2. /\ pc' \in [Threads -> Labels] /\ pc'[<<c, 0>>] = "unwind"
      /\ \A u \in Threads \ {<<c, 0>>} : pc'[u] = pc[u]
  BY <1>1, ThreadShape DEF TypeOK, Labels
<1>3. /\ \A d \in Clients, j \in 1..MaxQueries : pc'[<<d, j>>] = pc[<<d, j>>]
      /\ \A d \in Clients \ {c} : pc'[<<d, 0>>] = pc[<<d, 0>>]
  BY <1>2, ThreadShape
<1>4. TypeOK'
  BY <1>1, <1>2, <1>3 DEF TypeOK
<1>5. Roles'
  BY <1>2, <1>3 DEF Roles, ClientLabels, Labels
<1>6. MutexHeld' /\ ClosedFirst' /\ UndefinedOnlyByClose'
  BY <1>1, <1>2, OwnCall
<1>7. Tasks(c)' /\ Results(c)'
  BY <1>1, <1>2, <1>3 DEF ManyOK, Tasks, Results, Collected, InCall
<1>8. ManyOK'
  BY <1>1, <1>3, <1>7, Others DEF ManyOK
<1> QED
  BY <1>4, <1>5, <1>6, <1>8

LEMMA CollectStep ==
    ASSUME IInv, NEW c \in Clients, Collect(c)
    PROVE  IInv'
<1> USE DEF IInv
<1> DEFINE i == many[c].i
           n == many[c].n
           found == pc[<<c, i>>] = "found"
           throws == pc[<<c, i>>] = "error" /\ many[c].raise
<1>1. /\ pc[<<c, 0>>] = "collect" /\ i <= n /\ Ready(c, i)
      /\ out' = [out EXCEPT ![c][i] = IF found THEN i ELSE 0]
      /\ IF throws THEN pc' = [pc EXCEPT ![<<c, 0>>] = "unwind"] /\ many' = many
                   ELSE pc' = pc /\ many' = [many EXCEPT ![c].i = i + 1]
      /\ UNCHANGED <<threadSafe, backend, redis, mtx, ended, calls, undefined>>
  BY DEF Collect, Goto
<1>2. n \in 0..MaxQueries /\ i \in 1..n /\ n \in Nat /\ i \in Nat /\ i \in 1..MaxQueries
  <2>1. n \in 0..MaxQueries /\ n \in Nat /\ i \in 1..(n + 1) /\ i \in Nat
    BY <1>1, ManyShape DEF ManyOK, Tasks, InCall
  <2> QED
    BY <1>1, <2>1, WrapperAssumption
<1>3. /\ pc' \in [Threads -> Labels]
      /\ pc'[<<c, 0>>] = IF throws THEN "unwind" ELSE "collect"
      /\ \A u \in Threads \ {<<c, 0>>} : pc'[u] = pc[u]
  BY <1>1, ThreadShape DEF TypeOK, Labels
<1>4. /\ \A d \in Clients, j \in 1..MaxQueries : pc'[<<d, j>>] = pc[<<d, j>>]
      /\ \A d \in Clients \ {c} : pc'[<<d, 0>>] = pc[<<d, 0>>]
  BY <1>3, ThreadShape
<1>5. /\ many' \in [Clients -> [n : 0..MaxQueries, raise : BOOLEAN, i : 0..(MaxQueries + 1)]]
      /\ many'[c].i = (IF throws THEN i ELSE i + 1) /\ many'[c].n = n
      /\ many'[c].raise = many[c].raise
      /\ \A d \in Clients \ {c} : many'[d] = many[d]
  <2>1. i + 1 \in 0..(MaxQueries + 1)
    BY <1>2, WrapperAssumption
  <2>2. many[c] \in [n : 0..MaxQueries, raise : BOOLEAN, i : 0..(MaxQueries + 1)]
    BY DEF TypeOK
  <2>3. [many[c] EXCEPT !.i = i + 1] \in [n : 0..MaxQueries, raise : BOOLEAN, i : 0..(MaxQueries + 1)]
    BY <2>1, <2>2
  <2>4. CASE throws
    BY <1>1, <2>4 DEF TypeOK
  <2>5. CASE ~throws
    <3>1. many' = [many EXCEPT ![c] = [many[c] EXCEPT !.i = i + 1]]
      BY <1>1, <2>5
    <3>2. /\ many'[c] = [many[c] EXCEPT !.i = i + 1]
          /\ \A d \in Clients \ {c} : many'[d] = many[d]
      BY <3>1 DEF TypeOK
    <3>3. many' \in [Clients -> [n : 0..MaxQueries, raise : BOOLEAN, i : 0..(MaxQueries + 1)]]
      BY <3>1, <2>3 DEF TypeOK
    <3> QED
      BY <2>2, <2>5, <3>2, <3>3
  <2> QED
    BY <2>4, <2>5
<1>6. /\ out' \in [Clients -> [1..MaxQueries -> 0..MaxQueries]]
      /\ out'[c][i] = (IF found THEN i ELSE 0)
      /\ \A j \in 1..MaxQueries : j # i => out'[c][j] = out[c][j]
      /\ \A d \in Clients \ {c} : out'[d] = out[d]
  BY <1>1, <1>2, WrapperAssumption DEF TypeOK
<1>7. found \/ throws \/ ~many[c].raise
  BY <1>1 DEF Ready
<1> HIDE DEF i, n, found, throws
<1>8. Roles'
  BY <1>3, <1>4 DEF Roles, ClientLabels, Labels
<1>9. MutexHeld' /\ ClosedFirst' /\ UndefinedOnlyByClose'
  BY <1>1, <1>3, OwnCall
<1>10. Tasks(c)'
  <2>1. \A j \in 1..MaxQueries : j > n => pc[<<c, j>>] = "none"
    BY DEF ManyOK, Tasks, n
  <2>2. i \in 1..(n + 1) /\ i + 1 \in 1..(n + 1)
    BY <1>2
  <2>3. pc'[<<c, 0>>] \in {"unwind", "collect"} /\ many'[c].i \in 1..(n + 1)
    BY <1>3, <1>5, <2>2
  <2> QED
    BY <1>4, <1>5, <2>1, <2>3 DEF Tasks, InCall
<1>11. Results(c)'
  <2>1. ~throws => out'[c][i] \in {0, i} /\ (many'[c].raise => out'[c][i] = i)
    BY <1>5, <1>6, <1>7
  <2>2. \A j \in 1..n : j < i => Collected(c, j)
    BY <1>1 DEF ManyOK, Results, i, n
  <2>3. \A j \in 1..n : j < i => Collected(c, j)'
    <3>1. \A j \in 1..n : j < i => j \in 1..MaxQueries /\ j # i
      BY <1>2, WrapperAssumption
    <3> QED
      BY <1>5, <1>6, <2>2, <3>1 DEF Collected
  <2>4. ~throws => \A j \in 1..n : j < i + 1 => Collected(c, j)'
    <3>1. \A j \in 1..n : j < i + 1 => j < i \/ j = i
      BY <1>2
    <3> SUFFICES ASSUME ~throws, NEW j \in 1..n, j < i + 1 PROVE Collected(c, j)'
      OBVIOUS
    <3>2. CASE j = i
      BY <2>1, <3>2 DEF Collected
    <3>3. CASE j < i
      BY <2>3, <3>3
    <3> QED
      BY <3>1, <3>2, <3>3
  <2>5. ended'[c] = "none"
    BY <1>1 DEF ManyOK, Results, InCall
  <2> QED
    BY <1>3, <1>5, <2>4, <2>5 DEF Results
<1>12. ManyOK'
  BY <1>1, <1>4, <1>5, <1>6, <1>10, <1>11, Others DEF ManyOK
<1>13. TypeOK'
  BY <1>1, <1>3, <1>5, <1>6, <1>12 DEF TypeOK, ManyOK, Tasks
<1> QED
  BY <1>8, <1>9, <1>12, <1>13

LEMMA FinishStep ==
    ASSUME IInv, NEW c \in Clients, Finish(c)
    PROVE  IInv'
<1> USE DEF IInv
<1>1. /\ \/ pc[<<c, 0>>] = "collect" /\ many[c].i > many[c].n
         \/ pc[<<c, 0>>] = "unwind"
      /\ \A i \in 1..many[c].n : pc[<<c, i>>] \notin {"query", "searching"}
      /\ ended' = [ended EXCEPT ![c] = IF pc[<<c, 0>>] = "unwind" THEN "threw" ELSE "returned"]
      /\ pc' = [t \in Threads |->
                  IF t[1] # c THEN pc[t] ELSE IF t[2] = 0 THEN "idle" ELSE "none"]
      /\ UNCHANGED <<threadSafe, backend, redis, mtx, many, out, calls, undefined>>
  BY DEF Finish
<1>2. /\ pc' \in [Threads -> Labels]
      /\ \A u \in Threads : u[1] # c => pc'[u] = pc[u]
  BY <1>1 DEF TypeOK, Labels
<1>3. /\ pc'[<<c, 0>>] = "idle" /\ \A i \in 1..MaxQueries : pc'[<<c, i>>] = "none"
      /\ \A d \in Clients \ {c} : pc'[<<d, 0>>] = pc[<<d, 0>>]
      /\ \A d \in Clients \ {c}, i \in 1..MaxQueries : pc'[<<d, i>>] = pc[<<d, i>>]
  BY <1>1, ThreadShape
<1>4. \A i \in 1..MaxQueries : pc[<<c, i>>] \in {"none", "found", "error"}
  <2>1. \A i \in 1..MaxQueries : i > many[c].n \/ i \in 1..many[c].n
    BY ManyShape
  <2>2. \A i \in 1..MaxQueries : i > many[c].n => pc[<<c, i>>] = "none"
    BY DEF TypeOK
  <2>3. \A i \in 1..MaxQueries : pc[<<c, i>>] \in TaskLabels
    BY DEF Roles
  <2> QED
    BY <1>1, <2>1, <2>2, <2>3 DEF TaskLabels
<1>5. ASSUME NEW u \in Threads, pc'[u] # pc[u]
      PROVE  /\ pc[u] \notin {"inserting", "closing", "reset", "searching"}
             /\ pc'[u] \notin {"inserting", "closing", "reset", "searching"}
  <2>1. u[1] = c
    BY <1>2, <1>5
  <2>2. CASE u = <<c, 0>>
    BY <1>1, <1>3, <2>2
  <2>3. CASE \E i \in 1..MaxQueries : u = <<c, i>>
    BY <1>3, <1>4, <2>3
  <2> QED
    BY <2>1, <2>2, <2>3, ThreadIs
<1>6. TypeOK'
  <2>1. ended' \in [Clients -> {"none", "returned", "threw"}]
    BY <1>1 DEF TypeOK
  <2>2. \A d \in Clients, i \in 1..MaxQueries : i > many'[d].n => pc'[<<d, i>>] = "none"
    BY <1>1, <1>3 DEF TypeOK
  <2> QED
    BY <1>1, <1>2, <2>1, <2>2 DEF TypeOK
<1>7. Roles'
  BY <1>3 DEF Roles, ClientLabels, TaskLabels, Labels
<1>8. MutexHeld' /\ ClosedFirst' /\ UndefinedOnlyByClose'
  BY <1>1, <1>2, <1>5, OwnCall
<1>9. Tasks(c)'
  BY <1>3 DEF Tasks, InCall
<1>10. Results(c)'
  <2>1. ended'[c] = "returned" => pc[<<c, 0>>] = "collect" /\ many[c].i > many[c].n
    BY <1>1 DEF TypeOK
  <2>2. many[c].i > many[c].n => \A i \in 1..many[c].n : i < many[c].i
    BY ManyShape
  <2>3. ended'[c] = "returned" => \A i \in 1..many[c].n : Collected(c, i)
    BY <2>1, <2>2 DEF ManyOK, Results
  <2> QED
    BY <1>1, <1>3, <2>3 DEF Results, Collected, InCall
<1>11. ManyOK'
  <2>1. \A d \in Clients \ {c} : ended'[d] = ended[d]
    BY <1>1 DEF TypeOK
  <2> QED
    BY <1>1, <1>3, <1>9, <1>10, <2>1, Others DEF ManyOK
<1> QED
  BY <1>6, <1>7, <1>8, <1>11

-----------------------------------------------------------------------------
(***************************************************************************)
(* The theorems.                                                           *)
(***************************************************************************)
LEMMA Stutter == IInv /\ UNCHANGED vars => IInv'
BY DEF IInv, vars, TypeOK, Roles, MutexHeld, NeedsMutex, ClosedFirst, UndefinedOnlyByClose,
       ManyOK, Tasks, Results, Collected

LEMMA NextStep == IInv /\ [Next]_vars => IInv'
<1> SUFFICES ASSUME IInv, [Next]_vars PROVE IInv'
  OBVIOUS
<1>1. ASSUME NEW t \in Threads, Step(t) PROVE IInv'
  <2>1. ~undefined /\ t[1] \in Clients
    BY <1>1 DEF Step, Threads
  <2> QED
    BY <1>1, <2>1, LockStep, InsertStep, CloseBackendStep, ResetStep, QueryStep, SearchStep,
       LaunchStep, LaunchFailsStep, CollectStep, FinishStep DEF Step
<1>2. ASSUME NEW c \in Clients, Call(c) \/ QueryMany(c) PROVE IInv'
  BY <1>2, CallStep, QueryManyStep
<1>3. CASE UNCHANGED vars
  BY <1>3, Stutter
<1> QED
  BY <1>1, <1>2, <1>3 DEF Next

(***************************************************************************)
(* The invariant that the other theorems follow from: who holds mtx_, when *)
(* backend_ and redis_ are null, which tasks a query_many has, and what it *)
(* has collected.                                                          *)
(***************************************************************************)
THEOREM Inductive == Spec => []IInv
BY Initially, NextStep, PTL DEF Spec

(***************************************************************************)
(* Every variable of the wrapper keeps its type.                           *)
(***************************************************************************)
THEOREM TypeCorrect == Spec => []TypeOK
BY Inductive, PTL DEF IInv

(***************************************************************************)
(* Two threads are in the backend only if one of them searches a backend   *)
(* that is thread-safe (the scoped_locks of concurrent.cpp).               *)
(***************************************************************************)
THEOREM CallsSerialised == Spec => []Serialised
<1>1. IInv => Serialised
  BY DEF IInv, MutexHeld, NeedsMutex, Serialised, InBackend
<1> QED
  BY <1>1, Inductive, PTL

(***************************************************************************)
(* Only a close makes a call undefined, and for a backend that is not      *)
(* thread-safe only a close that is over.                                  *)
(***************************************************************************)
THEOREM OnlyCloseBreaks == Spec => []UndefinedOnlyByClose
BY Inductive, PTL DEF IInv

(***************************************************************************)
(* No task of query_many outlives the call, whether it returns, throws the *)
(* exception of a search or cannot start a thread (concurrent.cpp:51).     *)
(***************************************************************************)
THEOREM NoTaskOutlivesCall == Spec => []TasksEndFirst
<1>1. IInv => TasksEndFirst
  BY DEF IInv, ManyOK, Tasks, InCall, TasksEndFirst
<1> QED
  BY <1>1, Inductive, PTL

-----------------------------------------------------------------------------
(***************************************************************************)
(* query_many against ManySpec.  The invariant says what a call has        *)
(* collected of which searches, and why it throws.                         *)
(***************************************************************************)
Gathered(c, i) == IF i < many[c].i /\ pc[<<c, i>>] = "found" THEN i ELSE 0

Gathers(c) ==
    /\ pc[<<c, 0>>] = "launch" => out[c] = NoResults
    /\ pc[<<c, 0>>] = "collect" =>
          /\ out[c] = [i \in 1..MaxQueries |-> Gathered(c, i)]
          /\ \A i \in 1..MaxQueries :
                i < many[c].i => Ready(c, i) /\ (many[c].raise => pc[<<c, i>>] = "found")
    /\ pc[<<c, 0>>] = "unwind" =>
          \E i \in 1..many[c].n :
              pc[<<c, i>>] = "none" \/ (many[c].raise /\ pc[<<c, i>>] = "error")

GInv == \A c \in Clients : Gathers(c)

LEMMA GathersStays ==
    ASSUME GInv, NEW d \in Clients,
           pc'[<<d, 0>>] = pc[<<d, 0>>],
           \A i \in 1..MaxQueries : pc'[<<d, i>>] = pc[<<d, i>>],
           many'[d] = many[d], out'[d] = out[d],
           many[d].n \in 0..MaxQueries
    PROVE  Gathers(d)'
<1>1. \A i \in 1..many[d].n : i \in 1..MaxQueries
  BY WrapperAssumption
<1>2. [i \in 1..MaxQueries |-> Gathered(d, i)]' = [i \in 1..MaxQueries |-> Gathered(d, i)]
  BY DEF Gathered
<1>3. Gathers(d)
  BY DEF GInv
<1>4. CASE pc[<<d, 0>>] = "collect"
  BY <1>2, <1>3, <1>4 DEF Gathers, Ready
<1>5. CASE pc[<<d, 0>>] = "unwind"
  BY <1>1, <1>3, <1>5 DEF Gathers
<1>6. CASE pc[<<d, 0>>] \notin {"collect", "unwind"}
  BY <1>3, <1>6 DEF Gathers
<1> QED
  BY <1>4, <1>5, <1>6

\* A thread that is in no loop of query_many goes on.
LEMMA MovesGather ==
    ASSUME IInv, GInv, NEW t \in Threads, NEW label, Moves(t, label)
    PROVE  GInv'
<1>1. /\ pc'[t] = label
      /\ \A u \in Threads \ {t} : pc'[u] = pc[u]
  BY MovesStep
<1>2. many' = many /\ out' = out /\ pc[t] \notin InCall /\ label \notin InCall
  BY DEF Moves
<1>3. \A c \in Clients : many[c].n \in 0..MaxQueries
  BY ManyShape DEF IInv
<1>4. CASE \E c \in Clients : t = <<c, 0>>
  <2>1. PICK c \in Clients : t = <<c, 0>>
    BY <1>4
  <2>2. Gathers(c)'
    BY <1>1, <1>2, <2>1 DEF Gathers, InCall
  <2>3. ASSUME NEW d \in Clients \ {c} PROVE Gathers(d)'
    <3>1. pc'[<<d, 0>>] = pc[<<d, 0>>] /\ \A i \in 1..MaxQueries : pc'[<<d, i>>] = pc[<<d, i>>]
      BY <1>1, <2>1, ThreadShape
    <3> QED
      BY <1>2, <1>3, <3>1, GathersStays
  <2> QED
    BY <2>2, <2>3 DEF GInv
<1>5. CASE \E c \in Clients, i \in 1..MaxQueries : t = <<c, i>>
  <2>1. PICK c \in Clients, i \in 1..MaxQueries : t = <<c, i>>
    BY <1>5
  <2>2. pc[t] \in {"query", "searching"}
    <3>1. t[2] = i /\ i # 0
      BY <2>1
    <3>2. pc[t] \in TaskLabels
      BY <2>1 DEF IInv, Roles
    <3> QED
      BY <3>1, <3>2 DEF Moves, TaskLabels
  <2>3. /\ \A d \in Clients : pc'[<<d, 0>>] = pc[<<d, 0>>]
        /\ \A d \in Clients, j \in 1..MaxQueries : ~(d = c /\ j = i) => pc'[<<d, j>>] = pc[<<d, j>>]
    BY <1>1, <2>1, ThreadShape
  <2>4. ASSUME NEW d \in Clients \ {c} PROVE Gathers(d)'
    BY <1>2, <1>3, <2>3, GathersStays
  <2>5. Gathers(c)'
    <3>1. many[c].n \in 0..MaxQueries /\ Gathers(c)
      BY <1>3 DEF GInv
    <3>2. CASE pc[<<c, 0>>] = "collect"
      <4>1. ~(i < many[c].i)
        BY <2>1, <2>2, <3>1, <3>2 DEF Gathers, Ready
      <4>2. \A j \in 1..MaxQueries : Gathered(c, j)' = Gathered(c, j)
        BY <1>2, <2>3, <4>1 DEF Gathered
      <4>3. [j \in 1..MaxQueries |-> Gathered(c, j)]' = [j \in 1..MaxQueries |-> Gathered(c, j)]
        BY <4>2
      <4>4. \A j \in 1..MaxQueries : j < many[c].i => pc'[<<c, j>>] = pc[<<c, j>>]
        BY <2>3, <4>1
      <4> QED
        BY <1>2, <2>3, <3>1, <3>2, <4>3, <4>4 DEF Gathers, Ready
    <3>3. CASE pc[<<c, 0>>] = "unwind"
      <4>1. PICK j \in 1..many[c].n :
                 pc[<<c, j>>] = "none" \/ (many[c].raise /\ pc[<<c, j>>] = "error")
        BY <3>1, <3>3 DEF Gathers
      <4>2. j \in 1..MaxQueries /\ j # i
        BY <2>1, <2>2, <3>1, <4>1, WrapperAssumption
      <4> QED
        BY <1>2, <2>3, <3>1, <3>3, <4>1, <4>2 DEF Gathers
    <3>4. CASE pc[<<c, 0>>] \notin {"collect", "unwind"}
      BY <1>2, <2>3, <3>1, <3>4 DEF Gathers
    <3> QED
      BY <3>2, <3>3, <3>4
  <2> QED
    BY <2>4, <2>5 DEF GInv
<1> QED
  BY <1>4, <1>5, ThreadIs

\* Every step but those of query_many itself is of that kind.
LEMMA PlainStep ==
    ASSUME IInv, NEW t \in Threads,
           \/ Lock(t) \/ Insert(t) \/ CloseBackend(t) \/ Reset(t) \/ Query(t) \/ Search(t)
           \/ t[2] = 0 /\ Call(t[1])
    PROVE  \E label : Moves(t, label)
<1> USE DEF Goto, Moves, ClientLabels, TaskLabels, Labels, InCall
<1>1. CASE Lock(t)
  <2>1. Moves(t, IF pc[t] = "insert" THEN "inserting" ELSE "closing")
    BY <1>1 DEF Lock
  <2> QED
    BY <2>1
<1>2. CASE Insert(t)
  <2>1. Moves(t, "idle")
    BY <1>2 DEF Insert
  <2> QED
    BY <2>1
<1>3. CASE CloseBackend(t)
  <2>1. Moves(t, IF backend THEN "reset" ELSE "idle")
    BY <1>3 DEF CloseBackend
  <2> QED
    BY <2>1
<1>4. CASE Reset(t)
  <2>1. Moves(t, "idle")
    BY <1>4 DEF Reset
  <2> QED
    BY <2>1
<1>5. CASE Query(t)
  <2>1. Moves(t, "searching")
    BY <1>5 DEF Query
  <2> QED
    BY <2>1
<1>6. CASE Search(t)
  <2>1. PICK label :
           /\ IF t[2] = 0 THEN label = "idle" ELSE label \in {"found", "error"}
           /\ pc' = [pc EXCEPT ![t] = label]
    BY <1>6 DEF Search
  <2>2. Moves(t, label)
    BY <1>6, <2>1 DEF Search
  <2> QED
    BY <2>2
<1>7. CASE t[2] = 0 /\ Call(t[1])
  <2>1. t = <<t[1], 0>>
    BY <1>7 DEF Threads
  <2>2. PICK f \in {"insert", "query", "close"} : pc' = [pc EXCEPT ![t] = f]
    BY <1>7, <2>1 DEF Call
  <2>3. Moves(t, f)
    BY <1>7, <2>1, <2>2 DEF Call
  <2> QED
    BY <2>3
<1> QED
  BY <1>1, <1>2, <1>3, <1>4, <1>5, <1>6, <1>7

\* Of the clients that a step of query_many is not about.
LEMMA OtherGathers ==
    ASSUME IInv, GInv, NEW c \in Clients, Gathers(c)',
           \A d \in Clients \ {c} :
               /\ pc'[<<d, 0>>] = pc[<<d, 0>>] /\ many'[d] = many[d] /\ out'[d] = out[d]
               /\ \A i \in 1..MaxQueries : pc'[<<d, i>>] = pc[<<d, i>>]
    PROVE  GInv'
<1>1. ASSUME NEW d \in Clients \ {c} PROVE Gathers(d)'
  <2>1. many[d].n \in 0..MaxQueries
    BY ManyShape DEF IInv
  <2> QED
    BY <2>1, GathersStays
<1> QED
  BY <1>1 DEF GInv

LEMMA QueryManyGathers ==
    ASSUME IInv, GInv, NEW c \in Clients, QueryMany(c)
    PROVE  GInv' /\ Many!Begin(c)
<1>1. PICK n \in 0..MaxQueries, raise \in BOOLEAN :
         many' = [many EXCEPT ![c] = [n |-> n, raise |-> raise, i |-> 1]]
  BY DEF QueryMany
<1>2. /\ pc[<<c, 0>>] = "idle"
      /\ out' = [out EXCEPT ![c] = NoResults]
      /\ ended' = [ended EXCEPT ![c] = "none"]
      /\ pc' = [pc EXCEPT ![<<c, 0>>] = "launch"]
  BY DEF QueryMany, Goto
<1>3. pc'[<<c, 0>>] = "launch" /\ \A u \in Threads \ {<<c, 0>>} : pc'[u] = pc[u]
  BY <1>2, ThreadShape DEF IInv, TypeOK
<1>4. /\ \A d \in Clients, i \in 1..MaxQueries : pc'[<<d, i>>] = pc[<<d, i>>]
      /\ \A d \in Clients \ {c} : pc'[<<d, 0>>] = pc[<<d, 0>>]
  BY <1>3, ThreadShape
<1>5. /\ many'[c] = [n |-> n, raise |-> raise, i |-> 1] /\ out'[c] = NoResults /\ ended'[c] = "none"
      /\ \A d \in Clients \ {c} : many'[d] = many[d] /\ out'[d] = out[d] /\ ended'[d] = ended[d]
  BY <1>1, <1>2 DEF IInv, TypeOK
<1>6. Gathers(c)'
  BY <1>3, <1>5 DEF Gathers
<1>7. GInv'
  BY <1>4, <1>5, <1>6, OtherGathers
<1>8. c \notin Open /\ Open' = Open \cup {c}
  BY <1>2, <1>3, <1>4 DEF Open, InCall
<1>9. Sizes' = [Sizes EXCEPT ![c] = n] /\ Raising' \in {Raising \cup {c}, Raising \ {c}}
  <2>1. many'[c].n = n /\ many'[c].raise = raise
    BY <1>5
  <2>2. Sizes' = [Sizes EXCEPT ![c] = n]
    BY <1>5, <2>1 DEF Sizes
  <2>3. Raising' = IF raise THEN Raising \cup {c} ELSE Raising \ {c}
    BY <1>5, <2>1 DEF Raising
  <2> QED
    BY <2>2, <2>3
<1>10. Returned' = [Returned EXCEPT ![c] = NoResults]
  BY <1>5 DEF Returned
<1>11. Answers' = Answers
  BY <1>4 DEF Answers, Answered
<1> QED
  BY <1>2, <1>7, <1>8, <1>9, <1>10, <1>11 DEF Many!Begin, Many!NoList, NoResults

LEMMA LaunchGathers ==
    ASSUME IInv, GInv, NEW c \in Clients, Launch(c)
    PROVE  GInv' /\ [Many!Next]_(Many!vars)
<1> DEFINE i == many[c].i
           n == many[c].n
<1>1. pc[<<c, 0>>] = "launch" /\ out' = out /\ ended' = ended
  BY DEF Launch
<1>2. n \in 0..MaxQueries /\ i \in 1..(n + 1) /\ n \in Nat /\ i \in Nat
  BY <1>1, ManyShape DEF IInv, ManyOK, Tasks, InCall
<1>3. out[c] = NoResults
  BY <1>1 DEF GInv, Gathers
<1>4. /\ \A d \in Clients : many'[d].n = many[d].n /\ many'[d].raise = many[d].raise
      /\ \A d \in Clients \ {c} : many'[d] = many[d]
  <2>1. many[c] \in [n : 0..MaxQueries, raise : BOOLEAN, i : 0..(MaxQueries + 1)]
    BY DEF IInv, TypeOK
  <2>2. \E k : many' = [many EXCEPT ![c] = [many[c] EXCEPT !.i = k]]
    BY DEF Launch
  <2>3. PICK k : many' = [many EXCEPT ![c] = [many[c] EXCEPT !.i = k]]
    BY <2>2
  <2>4. many'[c] = [many[c] EXCEPT !.i = k] /\ \A d \in Clients \ {c} : many'[d] = many[d]
    BY <2>3 DEF IInv, TypeOK
  <2>5. many'[c].n = many[c].n /\ many'[c].raise = many[c].raise
    BY <2>1, <2>4
  <2> QED
    BY <2>4, <2>5
<1>5. CASE i <= n
  <2>1. i \in 1..MaxQueries /\ <<c, i>> \in Threads
    <3>1. i \in 1..MaxQueries
      BY <1>2, <1>5, WrapperAssumption
    <3> QED
      BY <3>1, ThreadShape
  <2>2. pc' = [pc EXCEPT ![<<c, i>>] = "query"]
    BY <1>5 DEF Launch
  <2>3. pc[<<c, i>>] = "none"
    BY <1>1, <1>2, <2>1 DEF IInv, ManyOK, Tasks
  <2> HIDE DEF i, n
  <2>4. pc'[<<c, i>>] = "query" /\ \A u \in Threads \ {<<c, i>>} : pc'[u] = pc[u]
    BY <2>1, <2>2 DEF IInv, TypeOK
  <2>5. /\ \A d \in Clients : pc'[<<d, 0>>] = pc[<<d, 0>>]
        /\ \A d \in Clients, j \in 1..MaxQueries : d # c \/ j # i => pc'[<<d, j>>] = pc[<<d, j>>]
    BY <2>1, <2>4, ThreadShape
  <2>6. Gathers(c)'
    BY <1>1, <1>3, <2>5 DEF Gathers
  <2>7. GInv'
    BY <1>1, <1>4, <2>5, <2>6, OtherGathers
  <2>8. PICK k \in 1..MaxQueries : k = i
    BY <2>1
  <2>9. /\ Answered(<<c, k>>) = "none" /\ Answered(<<c, k>>)' = "searching"
        /\ \A d \in Clients, j \in 1..MaxQueries :
              d # c \/ j # k => Answered(<<d, j>>)' = Answered(<<d, j>>)
    BY <2>3, <2>4, <2>5, <2>8 DEF Answered
  <2>10. /\ Open' = Open /\ c \in Open
         /\ Answers[c][k] = "none" /\ Answers' = [Answers EXCEPT ![c][k] = "searching"]
    BY <1>1, <2>5, <2>9 DEF Open, Answers, InCall
  <2>11. Sizes' = Sizes /\ Raising' = Raising /\ Returned' = Returned /\ k <= Sizes[c]
    BY <1>1, <1>4, <1>5, <2>8 DEF Sizes, Raising, Returned, i, n
  <2>12. Many!Start(c, k)
    BY <1>1, <2>10, <2>11 DEF Many!Start
  <2> QED
    BY <2>7, <2>12 DEF Many!Next
<1>6. CASE i > n
  <2>1. pc' = [pc EXCEPT ![<<c, 0>>] = "collect"] /\ many' = [many EXCEPT ![c].i = 1]
    BY <1>2, <1>6 DEF Launch, Goto
  <2>2. pc'[<<c, 0>>] = "collect" /\ \A u \in Threads \ {<<c, 0>>} : pc'[u] = pc[u]
    BY <2>1, ThreadShape DEF IInv, TypeOK
  <2>3. /\ \A d \in Clients, j \in 1..MaxQueries : pc'[<<d, j>>] = pc[<<d, j>>]
        /\ \A d \in Clients \ {c} : pc'[<<d, 0>>] = pc[<<d, 0>>]
    BY <2>2, ThreadShape
  <2>4. many'[c].i = 1
    BY <2>1 DEF IInv, TypeOK
  <2>5. \A j \in 1..MaxQueries : ~(j < many'[c].i)
    BY <2>4, WrapperAssumption
  <2>6. Gathers(c)'
    <3>1. [j \in 1..MaxQueries |-> Gathered(c, j)]' = NoResults
      BY <2>5 DEF Gathered, NoResults
    <3> QED
      BY <1>1, <1>3, <2>2, <2>5, <3>1 DEF Gathers
  <2>7. GInv'
    BY <1>1, <1>4, <2>3, <2>6, OtherGathers
  <2>8. Open' = Open /\ Answers' = Answers
    BY <1>1, <2>2, <2>3 DEF Open, Answers, Answered, InCall
  <2>9. Sizes' = Sizes /\ Raising' = Raising /\ Returned' = Returned
    BY <1>1, <1>4 DEF Sizes, Raising, Returned
  <2> QED
    BY <1>1, <2>7, <2>8, <2>9 DEF Many!vars
<1> QED
  BY <1>2, <1>5, <1>6

LEMMA LaunchFailsGathers ==
    ASSUME IInv, GInv, NEW c \in Clients, LaunchFails(c)
    PROVE  GInv' /\ UNCHANGED Many!vars
<1>1. /\ pc[<<c, 0>>] = "launch" /\ pc' = [pc EXCEPT ![<<c, 0>>] = "unwind"]
      /\ many[c].i <= many[c].n /\ many' = many /\ out' = out /\ ended' = ended
  BY DEF LaunchFails, Goto
<1>2. many[c].i \in 1..many[c].n /\ many[c].i \in 1..MaxQueries
  <2>1. /\ many[c].n \in 0..MaxQueries /\ many[c].n \in Nat
        /\ many[c].i \in 1..(many[c].n + 1) /\ many[c].i \in Nat
    BY <1>1, ManyShape DEF IInv, ManyOK, Tasks, InCall
  <2> QED
    BY <1>1, <2>1, WrapperAssumption
<1>3. pc[<<c, many[c].i>>] = "none"
  BY <1>1, <1>2 DEF IInv, ManyOK, Tasks
<1>4. pc'[<<c, 0>>] = "unwind" /\ \A u \in Threads \ {<<c, 0>>} : pc'[u] = pc[u]
  BY <1>1, ThreadShape DEF IInv, TypeOK
<1>5. /\ \A d \in Clients, j \in 1..MaxQueries : pc'[<<d, j>>] = pc[<<d, j>>]
      /\ \A d \in Clients \ {c} : pc'[<<d, 0>>] = pc[<<d, 0>>]
  BY <1>4, ThreadShape
<1>6. Gathers(c)'
  BY <1>1, <1>2, <1>3, <1>4, <1>5 DEF Gathers
<1>7. GInv'
  BY <1>1, <1>5, <1>6, OtherGathers
<1>8. Open' = Open /\ Answers' = Answers
  BY <1>1, <1>4, <1>5 DEF Open, Answers, Answered, InCall
<1>9. Sizes' = Sizes /\ Raising' = Raising /\ Returned' = Returned
  BY <1>1 DEF Sizes, Raising, Returned
<1> QED
  BY <1>1, <1>7, <1>8, <1>9 DEF Many!vars

LEMMA CollectGathers ==
    ASSUME IInv, GInv, NEW c \in Clients, Collect(c)
    PROVE  GInv' /\ UNCHANGED Many!vars
<1> DEFINE i == many[c].i
           n == many[c].n
           found == pc[<<c, i>>] = "found"
           throws == pc[<<c, i>>] = "error" /\ many[c].raise
<1>1. /\ pc[<<c, 0>>] = "collect" /\ i <= n /\ Ready(c, i)
      /\ out' = [out EXCEPT ![c][i] = IF found THEN i ELSE 0]
      /\ IF throws THEN pc' = [pc EXCEPT ![<<c, 0>>] = "unwind"] /\ many' = many
                   ELSE pc' = pc /\ many' = [many EXCEPT ![c].i = i + 1]
      /\ ended' = ended
  BY DEF Collect, Goto
<1>2. n \in 0..MaxQueries /\ i \in 1..n /\ n \in Nat /\ i \in Nat /\ i \in 1..MaxQueries
  <2>1. n \in 0..MaxQueries /\ n \in Nat /\ i \in 1..(n + 1) /\ i \in Nat
    BY <1>1, ManyShape DEF IInv, ManyOK, Tasks, InCall
  <2> QED
    BY <1>1, <2>1, WrapperAssumption
<1>3. /\ pc'[<<c, 0>>] = IF throws THEN "unwind" ELSE "collect"
      /\ \A u \in Threads \ {<<c, 0>>} : pc'[u] = pc[u]
  BY <1>1, ThreadShape DEF IInv, TypeOK
<1>4. /\ \A d \in Clients, j \in 1..MaxQueries : pc'[<<d, j>>] = pc[<<d, j>>]
      /\ \A d \in Clients \ {c} : pc'[<<d, 0>>] = pc[<<d, 0>>]
  BY <1>3, ThreadShape
<1>5. /\ \A d \in Clients : many'[d].n = many[d].n /\ many'[d].raise = many[d].raise
      /\ \A d \in Clients \ {c} : many'[d] = many[d]
      /\ ~throws => many'[c].i = i + 1
  <2>1. many[c] \in [n : 0..MaxQueries, raise : BOOLEAN, i : 0..(MaxQueries + 1)]
    BY DEF IInv, TypeOK
  <2>2. CASE throws
    BY <1>1, <2>2
  <2>3. CASE ~throws
    <3>1. many' = [many EXCEPT ![c] = [many[c] EXCEPT !.i = i + 1]]
      BY <1>1, <2>3
    <3>2. many'[c] = [many[c] EXCEPT !.i = i + 1] /\ \A d \in Clients \ {c} : many'[d] = many[d]
      BY <3>1 DEF IInv, TypeOK
    <3>3. many'[c].n = n /\ many'[c].raise = many[c].raise /\ many'[c].i = i + 1
      BY <2>1, <3>2
    <3> QED
      BY <3>2, <3>3
  <2> QED
    BY <2>2, <2>3
<1>6. /\ out'[c] = [out[c] EXCEPT ![i] = IF found THEN i ELSE 0]
      /\ \A d \in Clients \ {c} : out'[d] = out[d]
  BY <1>1 DEF IInv, TypeOK
<1>7. found \/ throws \/ ~many[c].raise
  BY <1>1 DEF Ready
<1>8. /\ out[c] = [j \in 1..MaxQueries |-> Gathered(c, j)]
      /\ \A j \in 1..MaxQueries :
            j < i => Ready(c, j) /\ (many[c].raise => pc[<<c, j>>] = "found")
  BY <1>1 DEF GInv, Gathers
<1>9. Gathers(c)'
  <2>1. CASE throws
    <3>1. many'[c].raise /\ many'[c].n = n /\ pc'[<<c, i>>] = "error"
      BY <1>2, <1>4, <1>5, <2>1
    <3> QED
      BY <1>2, <1>3, <2>1, <3>1 DEF Gathers
  <2>2. CASE ~throws
    <3>1. \A j \in 1..MaxQueries : j < i + 1 <=> j < i \/ j = i
      BY <1>2
    <3>2. \A j \in 1..MaxQueries : out'[c][j] = IF j < i + 1 /\ pc[<<c, j>>] = "found" THEN j ELSE 0
      <4> SUFFICES ASSUME NEW j \in 1..MaxQueries
                   PROVE  out'[c][j] = IF j < i + 1 /\ pc[<<c, j>>] = "found" THEN j ELSE 0
        OBVIOUS
      <4>1. CASE j = i
        BY <1>2, <1>6, <1>8, <3>1, <4>1
      <4>2. CASE j # i
        BY <1>2, <1>6, <1>8, <3>1, <4>2 DEF Gathered
      <4> QED
        BY <4>1, <4>2
    <3>3. out'[c] = [j \in 1..MaxQueries |-> out'[c][j]]
      BY <1>2, <1>6, <1>8
    <3>4. \A j \in 1..MaxQueries : Gathered(c, j)' = IF j < i + 1 /\ pc[<<c, j>>] = "found" THEN j ELSE 0
      BY <1>4, <1>5, <2>2 DEF Gathered
    <3>5. out'[c] = [j \in 1..MaxQueries |-> Gathered(c, j)]'
      BY <3>2, <3>3, <3>4
    <3>6. \A j \in 1..MaxQueries :
             j < many'[c].i => Ready(c, j)' /\ (many'[c].raise => pc'[<<c, j>>] = "found")
      <4>1. Ready(c, i) /\ (many[c].raise => found)
        BY <1>1, <1>7, <2>2
      <4> QED
        BY <1>4, <1>5, <1>8, <2>2, <3>1, <4>1 DEF Ready
    <3> QED
      BY <1>3, <2>2, <3>5, <3>6 DEF Gathers
  <2> QED
    BY <2>1, <2>2
<1>10. GInv'
  BY <1>4, <1>5, <1>6, <1>9, OtherGathers
<1>11. Open' = Open /\ Answers' = Answers
  BY <1>1, <1>3, <1>4 DEF Open, Answers, Answered, InCall
<1>12. Sizes' = Sizes /\ Raising' = Raising
  BY <1>5 DEF Sizes, Raising
<1>13. Returned' = Returned
  <2>1. ended[c] # "returned"
    BY <1>1 DEF IInv, ManyOK, Results, InCall
  <2> QED
    BY <1>1, <1>6, <2>1 DEF Returned
<1> QED
  BY <1>1, <1>10, <1>11, <1>12, <1>13 DEF Many!vars

LEMMA FinishGathers ==
    ASSUME IInv, GInv, NEW c \in Clients, Finish(c)
    PROVE  GInv' /\ Many!End(c)
<1> DEFINE n == many[c].n
           throws == pc[<<c, 0>>] = "unwind"
<1>1. /\ \/ pc[<<c, 0>>] = "collect" /\ many[c].i > n
         \/ throws
      /\ \A i \in 1..n : pc[<<c, i>>] \notin {"query", "searching"}
      /\ ended' = [ended EXCEPT ![c] = IF throws THEN "threw" ELSE "returned"]
      /\ pc' = [t \in Threads |->
                  IF t[1] # c THEN pc[t] ELSE IF t[2] = 0 THEN "idle" ELSE "none"]
      /\ many' = many /\ out' = out
  BY DEF Finish
<1>2. /\ pc'[<<c, 0>>] = "idle" /\ \A i \in 1..MaxQueries : pc'[<<c, i>>] = "none"
      /\ \A d \in Clients \ {c} : pc'[<<d, 0>>] = pc[<<d, 0>>]
      /\ \A d \in Clients \ {c}, i \in 1..MaxQueries : pc'[<<d, i>>] = pc[<<d, i>>]
  BY <1>1, ThreadShape
<1>3. n \in 0..MaxQueries /\ n \in Nat /\ many[c].i \in Nat
  BY ManyShape DEF IInv
<1>4. Gathers(c)'
  BY <1>2 DEF Gathers
<1>5. GInv'
  BY <1>1, <1>2, <1>4, OtherGathers
<1>6. c \in Open /\ Open' = Open \ {c}
  BY <1>1, <1>2 DEF Open, InCall
<1>7. \A i \in 1..n : i \in 1..MaxQueries
  BY <1>3, WrapperAssumption
<1>8. \A i \in 1..n : Answers[c][i] # "searching"
  BY <1>1, <1>7 DEF Answers, Answered
<1>9. Answers' = [Answers EXCEPT ![c] = [i \in 1..MaxQueries |-> "none"]]
  <2>1. \A d \in Clients \ {c}, i \in 1..MaxQueries : Answered(<<d, i>>)' = Answered(<<d, i>>)
    BY <1>2 DEF Answered
  <2>2. \A i \in 1..MaxQueries : Answered(<<c, i>>)' = "none"
    BY <1>2 DEF Answered
  <2> QED
    BY <2>1, <2>2 DEF Answers
<1>10. Sizes' = Sizes /\ Raising' = Raising /\ Sizes[c] = n
  BY <1>1 DEF Sizes, Raising
<1>11. ended'[c] = (IF throws THEN "threw" ELSE "returned") /\ \A d \in Clients \ {c} : ended'[d] = ended[d]
  BY <1>1 DEF IInv, TypeOK
<1>12. \A i \in 1..MaxQueries :
          /\ Answers[c][i] = "failed" <=> pc[<<c, i>>] = "error"
          /\ Answers[c][i] = "none" <=> pc[<<c, i>>] = "none"
  BY DEF IInv, Roles, TaskLabels, Answers, Answered
<1>13. CASE throws
  <2>1. \E i \in 1..n : pc[<<c, i>>] = "none" \/ (many[c].raise /\ pc[<<c, i>>] = "error")
    BY <1>13 DEF GInv, Gathers
  <2>2. \E i \in 1..n : Answers[c][i] = "none" \/ (c \in Raising /\ Answers[c][i] = "failed")
    BY <1>7, <1>12, <2>1 DEF Raising
  <2>3. Returned' = Returned
    <3>1. ended[c] # "returned"
      BY <1>13 DEF IInv, ManyOK, Results, InCall
    <3> QED
      BY <1>1, <1>11, <1>13, <3>1 DEF Returned
  <2> QED
    BY <1>1, <1>5, <1>6, <1>8, <1>9, <1>10, <1>13, <2>2, <2>3 DEF Many!End, Many!Failed, Many!NoAnswers
<1>14. CASE ~throws
  <2>1. pc[<<c, 0>>] = "collect" /\ many[c].i > n
    BY <1>1, <1>14
  <2>2. \A i \in 1..n : i < many[c].i
    BY <1>3, <2>1
  <2>3. \A i \in 1..n : Ready(c, i) /\ (many[c].raise => pc[<<c, i>>] = "found")
    BY <1>7, <2>1, <2>2 DEF GInv, Gathers
  <2>4. ~\E i \in 1..n : Answers[c][i] = "none" \/ (c \in Raising /\ Answers[c][i] = "failed")
    BY <1>7, <1>12, <2>3 DEF Raising, Ready
  <2>5. out[c] = [i \in 1..MaxQueries |-> IF Answers[c][i] = "found" THEN i ELSE 0]
    <3>1. out[c] = [i \in 1..MaxQueries |-> Gathered(c, i)]
      BY <2>1 DEF GInv, Gathers
    <3>2. \A i \in 1..MaxQueries : Answers[c][i] = "found" <=> pc[<<c, i>>] = "found"
      BY DEF Answers, Answered
    <3>3. \A i \in 1..MaxQueries : pc[<<c, i>>] = "found" => i < many[c].i
      <4>1. \A i \in 1..MaxQueries : pc[<<c, i>>] = "found" => ~(i > n)
        BY DEF IInv, TypeOK
      <4> QED
        BY <1>3, <2>2, <4>1
    <3> QED
      BY <3>1, <3>2, <3>3 DEF Gathered
  <2>6. Returned' = [Returned EXCEPT ![c] = [i \in 1..MaxQueries |-> IF Answers[c][i] = "found" THEN i ELSE 0]]
    BY <1>1, <1>11, <1>14, <2>5 DEF Returned
  <2> QED
    BY <1>1, <1>5, <1>6, <1>8, <1>9, <1>10, <1>14, <2>4, <2>6 DEF Many!End, Many!Failed, Many!NoAnswers
<1> QED
  BY <1>13, <1>14

\* Beside query_many only the end of one of its searches is seen.
LEMMA MovesRefine ==
    ASSUME IInv, NEW t \in Threads, NEW label, Moves(t, label)
    PROVE  Many!Next \/ UNCHANGED Many!vars
<1>1. pc'[t] = label /\ \A u \in Threads \ {t} : pc'[u] = pc[u]
  BY MovesStep
<1>2. many' = many /\ out' = out /\ ended' = ended /\ pc[t] \notin InCall /\ label \notin InCall
  BY DEF Moves
<1>3. Sizes' = Sizes /\ Raising' = Raising /\ Returned' = Returned
  BY <1>2 DEF Sizes, Raising, Returned
<1>4. CASE \E c \in Clients : t = <<c, 0>>
  <2>1. PICK c \in Clients : t = <<c, 0>>
    BY <1>4
  <2>2. /\ \A d \in Clients, i \in 1..MaxQueries : pc'[<<d, i>>] = pc[<<d, i>>]
        /\ \A d \in Clients \ {c} : pc'[<<d, 0>>] = pc[<<d, 0>>]
    BY <1>1, <2>1, ThreadShape
  <2>3. Open' = Open /\ Answers' = Answers
    BY <1>1, <1>2, <2>1, <2>2 DEF Open, Answers, Answered
  <2> QED
    BY <1>2, <1>3, <2>3 DEF Many!vars
<1>5. CASE \E c \in Clients, i \in 1..MaxQueries : t = <<c, i>>
  <2>1. PICK c \in Clients, i \in 1..MaxQueries : t = <<c, i>>
    BY <1>5
  <2>2. pc[t] \in {"query", "searching"} /\ label \in {"searching", "found", "error"}
    <3>1. t[2] = i /\ i # 0
      BY <2>1
    <3>2. pc[t] \in TaskLabels
      BY <2>1 DEF IInv, Roles
    <3> QED
      BY <3>1, <3>2 DEF Moves, ClientLabels, TaskLabels
  <2>3. /\ \A d \in Clients : pc'[<<d, 0>>] = pc[<<d, 0>>]
        /\ \A d \in Clients, j \in 1..MaxQueries : d # c \/ j # i => pc'[<<d, j>>] = pc[<<d, j>>]
    BY <1>1, <2>1, ThreadShape
  <2>4. Open' = Open
    BY <2>3 DEF Open
  <2>5. Answered(<<c, i>>) = "searching"
    BY <2>1, <2>2 DEF Answered
  <2>6. \A d \in Clients, j \in 1..MaxQueries : d # c \/ j # i => Answered(<<d, j>>)' = Answered(<<d, j>>)
    BY <2>3 DEF Answered
  <2>7. CASE label = "searching"
    <3>1. Answered(<<c, i>>)' = "searching"
      BY <1>1, <2>1, <2>7 DEF Answered
    <3>2. \A d \in Clients, j \in 1..MaxQueries : Answered(<<d, j>>)' = Answered(<<d, j>>)
      BY <2>5, <2>6, <3>1
    <3>3. Answers' = Answers
      BY <3>2 DEF Answers
    <3> QED
      BY <1>2, <1>3, <2>4, <3>3 DEF Many!vars
  <2>8. CASE label \in {"found", "error"}
    <3>1. PICK a \in {"found", "failed"} : Answered(<<c, i>>)' = a
      BY <1>1, <2>1, <2>8 DEF Answered
    <3>2. Answers' = [Answers EXCEPT ![c][i] = a]
      BY <2>6, <3>1 DEF Answers
    <3>3. c \in Open
      <4>1. pc[<<c, i>>] # "none"
        BY <2>1, <2>2
      <4> QED
        BY <4>1 DEF IInv, ManyOK, Tasks, Open
    <3>4. i <= Sizes[c]
      <4>1. pc[<<c, i>>] # "none"
        BY <2>1, <2>2
      <4>2. ~(i > many[c].n) /\ many[c].n \in Nat
        BY <4>1, ManyShape DEF IInv, TypeOK
      <4> QED
        BY <4>2 DEF Sizes
    <3>5. Answers[c][i] = "searching"
      BY <2>5 DEF Answers
    <3>6. Many!Answer(c, i)
      BY <1>2, <1>3, <2>4, <3>2, <3>3, <3>4, <3>5 DEF Many!Answer
    <3> QED
      BY <3>6 DEF Many!Next
  <2> QED
    BY <2>2, <2>7, <2>8
<1> QED
  BY <1>4, <1>5, ThreadIs

LEMMA InitRefines == Init => GInv /\ Many!Init
<1> SUFFICES ASSUME Init PROVE GInv /\ Many!Init
  OBVIOUS
<1>1. \A c \in Clients : pc[<<c, 0>>] = "idle" /\ \A i \in 1..MaxQueries : pc[<<c, i>>] = "none"
  BY ThreadShape DEF Init
<1>2. GInv
  BY <1>1 DEF GInv, Gathers
<1>3. Open = {} /\ Answers = [c \in Clients |-> [i \in 1..MaxQueries |-> "none"]]
  BY <1>1 DEF Open, Answers, Answered, InCall
<1>4. Sizes = [c \in Clients |-> 0] /\ Raising = {} /\ Returned = [c \in Clients |-> NoResults]
  BY DEF Init, Sizes, Raising, Returned, NoCall
<1> QED
  BY <1>2, <1>3, <1>4 DEF Init, Many!Init, Many!NoAnswers, Many!NoList, NoResults

LEMMA StepRefines ==
    ASSUME IInv, GInv, [Next]_vars
    PROVE  GInv' /\ [Many!Next]_(Many!vars)
<1>1. ASSUME NEW t \in Threads, Step(t) PROVE GInv' /\ [Many!Next]_(Many!vars)
  <2>1. CASE Lock(t) \/ Insert(t) \/ CloseBackend(t) \/ Reset(t) \/ Query(t) \/ Search(t)
    <3>1. PICK label : Moves(t, label)
      BY <2>1, PlainStep
    <3> QED
      BY <3>1, MovesGather, MovesRefine
  <2>2. CASE t[2] = 0 /\ (Launch(t[1]) \/ LaunchFails(t[1]) \/ Collect(t[1]) \/ Finish(t[1]))
    <3>1. t[1] \in Clients
      BY DEF Threads
    <3> QED
      BY <2>2, <3>1, LaunchGathers, LaunchFailsGathers, CollectGathers, FinishGathers DEF Many!Next
  <2> QED
    BY <1>1, <2>1, <2>2 DEF Step
<1>2. ASSUME NEW c \in Clients, Call(c) PROVE GInv' /\ [Many!Next]_(Many!vars)
  <2>1. <<c, 0>> \in Threads /\ <<c, 0>>[1] = c /\ <<c, 0>>[2] = 0
    BY ThreadShape
  <2>2. PICK label : Moves(<<c, 0>>, label)
    BY <1>2, <2>1, PlainStep
  <2> QED
    BY <2>1, <2>2, MovesGather, MovesRefine
<1>3. ASSUME NEW c \in Clients, QueryMany(c) PROVE GInv' /\ [Many!Next]_(Many!vars)
  BY <1>3, QueryManyGathers DEF Many!Next
<1>4. CASE UNCHANGED vars
  <2>1. GInv'
    BY <1>4 DEF vars, GInv, Gathers, Gathered, Ready
  <2>2. UNCHANGED Many!vars
    BY <1>4 DEF vars, Many!vars, Open, Sizes, Raising, Answers, Answered, Returned
  <2> QED
    BY <2>1, <2>2
<1> QED
  BY <1>1, <1>2, <1>3, <1>4 DEF Next

(***************************************************************************)
(* query_many keeps the promise of ManySpec for any number of clients, of  *)
(* embeddings and of calls beside it: at most one search for each, its     *)
(* result or an empty one in its place, an exception if and only if one    *)
(* could not be started or has failed and the caller asked for it, and no  *)
(* return or exception before every search that was started has ended      *)
(* (concurrent.cpp:43 to :68).                                             *)
(***************************************************************************)
THEOREM QueryManyImplemented == Spec => ImplementsManySpec
<1>1. IInv /\ GInv /\ [Next]_vars => GInv' /\ [Many!Next]_(Many!vars)
  BY StepRefines
<1> QED
  BY <1>1, InitRefines, Inductive, PTL DEF Spec, ImplementsManySpec, Many!Spec

\* After a call that returned, also while its client makes others.
OrderPreserved ==
    \A c \in Clients : ended[c] = "returned" => \A i \in 1..many[c].n : Collected(c, i)

(***************************************************************************)
(* query_many returns its results in the order of its queries, and with    *)
(* raiseOnErr only if there are all of them.                               *)
(***************************************************************************)
THEOREM ResultsInOrder == Spec => []OrderPreserved
<1>1. IInv => OrderPreserved
  BY DEF IInv, ManyOK, Results, OrderPreserved
<1> QED
  BY <1>1, Inductive, PTL
=============================================================================
