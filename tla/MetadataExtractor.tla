-------------------------- MODULE MetadataExtractor ---------------------------
(***************************************************************************)
(* One call of MetadataExtractor::ProcessDocuments: the caller's thread    *)
(* starts maxWorkers threads, deals the documents out to their queues in   *)
(* turn, spins until every queue has been seen empty, and returns.  An     *)
(* empty queue is not a processed one: the last document of each worker    *)
(* may still be in its hand, and only the destructor of threadPool, which  *)
(* waits for the futures, keeps the call from ending before it.  It comes  *)
(* last: returnDocuments, mutex, threadYield and killThread are declared   *)
(* after threadPool and destroyed while workers may be using them.         *)
(*                                                                         *)
(* A document is its index in `docs`, from 1.                              *)
(***************************************************************************)
EXTENDS Integers, Sequences, FiniteSets

CONSTANTS
    MaxWorkers,  \* bound: maxWorkers
    MaxDocs,     \* bound: docs.size()
    Extractors,  \* the derived classes to consider, among AllExtractors
    Builds       \* the values of `elided` to consider

\* Regex matches without throwing; HF runs a model, which may throw; Python
\* overrides ProcessDocument through PyMetadataExtractor and may throw.
AllExtractors == {"Regex", "HF", "Python"}

ASSUME PoolAssumption ==
    /\ MaxWorkers \in Nat \ {0}
    /\ MaxDocs \in Nat \ {0}
    /\ Extractors \subseteq AllExtractors
    /\ Builds \subseteq BOOLEAN

VARIABLES
    extractor,        \* the class of this object
    elided,           \* the compiler builds returnDocuments in the caller's storage
    maxWorkers, docs, \* the parameters: a number of threads and of documents
    pc,               \* the caller's thread: the statement it is about to execute
    k,                \* its loop index: a worker or a document
    wpc,              \* each worker: the statement it is about to execute
    hand,             \* the document it has popped
    queue,            \* threadPool[w].second
    mutex,            \* the worker that holds it, or 0
    killThread,
    threadYield,
    returnDocuments,  \* what has been pushed back to it, since the call began
    moved             \* what `return` moved out of it, where it is not elided

parameters == <<extractor, elided, maxWorkers, docs>>
vars == <<extractor, elided, maxWorkers, docs, pc, k, wpc, hand, queue, mutex,
          killThread, threadYield, returnDocuments, moved>>

Workers == 1..MaxWorkers
Pool == 1..maxWorkers
Docs == 1..docs

\* threadPool[index % threadPool.size()]
Target(d) == ((d - 1) % maxWorkers) + 1

Init ==
    /\ extractor \in Extractors
    /\ elided \in Builds
    /\ maxWorkers \in 0..MaxWorkers
    /\ docs \in 0..MaxDocs
    /\ pc = "spawn"
    /\ k = 1
    /\ wpc = [w \in Workers |-> "none"]
    /\ hand = [w \in Workers |-> 0]
    /\ queue = [w \in Workers |-> <<>>]
    /\ mutex = 0
    /\ killThread = FALSE
    /\ threadYield = FALSE
    /\ returnDocuments = <<>>
    /\ moved = <<>>

-----------------------------------------------------------------------------
(***************************************************************************)
(* The caller's thread.                                                    *)
(***************************************************************************)
Spawn ==
    /\ pc = "spawn"
    /\ k \in Pool
    /\ wpc' = [wpc EXCEPT ![k] = "loop"]
    /\ k' = k + 1
    /\ UNCHANGED <<parameters, pc, hand, queue, mutex, killThread, threadYield, returnDocuments, moved>>

\* std::async throws when no thread can be started: the locals go, threadPool
\* last, whose destructor waits for the workers it has.
SpawnFails ==
    /\ pc = "spawn"
    /\ k \in Pool
    /\ pc' = "unwind"
    /\ UNCHANGED <<parameters, k, wpc, hand, queue, mutex, killThread, threadYield, returnDocuments, moved>>

Unwound ==
    /\ pc = "unwind"
    /\ \A w \in 1..(k - 1) : wpc[w] \in {"done", "failed"}
    /\ pc' = "threw"
    /\ UNCHANGED <<parameters, k, wpc, hand, queue, mutex, killThread, threadYield, returnDocuments, moved>>

Spawned ==
    /\ pc = "spawn"
    /\ k \notin Pool
    /\ pc' = "push"
    /\ k' = 1
    /\ UNCHANGED <<parameters, wpc, hand, queue, mutex, killThread, threadYield, returnDocuments, moved>>

Push ==
    /\ pc = "push"
    /\ k \in Docs
    /\ maxWorkers > 0
    /\ queue' = [queue EXCEPT ![Target(k)] = Append(@, k)]
    /\ k' = k + 1
    /\ UNCHANGED <<parameters, pc, wpc, hand, mutex, killThread, threadYield, returnDocuments, moved>>

\* index % 0: the process is killed by a trap.
PushWithoutWorkers ==
    /\ pc = "push"
    /\ k \in Docs
    /\ maxWorkers = 0
    /\ pc' = "trapped"
    /\ UNCHANGED <<parameters, k, wpc, hand, queue, mutex, killThread, threadYield, returnDocuments, moved>>

\* Mutant of Pushed: the index is not reset for the second loop.
PushedNoReset ==
    /\ pc = "push"
    /\ k \notin Docs
    /\ pc' = "spin"
    /\ UNCHANGED <<parameters, k, wpc, hand, queue, mutex, killThread, threadYield, returnDocuments, moved>>

Pushed ==
    /\ pc = "push"
    /\ k \notin Docs
    /\ pc' = "spin"
    /\ k' = 1
    /\ UNCHANGED <<parameters, wpc, hand, queue, mutex, killThread, threadYield, returnDocuments, moved>>

\* Mutant of Spin: off by one.
SpinOffByOne ==
    /\ pc = "spin"
    /\ k \in Pool
    /\ Len(queue[k]) <= 1
    /\ k' = k + 1
    /\ UNCHANGED <<parameters, pc, wpc, hand, queue, mutex, killThread, threadYield, returnDocuments, moved>>

\* while(thread.second.size() != 0);
Spin ==
    /\ pc = "spin"
    /\ k \in Pool
    /\ queue[k] = <<>>
    /\ k' = k + 1
    /\ UNCHANGED <<parameters, pc, wpc, hand, queue, mutex, killThread, threadYield, returnDocuments, moved>>

Kill ==
    /\ pc = "spin"
    /\ k \notin Pool
    /\ killThread' = TRUE
    /\ pc' = "release"
    /\ UNCHANGED <<parameters, k, wpc, hand, queue, mutex, threadYield, returnDocuments, moved>>

Release ==
    /\ pc = "release"
    /\ threadYield' = TRUE
    /\ pc' = "return"
    /\ UNCHANGED <<parameters, k, wpc, hand, queue, mutex, killThread, returnDocuments, moved>>

\* PYBIND11_OVERRIDE_PURE acquires the interpreter lock.  The binding of
\* ProcessDocuments does not release it, so that the caller holds it until the
\* call has returned.
InterpreterFree == extractor # "Python" \/ pc = "returned"

\* Moving the result and destroying it take no lock.  With a push_back at the
\* same time the behaviour is undefined, and nothing is said of what follows.
Race ==
    /\ pc \in {"return", "locals"}
    /\ ~elided
    /\ InterpreterFree
    /\ \E w \in Pool : wpc[w] = "process"
    /\ pc' = "undefined"
    /\ UNCHANGED <<parameters, k, wpc, hand, queue, mutex, killThread, threadYield, returnDocuments, moved>>

Return ==
    /\ pc = "return"
    /\ moved' = returnDocuments
    /\ pc' = "locals"
    /\ UNCHANGED <<parameters, k, wpc, hand, queue, mutex, killThread, threadYield, returnDocuments>>

\* The destructors of mutex, threadYield and killThread do nothing with the
\* standard libraries of either build, and a worker goes on with them; it pushes
\* into the vector that was moved from and destroyed as into an empty one.
DestroyLocals ==
    /\ pc = "locals"
    /\ pc' = "destroy"
    /\ k' = 1
    /\ UNCHANGED <<parameters, wpc, hand, queue, mutex, killThread, threadYield, returnDocuments, moved>>

\* ~threadPool, one pair after the other: first its queue ...
DestroyQueue ==
    /\ pc = "destroy"
    /\ k \in Pool
    /\ pc' = "wait"
    /\ UNCHANGED <<parameters, k, wpc, hand, queue, mutex, killThread, threadYield, returnDocuments, moved>>

\* Mutant of WaitFuture: a future that does not wait.
DropFuture ==
    /\ pc = "wait"
    /\ pc' = "destroy"
    /\ k' = k + 1
    /\ UNCHANGED <<parameters, wpc, hand, queue, mutex, killThread, threadYield, returnDocuments, moved>>

\* ... then its future, which waits for the worker.
WaitFuture ==
    /\ pc = "wait"
    /\ wpc[k] \in {"done", "failed"}
    /\ pc' = "destroy"
    /\ k' = k + 1
    /\ UNCHANGED <<parameters, wpc, hand, queue, mutex, killThread, threadYield, returnDocuments, moved>>

Finish ==
    /\ pc = "destroy"
    /\ k \notin Pool
    /\ pc' = "returned"
    /\ UNCHANGED <<parameters, k, wpc, hand, queue, mutex, killThread, threadYield, returnDocuments, moved>>

-----------------------------------------------------------------------------
(***************************************************************************)
(* Worker w.                                                               *)
(***************************************************************************)
Goto(w, label) == wpc' = [wpc EXCEPT ![w] = label]

CheckKill(w) ==
    /\ wpc[w] = "loop"
    /\ Goto(w, IF killThread THEN "done" ELSE "pop")
    /\ UNCHANGED <<parameters, pc, k, hand, queue, mutex, killThread, threadYield, returnDocuments, moved>>

\* Mutant of Pop: front() without pop().
Peek(w) ==
    /\ wpc[w] = "pop"
    /\ IF queue[w] = <<>>
         THEN Goto(w, "yield") /\ UNCHANGED hand
         ELSE Goto(w, "lock") /\ hand' = [hand EXCEPT ![w] = Head(queue[w])]
    /\ UNCHANGED <<parameters, pc, k, queue, mutex, killThread, threadYield, returnDocuments, moved>>

\* The pop of a queue that ~threadPool has destroyed still finds it empty: its
\* storage lives until threadPool's does.
Pop(w) ==
    /\ wpc[w] = "pop"
    /\ IF queue[w] = <<>>
         THEN Goto(w, "yield") /\ UNCHANGED <<hand, queue>>
         ELSE /\ Goto(w, "lock")
              /\ hand' = [hand EXCEPT ![w] = Head(queue[w])]
              /\ queue' = [queue EXCEPT ![w] = Tail(@)]
    /\ UNCHANGED <<parameters, pc, k, mutex, killThread, threadYield, returnDocuments, moved>>

\* Mutant of Lock: no scoped_lock.
LockNothing(w) ==
    /\ wpc[w] = "lock"
    /\ mutex' = w
    /\ Goto(w, "process")
    /\ UNCHANGED <<parameters, pc, k, hand, queue, killThread, threadYield, returnDocuments, moved>>

Lock(w) ==
    /\ wpc[w] = "lock"
    /\ mutex = 0
    /\ mutex' = w
    /\ Goto(w, "process")
    /\ UNCHANGED <<parameters, pc, k, hand, queue, killThread, threadYield, returnDocuments, moved>>

ProcessDocument(w) ==
    /\ wpc[w] = "process"
    /\ InterpreterFree
    /\ returnDocuments' = Append(returnDocuments, hand[w])
    /\ hand' = [hand EXCEPT ![w] = 0]
    /\ mutex' = 0
    /\ Goto(w, "yield")
    /\ UNCHANGED <<parameters, pc, k, queue, killThread, threadYield, moved>>

\* The exception unlocks the mutex, ends the worker and stays in its future,
\* which nobody calls get() on.
ProcessThrows(w) ==
    /\ wpc[w] = "process"
    /\ InterpreterFree
    /\ extractor # "Regex"
    /\ mutex' = 0
    /\ Goto(w, "failed")
    /\ UNCHANGED <<parameters, pc, k, hand, queue, killThread, threadYield, returnDocuments, moved>>

\* Mutant of Yield: acquire() in place of try_acquire_for().
Acquire(w) ==
    /\ wpc[w] = "yield"
    /\ threadYield
    /\ threadYield' = FALSE
    /\ Goto(w, "loop")
    /\ UNCHANGED <<parameters, pc, k, hand, queue, mutex, killThread, returnDocuments, moved>>

\* threadYield.try_acquire_for(10ms): takes the token, or times out.
Yield(w) ==
    /\ wpc[w] = "yield"
    /\ threadYield' \in {threadYield, FALSE}
    /\ Goto(w, "loop")
    /\ UNCHANGED <<parameters, pc, k, hand, queue, mutex, killThread, returnDocuments, moved>>

-----------------------------------------------------------------------------
Caller ==
    \/ Spawn \/ SpawnFails \/ Unwound \/ Spawned \/ Push \/ PushWithoutWorkers
    \/ Pushed \/ Spin \/ Kill \/ Release \/ Return \/ DestroyLocals \/ Race
    \/ DestroyQueue \/ WaitFuture \/ Finish

Worker(w) ==
    /\ pc # "undefined"
    /\ \/ CheckKill(w) \/ Pop(w) \/ Lock(w) \/ ProcessDocument(w) \/ ProcessThrows(w)
       \/ Yield(w)

Next == Caller \/ \E w \in Workers : Worker(w)

Spec == Init /\ [][Next]_vars

\* Every thread that can run does: the spin loop and the timed wait block no
\* thread for good, and a mutex asked for by finitely many documents is granted.
FairSpec ==
    /\ Spec
    /\ WF_vars(Caller)
    /\ \A w \in Workers : WF_vars(Worker(w))

-----------------------------------------------------------------------------
(***************************************************************************)
(* Correctness.                                                            *)
(***************************************************************************)
TypeOK ==
    /\ extractor \in Extractors
    /\ elided \in Builds
    /\ maxWorkers \in 0..MaxWorkers
    /\ docs \in 0..MaxDocs
    /\ pc \in {"spawn", "push", "spin", "release", "return", "locals", "destroy", "wait",
               "returned", "trapped", "unwind", "threw", "undefined"}
    /\ k \in 1..((IF pc \in {"push", "trapped"} THEN docs ELSE maxWorkers) + 1)
    /\ wpc \in [Workers -> {"none", "loop", "pop", "lock", "process", "yield",
                            "done", "failed"}]
    /\ hand \in [Workers -> 0..MaxDocs]
    /\ queue \in [Workers -> Seq(1..MaxDocs)]
    /\ mutex \in 0..MaxWorkers
    /\ killThread \in BOOLEAN
    /\ threadYield \in BOOLEAN
    /\ returnDocuments \in Seq(1..MaxDocs)
    /\ moved \in Seq(1..MaxDocs)

Elements(s) == {s[i] : i \in DOMAIN s}
Result == IF elided THEN returnDocuments ELSE moved
LocalsGone == pc \in {"destroy", "wait", "returned", "unwind", "threw"}
Destroyed(w) ==
    \/ pc = "destroy" /\ w < k
    \/ pc = "wait" /\ w <= k
    \/ pc \in {"returned", "threw"}

(***************************************************************************)
(* A document that has been dealt out is in exactly one place: a queue, a  *)
(* worker's hand (a worker that failed keeps it) or returnDocuments.       *)
(***************************************************************************)
Places(d) ==
    (UNION {{<<"queue", w, i>> : i \in {j \in DOMAIN queue[w] : queue[w][j] = d}} : w \in Pool})
    \cup {<<"hand", w>> : w \in {v \in Pool : hand[v] = d}}
    \cup {<<"returned", i>> : i \in {j \in DOMAIN returnDocuments : returnDocuments[j] = d}}
OnePlace ==
    \A d \in Docs :
        Cardinality(Places(d)) =
            IF pc \in {"spawn", "trapped", "unwind", "threw"} \/ (pc = "push" /\ d >= k)
              THEN 0 ELSE 1

(***************************************************************************)
(* ProcessDocument is never run by two workers at a time: the ONNX session *)
(* of the HF extractor and returnDocuments are shared without any other    *)
(* lock (the scoped_lock covers both).                                     *)
(***************************************************************************)
ProcessedAlone ==
    \A v, w \in Workers : wpc[v] = "process" /\ wpc[w] = "process" => v = w

(***************************************************************************)
(* A call that ends has lost at most one document of each worker, the one  *)
(* in its hand when `return` is executed, and that one only if the worker  *)
(* threw or the result is moved out (where the compiler does not build it  *)
(* in the caller's storage): then the worker pushes it into a vector that  *)
(* has been destroyed.                                                     *)
(***************************************************************************)
LosesOnlyInHand ==
    pc = "returned" =>
        \A w \in Pool :
            Cardinality({d \in Docs : Target(d) = w /\ d \notin Elements(Result)})
                <= IF elided /\ wpc[w] = "done" THEN 0 ELSE 1

(***************************************************************************)
(* Workers outlive mutex, returnDocuments and the two flags of the call,   *)
(* and ~threadPool destroys a queue before it waits for its worker.  The   *)
(* queues are empty by then, so that each worker locks the destroyed mutex *)
(* at most once more, for the document in its hand, and a destroyed queue  *)
(* gives it no other.  No worker outlives its place in the pool, nor the   *)
(* frame of the call, where the locals were.                               *)
(***************************************************************************)
PoolTornDown ==
    /\ LocalsGone => \A w \in Pool : queue[w] = <<>>
    /\ \A w \in Pool : Destroyed(w) =>
          wpc[w] \in {"none", "done", "failed"} \/ (pc = "wait" /\ k = w)

(***************************************************************************)
(* A call ends, for an extractor in C++ that does not throw: the one token *)
(* wakes one worker and the timeout the others.  It does not if a thread   *)
(* cannot be started and another has been.                                 *)
(***************************************************************************)
CallEnds ==
    pc = "spawn" ~>
        \/ pc \in {"returned", "trapped", "threw", "undefined"}
        \/ pc = "unwind" /\ k > 1
        \/ extractor = "Python" /\ docs > 0
        \/ \E w \in Pool : wpc[w] = "failed"

(***************************************************************************)
(* "Processes metadata from multiple documents" (src/binding.cpp): what is *)
(* returned has every document.  The code breaks this: the exception of a  *)
(* document is dropped with its future, and the call returns without it.   *)
(***************************************************************************)
EveryDocumentReturned == pc = "returned" => Elements(Result) = Docs

(***************************************************************************)
(* "It has a pure virtual method for processing a single document, and a   *)
(* method for processing multiple documents in parallel" (src/binding.cpp).*)
(* With the method overridden in Python the call never ends: it waits for  *)
(* workers that wait for the interpreter lock it holds.                    *)
(***************************************************************************)
OverriddenCallEnds ==
    pc = "spawn" ~>
        \/ pc \in {"returned", "trapped", "unwind", "threw"}
        \/ \E w \in Pool : wpc[w] = "failed"
=============================================================================
