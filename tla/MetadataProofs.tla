---------------------------- MODULE MetadataProofs ----------------------------
(***************************************************************************)
(* Proofs about MetadataExtractor: where each document is, what a call can *)
(* lose of them, and what the end of threadPool waits for, for any number  *)
(* of workers and documents.                                               *)
(***************************************************************************)
EXTENDS MetadataExtractor, FiniteSetTheorems, SequenceTheorems, TLAPS

-----------------------------------------------------------------------------
(***************************************************************************)
(* The inductive invariant, one part after the other.                      *)
(***************************************************************************)
Ending == {"release", "return", "locals", "destroy", "wait", "returned", "undefined"}
Spawning == {"spawn", "unwind", "threw"}

\* Where the caller is in its loops, and what it has told the workers.
Position ==
    /\ pc = "wait" => k \in Pool
    /\ pc = "push" /\ maxWorkers = 0 => k = 1
    /\ killThread <=> pc \in Ending

Started(w) == w \in Pool /\ (pc \in Spawning => w < k)

\* A worker has a document from its pop to the end of ProcessDocument, and for
\* good if that throws; it holds the mutex around ProcessDocument; it ends only
\* when it is told to.
WorkersInStep ==
    \A w \in Workers :
        /\ wpc[w] # "none" <=> Started(w)
        /\ hand[w] # 0 <=> wpc[w] \in {"lock", "process", "failed"}
        /\ wpc[w] = "process" <=> mutex = w
        /\ wpc[w] = "done" => killThread

\* A queue the caller has seen empty stays empty: nothing is dealt out any more.
Drained(w) == pc \in Ending \/ (pc = "spin" /\ w < k)
QueuesDrained == \A w \in Pool : Drained(w) => queue[w] = <<>>

Dealt(d) == pc \notin Spawning \cup {"trapped"} /\ (pc = "push" => d < k)
Mine(w, d) == d \in Docs /\ Target(d) = w /\ Dealt(d)
Queued(w, d) == \E i \in DOMAIN queue[w] : queue[w][i] = d
Returned(d) == \E i \in DOMAIN returnDocuments : returnDocuments[i] = d

\* Only documents dealt out to a worker are with it ...
Owned ==
    \A d \in 1..MaxDocs :
        /\ \A w \in Workers : Queued(w, d) \/ hand[w] = d => Mine(w, d)
        /\ Returned(d) => d \in Docs /\ Dealt(d)

\* ... each in one place only ...
Once ==
    /\ \A w \in Workers : \A i, j \in DOMAIN queue[w] : queue[w][i] = queue[w][j] => i = j
    /\ \A i, j \in DOMAIN returnDocuments : returnDocuments[i] = returnDocuments[j] => i = j
    /\ \A w \in Workers, d \in 1..MaxDocs :
          /\ Queued(w, d) => hand[w] # d /\ ~Returned(d)
          /\ hand[w] = d => ~Returned(d)

\* ... and every one of them in some place.
Kept ==
    \A d \in Docs : Dealt(d) =>
        /\ Target(d) \in Pool
        /\ Queued(Target(d), d) \/ hand[Target(d)] = d \/ Returned(d)

Documents == Owned /\ Once /\ Kept

\* What was moved out lacks at most one document of each worker.
ResultLacksOne ==
    pc \in {"locals", "destroy", "wait", "returned"} =>
        \A d, e \in Docs :
            Target(d) = Target(e) /\ d \notin Elements(moved) /\ e \notin Elements(moved)
                => d = e

IInv ==
    /\ TypeOK /\ Position /\ WorkersInStep /\ QueuesDrained /\ PoolTornDown
    /\ Documents /\ ResultLacksOne

-----------------------------------------------------------------------------
LEMMA Sizes ==
    ASSUME TypeOK
    PROVE  /\ maxWorkers \in Nat /\ docs \in Nat /\ k \in Nat \ {0}
           /\ Pool \subseteq Workers /\ Docs \subseteq 1..MaxDocs
           /\ 0 \notin Workers /\ 0 \notin Docs
           /\ \A w \in Pool : w \in Nat /\ w <= maxWorkers
           /\ \A d \in Docs : d \in Nat /\ d <= docs
BY PoolAssumption DEF TypeOK, Pool, Docs, Workers

LEMMA TargetIn ==
    ASSUME TypeOK, maxWorkers > 0, NEW d \in Docs
    PROVE  Target(d) \in Pool
BY PoolAssumption DEF TypeOK, Pool, Docs, Target

LEMMA Initially == Init => IInv
<1> SUFFICES ASSUME Init PROVE IInv
  OBVIOUS
<1> USE DEF Init
<1>1. TypeOK
  <2>1. k \in 1..((IF pc \in {"push", "trapped"} THEN docs ELSE maxWorkers) + 1)
    BY PoolAssumption
  <2>2. /\ queue \in [Workers -> Seq(1..MaxDocs)]
        /\ returnDocuments \in Seq(1..MaxDocs) /\ moved \in Seq(1..MaxDocs)
    OBVIOUS
  <2>3. /\ hand \in [Workers -> 0..MaxDocs] /\ mutex \in 0..MaxWorkers
        /\ wpc \in [Workers -> {"none", "loop", "pop", "lock", "process", "yield", "done", "failed"}]
    BY PoolAssumption
  <2>4. /\ pc \in {"spawn", "push", "spin", "release", "return", "locals", "destroy", "wait",
                     "returned", "trapped", "unwind", "threw", "undefined"}
        /\ killThread \in BOOLEAN /\ threadYield \in BOOLEAN
    OBVIOUS
  <2> QED
    BY <2>1, <2>2, <2>3, <2>4 DEF TypeOK
<1>2. Position /\ WorkersInStep /\ QueuesDrained /\ PoolTornDown /\ ResultLacksOne
  <2>1. \A w \in Workers : ~Started(w) /\ w # 0
    BY PoolAssumption DEF Started, Spawning, Pool, Workers
  <2> QED
    BY <2>1 DEF Position, Ending, WorkersInStep, QueuesDrained, Drained, PoolTornDown,
                Destroyed, LocalsGone, ResultLacksOne
<1>3. Documents
  <2>1. /\ \A w \in Workers, d \in 1..MaxDocs : ~Queued(w, d) /\ hand[w] # d
        /\ \A d \in 1..MaxDocs : ~Returned(d)
    BY DEF Queued, Returned
  <2> QED
    BY <2>1 DEF Documents, Owned, Once, Kept, Dealt, Spawning
<1> QED
  BY <1>1, <1>2, <1>3 DEF IInv

-----------------------------------------------------------------------------
(***************************************************************************)
(* Steps that deal out, take or return no document.                        *)
(***************************************************************************)
LEMMA SameDocuments ==
    ASSUME Documents, UNCHANGED <<parameters, hand, queue, returnDocuments>>,
           \A d \in Docs : Dealt(d)' <=> Dealt(d)
    PROVE  Documents'
<1>1. /\ maxWorkers' = maxWorkers /\ docs' = docs /\ hand' = hand /\ queue' = queue
      /\ returnDocuments' = returnDocuments
  BY DEF parameters
<1>2. /\ \A w, d : Queued(w, d)' <=> Queued(w, d)
      /\ \A d : Returned(d)' <=> Returned(d)
      /\ \A d : Target(d)' = Target(d)
      /\ Docs' = Docs /\ Pool' = Pool
      /\ \A w, d : Mine(w, d)' <=> Mine(w, d)
  BY <1>1 DEF Queued, Returned, Target, Docs, Pool, Mine
<1>3. Owned'
  BY <1>1, <1>2 DEF Documents, Owned
<1>4. Once'
  BY <1>1, <1>2 DEF Documents, Once
<1>5. Kept'
  BY <1>1, <1>2 DEF Documents, Kept
<1> QED
  BY <1>3, <1>4, <1>5 DEF Documents

LEMMA SpawnStep == ASSUME IInv, Spawn PROVE IInv'
<1> USE DEF IInv, Spawn, parameters
<1>1. TypeOK'
  BY Sizes DEF TypeOK, Pool, Workers
<1>2. Position'
  BY DEF Position, Ending
<1>3. WorkersInStep'
  <2>1. ASSUME NEW w \in Workers
        PROVE  (wpc'[w] # "none" <=> Started(w)') /\ (w # k => wpc'[w] = wpc[w])
    BY Sizes DEF TypeOK, WorkersInStep, Started, Spawning, Pool
  <2>2. k \in Workers /\ wpc[k] = "none" /\ wpc'[k] = "loop"
    BY Sizes DEF TypeOK, WorkersInStep, Started, Spawning
  <2> QED
    BY <2>1, <2>2 DEF WorkersInStep
<1>4. QueuesDrained' /\ PoolTornDown' /\ ResultLacksOne'
  BY DEF QueuesDrained, Drained, Ending, PoolTornDown, Destroyed, LocalsGone, ResultLacksOne
<1>5. Documents'
  BY SameDocuments DEF Dealt, Spawning
<1> QED
  BY <1>1, <1>2, <1>3, <1>4, <1>5

\* Before the first document is dealt out nobody has one.
LEMMA NothingYet ==
    ASSUME IInv, pc \in Spawning
    PROVE  /\ \A w \in Pool : queue[w] = <<>>
           /\ \A w \in Workers : hand[w] = 0
<1> USE DEF IInv
<1>1. \A w \in Workers, d \in 1..MaxDocs : ~Queued(w, d) /\ hand[w] # d
  BY DEF Documents, Owned, Mine, Dealt
<1>2. ASSUME NEW w \in Workers PROVE queue[w] = <<>>
  <2>1. queue[w] \in Seq(1..MaxDocs)
    BY DEF TypeOK
  <2>2. ASSUME queue[w] # <<>> PROVE FALSE
    <3>1. PICK q : q = queue[w] /\ q \in Seq(1..MaxDocs) /\ q # <<>>
      BY <2>1, <2>2
    <3>2. Len(q) \in Nat /\ Len(q) # 0 /\ DOMAIN q = 1..Len(q)
      BY <3>1, EmptySeq
    <3>3. 1 \in DOMAIN q
      BY <3>2
    <3>4. q[1] \in 1..MaxDocs
      BY <3>1, <3>2, <3>3, ElementOfSeq
    <3> QED
      BY <1>1, <3>1, <3>3, <3>4 DEF Queued
  <2> QED
    BY <2>2
<1>3. ASSUME NEW w \in Workers PROVE hand[w] = 0
  BY <1>1, <1>3 DEF TypeOK
<1> QED
  BY <1>2, <1>3, Sizes

LEMMA SpawnFailsStep == ASSUME IInv, SpawnFails PROVE IInv'
<1> USE DEF IInv, SpawnFails, parameters
<1>1. TypeOK'
  BY DEF TypeOK
<1>2. Position' /\ WorkersInStep'
  BY DEF Position, Ending, WorkersInStep, Started, Spawning, Pool
<1>3. QueuesDrained' /\ ResultLacksOne'
  BY DEF QueuesDrained, Drained, Ending, ResultLacksOne
<1>4. PoolTornDown'
  BY NothingYet DEF PoolTornDown, Destroyed, Pool, Spawning
<1>5. Documents'
  BY SameDocuments DEF Dealt, Spawning
<1> QED
  BY <1>1, <1>2, <1>3, <1>4, <1>5

LEMMA UnwoundStep == ASSUME IInv, Unwound PROVE IInv'
<1> USE DEF IInv, Unwound, parameters
<1>1. TypeOK'
  BY DEF TypeOK
<1>2. Position' /\ WorkersInStep'
  BY DEF Position, Ending, WorkersInStep, Started, Spawning, Pool
<1>3. QueuesDrained' /\ ResultLacksOne'
  BY DEF QueuesDrained, Drained, Ending, ResultLacksOne
<1>4. PoolTornDown'
  <2>1. \A w \in Pool : wpc[w] \in {"none", "done", "failed"}
    <3>1. ASSUME NEW w \in Pool PROVE wpc[w] = "none" \/ w \in 1..(k - 1)
      BY Sizes DEF WorkersInStep, Started, Spawning, TypeOK
    <3> QED
      BY <3>1
  <2> QED
    BY <2>1, NothingYet DEF PoolTornDown, Destroyed, Pool, Spawning
<1>5. Documents'
  BY SameDocuments DEF Dealt, Spawning
<1> QED
  BY <1>1, <1>2, <1>3, <1>4, <1>5

LEMMA SpawnedStep == ASSUME IInv, Spawned PROVE IInv'
<1> USE DEF IInv, Spawned, parameters
<1>1. TypeOK'
  BY Sizes DEF TypeOK
<1>2. Position'
  BY DEF Position, Ending
<1>3. WorkersInStep'
  <2>1. \A w \in Pool : w < k
    BY Sizes DEF TypeOK, Pool
  <2>2. \A w \in Workers : Started(w)' <=> Started(w)
    BY <2>1 DEF Started, Spawning, Pool
  <2> QED
    BY <2>2 DEF WorkersInStep
<1>4. QueuesDrained' /\ PoolTornDown' /\ ResultLacksOne'
  BY DEF QueuesDrained, Drained, Ending, PoolTornDown, Destroyed, LocalsGone, ResultLacksOne
<1>5. Documents'
  <2>1. \A d \in Docs : Dealt(d)' <=> Dealt(d)
    BY Sizes DEF Dealt, Spawning, Docs
  <2> QED
    BY <2>1, SameDocuments
<1> QED
  BY <1>1, <1>2, <1>3, <1>4, <1>5

LEMMA PushWithoutWorkersStep == ASSUME IInv, PushWithoutWorkers PROVE IInv'
<1> USE DEF IInv, PushWithoutWorkers, parameters
<1>1. TypeOK'
  BY DEF TypeOK
<1>2. Position' /\ WorkersInStep'
  BY DEF Position, Ending, WorkersInStep, Started, Spawning, Pool
<1>3. QueuesDrained' /\ PoolTornDown' /\ ResultLacksOne'
  BY DEF QueuesDrained, Drained, Ending, PoolTornDown, Destroyed, LocalsGone, ResultLacksOne
<1>4. Documents'
  <2>1. \A d \in Docs : ~(d < k)
    BY DEF Position, Docs
  <2>2. \A d \in Docs : Dealt(d)' <=> Dealt(d)
    BY <2>1 DEF Dealt, Spawning
  <2> QED
    BY <2>2, SameDocuments
<1> QED
  BY <1>1, <1>2, <1>3, <1>4

LEMMA PushedStep == ASSUME IInv, Pushed PROVE IInv'
<1> USE DEF IInv, Pushed, parameters
<1>1. TypeOK'
  BY Sizes DEF TypeOK
<1>2. Position' /\ WorkersInStep'
  BY DEF Position, Ending, WorkersInStep, Started, Spawning, Pool
<1>3. QueuesDrained' /\ PoolTornDown' /\ ResultLacksOne'
  BY DEF QueuesDrained, Drained, Ending, PoolTornDown, Destroyed, LocalsGone, ResultLacksOne, Pool
<1>4. Documents'
  <2>1. \A d \in Docs : d < k
    BY Sizes DEF TypeOK, Docs
  <2>2. \A d \in Docs : Dealt(d)' <=> Dealt(d)
    BY <2>1 DEF Dealt, Spawning
  <2> QED
    BY <2>2, SameDocuments
<1> QED
  BY <1>1, <1>2, <1>3, <1>4

LEMMA SpinStep == ASSUME IInv, Spin PROVE IInv'
<1> USE DEF IInv, Spin, parameters
<1>1. TypeOK'
  BY Sizes DEF TypeOK, Pool
<1>2. Position' /\ WorkersInStep'
  BY DEF Position, Ending, WorkersInStep, Started, Spawning, Pool
<1>3. QueuesDrained'
  <2>1. \A w \in Pool : Drained(w)' => Drained(w) \/ w = k
    BY Sizes DEF Drained, Ending
  <2> QED
    BY <2>1 DEF QueuesDrained, Pool
<1>4. PoolTornDown' /\ ResultLacksOne'
  BY DEF PoolTornDown, Destroyed, LocalsGone, ResultLacksOne
<1>5. Documents'
  BY SameDocuments DEF Dealt, Spawning
<1> QED
  BY <1>1, <1>2, <1>3, <1>4, <1>5

LEMMA KillStep == ASSUME IInv, Kill PROVE IInv'
<1> USE DEF IInv, Kill, parameters
<1>1. TypeOK'
  BY DEF TypeOK
<1>2. Position' /\ WorkersInStep'
  BY DEF Position, Ending, WorkersInStep, Started, Spawning, Pool
<1>3. QueuesDrained'
  <2>1. \A w \in Pool : Drained(w)
    BY Sizes DEF TypeOK, Drained, Pool
  <2> QED
    BY <2>1 DEF QueuesDrained, Pool
<1>4. PoolTornDown' /\ ResultLacksOne'
  BY DEF PoolTornDown, Destroyed, LocalsGone, ResultLacksOne
<1>5. Documents'
  BY SameDocuments DEF Dealt, Spawning
<1> QED
  BY <1>1, <1>2, <1>3, <1>4, <1>5

LEMMA ReleaseStep == ASSUME IInv, Release PROVE IInv'
<1> USE DEF IInv, Release, parameters
<1>1. TypeOK'
  BY DEF TypeOK
<1>2. Position' /\ WorkersInStep'
  BY DEF Position, Ending, WorkersInStep, Started, Spawning, Pool
<1>3. QueuesDrained' /\ PoolTornDown' /\ ResultLacksOne'
  BY DEF QueuesDrained, Drained, Ending, PoolTornDown, Destroyed, LocalsGone, ResultLacksOne, Pool
<1>4. Documents'
  BY SameDocuments DEF Dealt, Spawning
<1> QED
  BY <1>1, <1>2, <1>3, <1>4

\* What was moved out lacks only what is in a hand: nothing is in a queue any more.
LEMMA ReturnStep == ASSUME IInv, Return PROVE IInv'
<1> USE DEF IInv, Return, parameters
<1>1. TypeOK'
  BY Sizes DEF TypeOK
<1>2. Position' /\ WorkersInStep'
  BY DEF Position, Ending, WorkersInStep, Started, Spawning, Pool
<1>3. QueuesDrained'
  BY DEF QueuesDrained, Drained, Ending, Pool
<1>4. PoolTornDown'
  BY Sizes DEF PoolTornDown, Destroyed, LocalsGone, Pool
<1>5. ResultLacksOne'
  <2>1. \A d : d \notin Elements(returnDocuments) => ~Returned(d)
    BY DEF Elements, Returned
  <2>2. \A w \in Pool : \A d : ~Queued(w, d)
    BY DEF QueuesDrained, Drained, Ending, Queued
  <2>3. \A d \in Docs : d \notin Elements(returnDocuments) => hand[Target(d)] = d
    BY <2>1, <2>2 DEF Documents, Kept, Dealt, Spawning
  <2>4. /\ Docs' = Docs /\ \A d : Target(d)' = Target(d)
        /\ Elements(moved)' = Elements(returnDocuments)
    BY DEF Docs, Target, Elements
  <2> QED
    BY <2>3, <2>4 DEF ResultLacksOne
<1>6. Documents'
  BY SameDocuments DEF Dealt, Spawning
<1> QED
  BY <1>1, <1>2, <1>3, <1>4, <1>5, <1>6

LEMMA DestroyLocalsStep == ASSUME IInv, DestroyLocals PROVE IInv'
<1> USE DEF IInv, DestroyLocals, parameters
<1>1. TypeOK'
  BY Sizes DEF TypeOK
<1>2. Position' /\ WorkersInStep'
  BY DEF Position, Ending, WorkersInStep, Started, Spawning, Pool
<1>3. QueuesDrained' /\ ResultLacksOne'
  BY DEF QueuesDrained, Drained, Ending, ResultLacksOne, Pool, Docs, Target
<1>4. PoolTornDown'
  BY Sizes DEF PoolTornDown, Destroyed, Pool, QueuesDrained, Drained, Ending
<1>5. Documents'
  BY SameDocuments DEF Dealt, Spawning
<1> QED
  BY <1>1, <1>2, <1>3, <1>4, <1>5

LEMMA RaceStep == ASSUME IInv, Race PROVE IInv'
<1> USE DEF IInv, Race, parameters
<1>1. TypeOK'
  BY DEF TypeOK
<1>2. Position' /\ WorkersInStep'
  BY DEF Position, Ending, WorkersInStep, Started, Spawning, Pool
<1>3. QueuesDrained' /\ PoolTornDown' /\ ResultLacksOne'
  BY DEF QueuesDrained, Drained, Ending, PoolTornDown, Destroyed, LocalsGone, ResultLacksOne, Pool
<1>4. Documents'
  BY SameDocuments DEF Dealt, Spawning
<1> QED
  BY <1>1, <1>2, <1>3, <1>4

LEMMA DestroyQueueStep == ASSUME IInv, DestroyQueue PROVE IInv'
<1> USE DEF IInv, DestroyQueue, parameters
<1>1. TypeOK'
  BY DEF TypeOK
<1>2. Position' /\ WorkersInStep'
  BY DEF Position, Ending, WorkersInStep, Started, Spawning, Pool
<1>3. QueuesDrained' /\ ResultLacksOne'
  BY DEF QueuesDrained, Drained, Ending, ResultLacksOne, Pool, Docs, Target
<1>4. PoolTornDown'
  <2>1. \A w \in Pool : Destroyed(w)' => Destroyed(w) \/ w = k
    BY Sizes DEF Destroyed
  <2>2. queue[k] = <<>>
    BY DEF QueuesDrained, Drained, Ending
  <2> QED
    BY <2>1, <2>2 DEF PoolTornDown, Pool, Destroyed, LocalsGone
<1>5. Documents'
  BY SameDocuments DEF Dealt, Spawning
<1> QED
  BY <1>1, <1>2, <1>3, <1>4, <1>5

LEMMA WaitFutureStep == ASSUME IInv, WaitFuture PROVE IInv'
<1> USE DEF IInv, WaitFuture, parameters
<1>1. TypeOK'
  BY Sizes DEF TypeOK, Position, Pool
<1>2. Position' /\ WorkersInStep'
  BY DEF Position, Ending, WorkersInStep, Started, Spawning, Pool
<1>3. QueuesDrained' /\ ResultLacksOne'
  BY DEF QueuesDrained, Drained, Ending, ResultLacksOne, Pool, Docs, Target
<1>4. PoolTornDown'
  <2>1. \A w \in Pool : Destroyed(w)' => Destroyed(w)
    BY Sizes DEF Destroyed
  <2> QED
    BY <2>1 DEF PoolTornDown, LocalsGone, Pool
<1>5. Documents'
  BY SameDocuments DEF Dealt, Spawning
<1> QED
  BY <1>1, <1>2, <1>3, <1>4, <1>5

LEMMA FinishStep == ASSUME IInv, Finish PROVE IInv'
<1> USE DEF IInv, Finish, parameters
<1>1. TypeOK'
  BY DEF TypeOK
<1>2. Position' /\ WorkersInStep'
  BY DEF Position, Ending, WorkersInStep, Started, Spawning, Pool
<1>3. QueuesDrained' /\ ResultLacksOne'
  BY DEF QueuesDrained, Drained, Ending, ResultLacksOne, Pool, Docs, Target
<1>4. PoolTornDown'
  <2>1. \A w \in Pool : Destroyed(w)
    BY Sizes DEF TypeOK, Destroyed, Pool
  <2> QED
    BY <2>1 DEF PoolTornDown, LocalsGone, Pool
<1>5. Documents'
  BY SameDocuments DEF Dealt, Spawning
<1> QED
  BY <1>1, <1>2, <1>3, <1>4, <1>5

-----------------------------------------------------------------------------
(***************************************************************************)
(* Steps that move a document: into a queue, into a hand, to the result.   *)
(***************************************************************************)
LEMMA PushStep == ASSUME IInv, Push PROVE IInv'
<1> USE DEF IInv, Push, parameters
<1>1. PICK v \in Workers, e \in 1..MaxDocs : v = Target(k) /\ e = k /\ v \in Pool /\ e \in Docs
  BY Sizes, TargetIn DEF TypeOK
<1>2. /\ queue[v] \in Seq(1..MaxDocs)
      /\ queue' = [queue EXCEPT ![v] = Append(queue[v], e)]
  BY <1>1 DEF TypeOK
<1>3. /\ \A w \in Workers \ {v} : queue'[w] = queue[w]
      /\ queue'[v] = Append(queue[v], e)
      /\ queue' \in [Workers -> Seq(1..MaxDocs)]
  <2>1. Append(queue[v], e) \in Seq(1..MaxDocs)
    BY <1>2
  <2> QED
    BY <1>2, <2>1 DEF TypeOK
<1>4. /\ DOMAIN queue'[v] = DOMAIN queue[v] \cup {Len(queue[v]) + 1}
      /\ queue'[v][Len(queue[v]) + 1] = e
      /\ \A i \in DOMAIN queue[v] : queue'[v][i] = queue[v][i] /\ i # Len(queue[v]) + 1
  BY <1>2, <1>3
<1>5. TypeOK'
  BY <1>1, <1>3, Sizes DEF TypeOK, Docs
<1>6. Position' /\ WorkersInStep'
  BY DEF Position, Ending, WorkersInStep, Started, Spawning, Pool
<1>7. QueuesDrained' /\ PoolTornDown' /\ ResultLacksOne'
  BY DEF QueuesDrained, Drained, Ending, PoolTornDown, Destroyed, LocalsGone, ResultLacksOne
<1>8. /\ \A d \in Docs : Dealt(d)' <=> Dealt(d) \/ d = e
      /\ ~Dealt(e)
  BY <1>1, Sizes DEF Dealt, Spawning
<1>9. /\ Docs' = Docs /\ Pool' = Pool /\ \A d : Target(d)' = Target(d)
      /\ \A d : Returned(d)' <=> Returned(d)
      /\ \A w, d : Mine(w, d) => Mine(w, d)'
  BY <1>8 DEF Docs, Pool, Target, Returned, Mine
<1>10. /\ \A w \in Workers \ {v} : \A d : Queued(w, d)' <=> Queued(w, d)
       /\ \A d : Queued(v, d)' <=> Queued(v, d) \/ d = e
  <2>1. \A w \in Workers \ {v} : \A d : Queued(w, d)' <=> Queued(w, d)
    BY <1>3 DEF Queued
  <2>2. \A d : Queued(v, d)' <=> Queued(v, d) \/ d = e
    BY <1>4 DEF Queued
  <2> QED
    BY <2>1, <2>2
<1>11. /\ \A w \in Workers : hand[w] # e /\ ~Queued(w, e)
       /\ ~Returned(e)
  BY <1>8 DEF Documents, Owned, Mine
<1>12. Mine(v, e)'
  BY <1>1, <1>8, <1>9 DEF Mine
<1>13. Owned'
  BY <1>8, <1>9, <1>10, <1>12 DEF Documents, Owned
<1>14. Once'
  <2>1. ASSUME NEW w \in Workers, NEW i \in DOMAIN queue'[w], NEW j \in DOMAIN queue'[w],
               queue'[w][i] = queue'[w][j]
        PROVE  i = j
    <3>1. CASE w # v
      BY <1>3, <2>1, <3>1 DEF Documents, Once
    <3>2. CASE w = v
      <4>1. \A l \in DOMAIN queue[v] : queue[v][l] # e
        BY <1>11 DEF Queued
      <4>2. \A l, m \in DOMAIN queue[v] : queue[v][l] = queue[v][m] => l = m
        BY DEF Documents, Once
      <4> QED
        BY <1>4, <2>1, <3>2, <4>1, <4>2
    <3> QED
      BY <3>1, <3>2
  <2>2. \A w \in Workers, d \in 1..MaxDocs : Queued(w, d)' => hand[w] # d /\ ~Returned(d)
    BY <1>10, <1>11 DEF Documents, Once
  <2>3. /\ \A i, j \in DOMAIN returnDocuments : returnDocuments[i] = returnDocuments[j] => i = j
        /\ \A w \in Workers, d \in 1..MaxDocs : hand[w] = d => ~Returned(d)
    BY DEF Documents, Once
  <2> QED
    BY <1>9, <2>1, <2>2, <2>3 DEF Once
<1>15. Kept'
  <2> SUFFICES ASSUME NEW d \in Docs, Dealt(d)'
               PROVE  Target(d) \in Pool /\ (Queued(Target(d), d)' \/ hand[Target(d)] = d \/ Returned(d))
    BY <1>9 DEF Kept
  <2>1. PICK w : w = Target(d)
    OBVIOUS
  <2>2. w' = w /\ Target(d)' = w
    BY <1>9, <2>1
  <2>3. CASE d = e
    BY <1>1, <1>10, <2>1, <2>2, <2>3
  <2>4. CASE Dealt(d)
    <3>1. w \in Pool /\ (Queued(w, d) \/ hand[w] = d \/ Returned(d))
      BY <2>1, <2>4 DEF Documents, Kept
    <3>2. w \in Workers
      BY <3>1, Sizes
    <3> QED
      BY <1>10, <2>1, <2>2, <3>1, <3>2
  <2> QED
    BY <1>8, <2>3, <2>4
<1> QED
  BY <1>5, <1>6, <1>7, <1>13, <1>14, <1>15 DEF Documents

LEMMA PopStep ==
    ASSUME IInv, NEW v \in Workers, Pop(v)
    PROVE  IInv'
<1> USE DEF IInv, Pop, Goto, parameters
<1>1. CASE queue[v] = <<>>
  <2>1. TypeOK'
    BY <1>1 DEF TypeOK
  <2>2. Position'
    BY DEF Position, Ending, Pool
  <2>3. WorkersInStep'
    BY <1>1 DEF TypeOK, WorkersInStep, Started, Spawning, Pool
  <2>4. QueuesDrained' /\ ResultLacksOne'
    BY <1>1 DEF QueuesDrained, Drained, Ending, ResultLacksOne, Pool, Docs, Target
  <2>5. PoolTornDown'
    <3>1. \A w \in Pool : (Destroyed(w)' <=> Destroyed(w)) /\ w \in Workers
      BY <1>1, Sizes DEF Destroyed
    <3>2. wpc[v] = "pop" /\ \A w \in Workers \ {v} : wpc'[w] = wpc[w]
      BY <1>1 DEF TypeOK
    <3>3. wpc'[v] = "yield"
      BY <1>1 DEF TypeOK
    <3> QED
      BY <1>1, <3>1, <3>2, <3>3 DEF PoolTornDown, LocalsGone, Pool
  <2>6. Documents'
    BY <1>1, SameDocuments DEF Dealt, Spawning
  <2> QED
    BY <2>1, <2>2, <2>3, <2>4, <2>5, <2>6
<1>2. CASE queue[v] # <<>>
  <2>1. PICK s, e : s = queue[v] /\ e = Head(s) /\ s \in Seq(1..MaxDocs)
    BY DEF TypeOK
  <2>2. /\ s # <<>> /\ queue[v] = s
        /\ hand' = [hand EXCEPT ![v] = e]
        /\ queue' = [queue EXCEPT ![v] = Tail(s)]
        /\ wpc[v] = "pop" /\ wpc' = [wpc EXCEPT ![v] = "lock"]
    BY <1>2, <2>1
  <2>3. /\ 1 \in DOMAIN s /\ e = s[1] /\ e \in 1..MaxDocs
        /\ Tail(s) \in Seq(1..MaxDocs)
    <3>1. Head(s) \in 1..MaxDocs /\ Tail(s) \in Seq(1..MaxDocs)
      BY <2>1, <2>2, HeadTailProperties
    <3>2. 1 \in DOMAIN s /\ Head(s) = s[1]
      <4>1. Len(s) \in Nat /\ Len(s) # 0 /\ DOMAIN s = 1..Len(s)
        BY <2>1, <2>2, EmptySeq
      <4> QED
        BY <4>1
    <3> QED
      BY <2>1, <3>1, <3>2
  <2>4. \A i \in DOMAIN Tail(s) : i + 1 \in DOMAIN s /\ Tail(s)[i] = s[i + 1] /\ i + 1 # 1 /\ i \in Nat
    BY <2>1, <2>2
  <2>5. \A i \in DOMAIN s : i # 1 => i - 1 \in DOMAIN Tail(s) /\ Tail(s)[i - 1] = s[i]
    BY <2>1, <2>2
  <2>6. hand[v] = 0 /\ e # 0
    BY <2>2, <2>3 DEF WorkersInStep
  <2>7. Queued(v, e)
    BY <2>2, <2>3 DEF Queued
  <2>8. /\ hand' \in [Workers -> 0..MaxDocs] /\ hand'[v] = e
        /\ \A w \in Workers \ {v} : hand'[w] = hand[w]
    <3>1. e \in 0..MaxDocs
      BY <2>3
    <3> QED
      BY <2>2, <3>1 DEF TypeOK
  <2>9. /\ queue' \in [Workers -> Seq(1..MaxDocs)] /\ queue'[v] = Tail(s)
        /\ \A w \in Workers \ {v} : queue'[w] = queue[w]
    BY <2>2, <2>3 DEF TypeOK
  <2>10. /\ wpc'[v] = "lock" /\ \A w \in Workers \ {v} : wpc'[w] = wpc[w]
         /\ wpc' \in [Workers -> {"none", "loop", "pop", "lock", "process", "yield", "done", "failed"}]
    BY <2>2 DEF TypeOK
  <2>11. TypeOK'
    BY <1>2, <2>8, <2>9, <2>10 DEF TypeOK
  <2>12. Position' /\ ResultLacksOne'
    BY DEF Position, Ending, Pool, ResultLacksOne, Docs, Target
  <2>13. WorkersInStep'
    BY <2>2, <2>6, <2>8, <2>10 DEF WorkersInStep, Started, Spawning, Pool
  <2>14. QueuesDrained' /\ PoolTornDown'
    <3>1. v \in Pool => ~Drained(v) /\ ~Destroyed(v)
      BY <1>2 DEF QueuesDrained, PoolTornDown, Destroyed, LocalsGone
    <3>2. \A w : (Drained(w)' <=> Drained(w)) /\ (Destroyed(w)' <=> Destroyed(w))
      BY DEF Drained, Destroyed, Ending
    <3> QED
      BY <1>2, <2>9, <2>10, <3>1, <3>2, Sizes DEF QueuesDrained, PoolTornDown, LocalsGone, Pool,
         Drained, Ending
  <2>15. /\ \A d : Dealt(d)' <=> Dealt(d)
         /\ Docs' = Docs /\ Pool' = Pool /\ \A d : Target(d)' = Target(d)
         /\ \A d : Returned(d)' <=> Returned(d)
         /\ \A w, d : Mine(w, d)' <=> Mine(w, d)
    BY DEF Dealt, Spawning, Docs, Pool, Target, Returned, Mine
  <2>16. /\ \A w \in Workers \ {v} : \A d : Queued(w, d)' <=> Queued(w, d)
         /\ \A d : Queued(v, d)' <=> Queued(v, d) /\ d # e
    <3>1. \A w \in Workers \ {v} : \A d : Queued(w, d)' <=> Queued(w, d)
      BY <2>9 DEF Queued
    <3>2. ASSUME NEW d, Queued(v, d)' PROVE Queued(v, d) /\ d # e
      <4>1. PICK i \in DOMAIN Tail(s) : Tail(s)[i] = d
        BY <2>9, <3>2 DEF Queued
      <4>2. i + 1 \in DOMAIN s /\ s[i + 1] = d /\ i + 1 # 1
        BY <2>4, <4>1
      <4>3. \A j, l \in DOMAIN s : s[j] = s[l] => j = l
        BY <2>2 DEF Documents, Once
      <4> QED
        BY <2>2, <2>3, <4>2, <4>3 DEF Queued
    <3>3. ASSUME NEW d, Queued(v, d), d # e PROVE Queued(v, d)'
      <4>1. PICK i \in DOMAIN s : s[i] = d
        BY <2>2, <3>3 DEF Queued
      <4>2. i # 1
        BY <2>3, <3>3, <4>1
      <4> QED
        BY <2>5, <2>9, <4>1, <4>2 DEF Queued
    <3> QED
      BY <3>1, <3>2, <3>3
  <2>17. Mine(v, e) /\ ~Returned(e)
    BY <2>3, <2>7 DEF Documents, Owned, Once
  <2>18. Owned'
    BY <2>8, <2>15, <2>16, <2>17 DEF Documents, Owned
  <2>19. Once'
    <3>1. ASSUME NEW w \in Workers, NEW i \in DOMAIN queue'[w], NEW j \in DOMAIN queue'[w],
                 queue'[w][i] = queue'[w][j]
          PROVE  i = j
      <4>1. CASE w # v
        BY <2>9, <3>1, <4>1 DEF Documents, Once
      <4>2. CASE w = v
        <5>1. \A l, m \in DOMAIN s : s[l] = s[m] => l = m
          BY <2>2 DEF Documents, Once
        <5>2. /\ i \in DOMAIN Tail(s) /\ j \in DOMAIN Tail(s)
              /\ Tail(s)[i] = Tail(s)[j]
          BY <2>9, <3>1, <4>2
        <5>3. /\ i + 1 \in DOMAIN s /\ j + 1 \in DOMAIN s /\ s[i + 1] = s[j + 1]
              /\ i \in Nat /\ j \in Nat
          BY <2>4, <5>2
        <5>4. i + 1 = j + 1
          BY <5>1, <5>3
        <5> QED
          BY <5>3, <5>4
      <4> QED
        BY <4>1, <4>2
    <3>2. ASSUME NEW w \in Workers, NEW d \in 1..MaxDocs
          PROVE  /\ Queued(w, d)' => hand'[w] # d /\ ~Returned(d)
                 /\ hand'[w] = d => ~Returned(d)
      BY <2>8, <2>16, <2>17 DEF Documents, Once
    <3>3. \A i, j \in DOMAIN returnDocuments : returnDocuments[i] = returnDocuments[j] => i = j
      BY DEF Documents, Once
    <3> QED
      BY <2>15, <3>1, <3>2, <3>3 DEF Once
  <2>20. Kept'
    <3> SUFFICES ASSUME NEW d \in Docs, Dealt(d)
                 PROVE  /\ Target(d) \in Pool
                        /\ Queued(Target(d), d)' \/ hand'[Target(d)] = d \/ Returned(d)
      BY <2>15 DEF Kept
    <3>1. PICK w : w = Target(d)
      OBVIOUS
    <3>2. Target(d)' = w
      BY <2>15, <3>1
    <3>3. w \in Pool /\ (Queued(w, d) \/ hand[w] = d \/ Returned(d))
      BY <3>1 DEF Documents, Kept
    <3>4. w \in Workers /\ d # 0
      BY <3>3, Sizes
    <3> QED
      BY <2>6, <2>8, <2>16, <3>1, <3>2, <3>3, <3>4
  <2> QED
    BY <2>11, <2>12, <2>13, <2>14, <2>18, <2>19, <2>20 DEF Documents
<1> QED
  BY <1>1, <1>2

LEMMA ProcessDocumentStep ==
    ASSUME IInv, NEW v \in Workers, ProcessDocument(v)
    PROVE  IInv'
<1> USE DEF IInv, ProcessDocument, Goto, parameters
<1>1. PICK e, l : e = hand[v] /\ l = Len(returnDocuments) + 1
  OBVIOUS
<1>2. /\ e # 0 /\ e \in 1..MaxDocs /\ wpc[v] = "process" /\ mutex = v
  BY <1>1 DEF TypeOK, WorkersInStep
<1>3. Mine(v, e) /\ ~Queued(v, e) /\ ~Returned(e)
  BY <1>1, <1>2 DEF Documents, Owned, Once
<1>4. /\ returnDocuments \in Seq(1..MaxDocs) /\ returnDocuments' = Append(returnDocuments, e)
      /\ returnDocuments' \in Seq(1..MaxDocs)
  BY <1>1, <1>2 DEF TypeOK
<1>5. /\ DOMAIN returnDocuments' = DOMAIN returnDocuments \cup {l}
      /\ returnDocuments'[l] = e
      /\ \A i \in DOMAIN returnDocuments : returnDocuments'[i] = returnDocuments[i] /\ i # l
  BY <1>1, <1>4
<1>6. /\ hand' \in [Workers -> 0..MaxDocs] /\ hand'[v] = 0
      /\ \A w \in Workers \ {v} : hand'[w] = hand[w]
  <2>1. 0 \in 0..MaxDocs
    BY PoolAssumption
  <2> QED
    BY <2>1 DEF TypeOK
<1>7. /\ wpc'[v] = "yield" /\ \A w \in Workers \ {v} : wpc'[w] = wpc[w]
      /\ wpc' \in [Workers -> {"none", "loop", "pop", "lock", "process", "yield", "done", "failed"}]
  BY DEF TypeOK
<1>8. TypeOK'
  BY <1>4, <1>6, <1>7, PoolAssumption DEF TypeOK
<1>9. Position' /\ QueuesDrained' /\ ResultLacksOne'
  BY DEF Position, Ending, QueuesDrained, Drained, Pool, ResultLacksOne, Docs, Target
<1>10. WorkersInStep'
  BY <1>2, <1>6, <1>7, Sizes DEF WorkersInStep, Started, Spawning, Pool
<1>11. PoolTornDown'
  <2>1. \A w : Destroyed(w)' <=> Destroyed(w)
    BY DEF Destroyed
  <2> QED
    BY <1>2, <1>7, <2>1, Sizes DEF PoolTornDown, LocalsGone, Pool
<1>12. /\ \A d : Dealt(d)' <=> Dealt(d)
       /\ Docs' = Docs /\ Pool' = Pool /\ \A d : Target(d)' = Target(d)
       /\ \A w, d : Queued(w, d)' <=> Queued(w, d)
       /\ \A w, d : Mine(w, d)' <=> Mine(w, d)
  BY DEF Dealt, Spawning, Docs, Pool, Target, Queued, Mine
<1>13. \A d : Returned(d)' <=> Returned(d) \/ d = e
  BY <1>5 DEF Returned
<1>14. \A w \in Workers : ~Queued(w, e) /\ (w # v => hand[w] # e)
  BY <1>2, <1>3 DEF Documents, Owned, Mine
<1>15. Owned'
  BY <1>3, <1>6, <1>12, <1>13 DEF Documents, Owned, Mine
<1>16. Once'
  <2>1. \A i, j \in DOMAIN returnDocuments' : returnDocuments'[i] = returnDocuments'[j] => i = j
    <3>1. \A i \in DOMAIN returnDocuments : returnDocuments[i] # e
      BY <1>3 DEF Returned
    <3>2. \A i, j \in DOMAIN returnDocuments : returnDocuments[i] = returnDocuments[j] => i = j
      BY DEF Documents, Once
    <3> QED
      BY <1>5, <3>1, <3>2
  <2>2. ASSUME NEW w \in Workers, NEW d \in 1..MaxDocs
        PROVE  /\ Queued(w, d) => hand'[w] # d /\ ~Returned(d)'
               /\ hand'[w] = d => ~Returned(d)'
    <3>1. hand'[w] = d => hand[w] = d /\ w # v
      BY <1>6
    <3> QED
      BY <1>13, <1>14, <3>1 DEF Documents, Once
  <2>3. \A w \in Workers : \A i, j \in DOMAIN queue[w] : queue[w][i] = queue[w][j] => i = j
    BY DEF Documents, Once
  <2> QED
    BY <1>12, <2>1, <2>2, <2>3 DEF Once
<1>17. Kept'
  <2> SUFFICES ASSUME NEW d \in Docs, Dealt(d)
               PROVE  /\ Target(d) \in Pool
                      /\ Queued(Target(d), d) \/ hand'[Target(d)] = d \/ Returned(d)'
    BY <1>12 DEF Kept
  <2>1. Target(d) \in Pool /\ (Queued(Target(d), d) \/ hand[Target(d)] = d \/ Returned(d))
    BY DEF Documents, Kept
  <2>2. Target(d) \in Workers
    BY <2>1, Sizes
  <2> QED
    BY <1>1, <1>6, <1>13, <2>1, <2>2
<1> QED
  BY <1>8, <1>9, <1>10, <1>11, <1>15, <1>16, <1>17 DEF Documents

-----------------------------------------------------------------------------
(***************************************************************************)
(* The other steps of a worker.                                            *)
(***************************************************************************)

\* Worker v goes on to a label that has as much in hand, and does not leave the
\* end of its thread.
LEMMA WorkerGoesOn ==
    ASSUME IInv, NEW v \in Workers,
           NEW label \in {"loop", "pop", "lock", "process", "yield", "done", "failed"},
           wpc[v] \notin {"none", "done", "failed"},
           wpc[v] \in {"lock", "process", "failed"} <=> label \in {"lock", "process", "failed"},
           wpc' = [wpc EXCEPT ![v] = label],
           mutex' \in 0..MaxWorkers,
           \A w \in Workers : wpc'[w] = "process" <=> mutex' = w,
           label = "done" => killThread,
           threadYield' \in BOOLEAN,
           UNCHANGED <<parameters, pc, k, hand, queue, killThread, returnDocuments, moved>>
    PROVE  IInv'
<1> USE DEF IInv, parameters
<1>1. /\ wpc' \in [Workers -> {"none", "loop", "pop", "lock", "process", "yield", "done", "failed"}]
      /\ wpc'[v] = label /\ \A w \in Workers \ {v} : wpc'[w] = wpc[w]
  BY DEF TypeOK
<1>2. TypeOK'
  BY <1>1 DEF TypeOK
<1>3. Position' /\ QueuesDrained' /\ ResultLacksOne'
  BY DEF Position, Ending, QueuesDrained, Drained, Pool, ResultLacksOne, Docs, Target
<1>4. WorkersInStep'
  BY <1>1 DEF WorkersInStep, Started, Spawning, Pool
<1>5. PoolTornDown'
  <2>1. \A w : Destroyed(w)' <=> Destroyed(w)
    BY DEF Destroyed
  <2> QED
    BY <1>1, <2>1, Sizes DEF PoolTornDown, LocalsGone, Pool
<1>6. Documents'
  BY SameDocuments DEF Dealt, Spawning
<1> QED
  BY <1>2, <1>3, <1>4, <1>5, <1>6

LEMMA OtherWorkerStep ==
    ASSUME IInv, NEW v \in Workers,
           CheckKill(v) \/ Lock(v) \/ ProcessThrows(v) \/ Yield(v)
    PROVE  IInv'
<1> USE DEF IInv, Goto
<1>1. /\ \A w \in Workers : (wpc[w] = "process" <=> mutex = w) /\ w # 0
      /\ mutex \in 0..MaxWorkers /\ threadYield \in BOOLEAN /\ v \in 0..MaxWorkers
      /\ DOMAIN wpc = Workers
  BY Sizes, PoolAssumption DEF WorkersInStep, TypeOK, Workers
<1>2. CASE CheckKill(v)
  <2> DEFINE label == IF killThread THEN "done" ELSE "pop"
  <2>1. \A w \in Workers : wpc'[w] = "process" <=> mutex' = w
    BY <1>1, <1>2 DEF CheckKill
  <2> QED
    BY <1>1, <1>2, <2>1, WorkerGoesOn DEF CheckKill
<1>3. CASE Lock(v)
  <2>1. \A w \in Workers : wpc'[w] = "process" <=> mutex' = w
    BY <1>1, <1>3 DEF Lock
  <2> QED
    BY <1>1, <1>3, <2>1, WorkerGoesOn DEF Lock
<1>4. CASE ProcessThrows(v)
  <2>1. \A w \in Workers : wpc'[w] = "process" <=> mutex' = w
    BY <1>1, <1>4 DEF ProcessThrows
  <2>2. mutex' \in 0..MaxWorkers
    BY <1>4, PoolAssumption DEF ProcessThrows
  <2> QED
    BY <1>1, <1>4, <2>1, <2>2, WorkerGoesOn DEF ProcessThrows
<1>5. CASE Yield(v)
  <2>1. \A w \in Workers : wpc'[w] = "process" <=> mutex' = w
    BY <1>1, <1>5 DEF Yield
  <2>2. threadYield' \in BOOLEAN
    BY <1>1, <1>5 DEF Yield
  <2> QED
    BY <1>1, <1>5, <2>1, <2>2, WorkerGoesOn DEF Yield
<1> QED
  BY <1>2, <1>3, <1>4, <1>5

-----------------------------------------------------------------------------
(***************************************************************************)
(* The theorems.                                                           *)
(***************************************************************************)
LEMMA NextStep == IInv /\ [Next]_vars => IInv'
<1> SUFFICES ASSUME IInv, [Next]_vars PROVE IInv'
  OBVIOUS
<1>1. CASE Caller
  BY <1>1, SpawnStep, SpawnedStep, PushStep, PushWithoutWorkersStep, PushedStep, SpinStep,
     KillStep, ReleaseStep, ReturnStep, DestroyQueueStep, WaitFutureStep, FinishStep,
     SpawnFailsStep, UnwoundStep, DestroyLocalsStep, RaceStep
  DEF Caller
<1>2. CASE \E w \in Workers : Worker(w)
  BY <1>2, PopStep, ProcessDocumentStep, OtherWorkerStep DEF Worker
<1>3. CASE UNCHANGED vars
  <2> USE <1>3 DEF vars, parameters
  <2>1. TypeOK' /\ Position' /\ WorkersInStep' /\ QueuesDrained' /\ PoolTornDown' /\ ResultLacksOne'
    BY DEF IInv, TypeOK, Position, Ending, WorkersInStep, Started, Spawning, QueuesDrained, Drained,
           PoolTornDown, Destroyed, LocalsGone, ResultLacksOne, Pool, Docs, Target
  <2>2. Documents'
    BY SameDocuments DEF IInv, Dealt, Spawning
  <2> QED
    BY <2>1, <2>2 DEF IInv
<1> QED
  BY <1>1, <1>2, <1>3 DEF Next

\* The invariant holds in every state of every call.
THEOREM Inductive == Spec => []IInv
BY Initially, NextStep, PTL DEF Spec

\* Type correctness of the caller, the workers, the queues and the result.
THEOREM TypeCorrect == Spec => []TypeOK
<1>1. IInv => TypeOK
  BY DEF IInv
<1> QED
  BY <1>1, Inductive, PTL

\* The scoped_lock: ProcessDocument is run by one worker at a time, so that the
\* model of the HF extractor and returnDocuments need no lock of their own.
THEOREM OneDocumentAtATime == Spec => []ProcessedAlone
<1>1. IInv => ProcessedAlone
  BY DEF IInv, WorkersInStep, ProcessedAlone
<1> QED
  BY <1>1, Inductive, PTL

\* The locals go before ~threadPool has waited for the workers: by then no worker
\* has more than the document in its hand, which is all it can lock the destroyed
\* mutex for; and none outlives its place in the pool, or the frame of the call.
THEOREM TornDownInOrder == Spec => []PoolTornDown
<1>1. IInv => PoolTornDown
  BY DEF IInv
<1> QED
  BY <1>1, Inductive, PTL

LEMMA PlacesAre ==
    ASSUME NEW d, NEW x
    PROVE  x \in Places(d) <=>
              \/ \E w \in Pool : \E i \in DOMAIN queue[w] : queue[w][i] = d /\ x = <<"queue", w, i>>
              \/ \E w \in Pool : hand[w] = d /\ x = <<"hand", w>>
              \/ \E i \in DOMAIN returnDocuments : returnDocuments[i] = d /\ x = <<"returned", i>>
<1> DEFINE inQueue(w) == {<<"queue", w, i>> : i \in {j \in DOMAIN queue[w] : queue[w][j] = d}}
           inHand == {<<"hand", w>> : w \in {v \in Pool : hand[v] = d}}
           inResult == {<<"returned", i>> : i \in {j \in DOMAIN returnDocuments : returnDocuments[j] = d}}
<1>1. x \in Places(d) <=> x \in UNION {inQueue(w) : w \in Pool} \/ x \in inHand \/ x \in inResult
  BY DEF Places
<1>2. x \in UNION {inQueue(w) : w \in Pool} <=>
        \E w \in Pool : \E i \in DOMAIN queue[w] : queue[w][i] = d /\ x = <<"queue", w, i>>
  <2>1. \A w : x \in inQueue(w) <=> \E i \in DOMAIN queue[w] : queue[w][i] = d /\ x = <<"queue", w, i>>
    OBVIOUS
  <2> HIDE DEF inQueue
  <2>2. x \in UNION {inQueue(w) : w \in Pool} <=> \E w \in Pool : x \in inQueue(w)
    OBVIOUS
  <2> QED
    BY <2>1, <2>2
<1>3. x \in inHand <=> \E w \in Pool : hand[w] = d /\ x = <<"hand", w>>
  OBVIOUS
<1>4. x \in inResult <=>
        \E i \in DOMAIN returnDocuments : returnDocuments[i] = d /\ x = <<"returned", i>>
  OBVIOUS
<1> QED
  BY <1>1, <1>2, <1>3, <1>4

LEMMA PlacedOnce ==
    ASSUME IInv, NEW d \in Docs, Dealt(d)
    PROVE  \E x : Places(d) = {x}
<1> USE DEF IInv
<1> DEFINE v == Target(d)
<1>1. v \in Pool /\ (Queued(v, d) \/ hand[v] = d \/ Returned(d))
  BY DEF Documents, Kept
<1>2. Pool \subseteq Workers /\ d \in 1..MaxDocs
  BY Sizes
<1>3. /\ \A w \in Pool : Queued(w, d) => w = v
      /\ \A w \in Pool : hand[w] = d => w = v
  BY <1>2 DEF Documents, Owned, Mine
<1>4. /\ Queued(v, d) => hand[v] # d /\ ~Returned(d)
      /\ hand[v] = d => ~Returned(d)
  BY <1>1, <1>2 DEF Documents, Once
<1> HIDE DEF v
<1>5. CASE Queued(v, d)
  <2>1. PICK i \in DOMAIN queue[v] : queue[v][i] = d
    BY <1>5 DEF Queued
  <2>2. \A j \in DOMAIN queue[v] : queue[v][j] = d => j = i
    BY <1>1, <1>2, <2>1 DEF Documents, Once
  <2>3. ASSUME NEW x PROVE x \in Places(d) <=> x = <<"queue", v, i>>
    BY <1>1, <1>3, <1>4, <1>5, <2>1, <2>2, PlacesAre DEF Returned, Queued
  <2>4. Places(d) = {<<"queue", v, i>>}
    BY <2>3
  <2> QED
    BY <2>4
<1>6. CASE hand[v] = d
  <2>1. ~Queued(v, d)
    BY <1>4, <1>6
  <2>2. ASSUME NEW x PROVE x \in Places(d) <=> x = <<"hand", v>>
    BY <1>1, <1>3, <1>4, <1>6, <2>1, PlacesAre DEF Queued, Returned
  <2>3. Places(d) = {<<"hand", v>>}
    BY <2>2
  <2> QED
    BY <2>3
<1>7. CASE Returned(d)
  <2>1. PICK i \in DOMAIN returnDocuments : returnDocuments[i] = d
    BY <1>7 DEF Returned
  <2>2. \A j \in DOMAIN returnDocuments : returnDocuments[j] = d => j = i
    BY <2>1 DEF Documents, Once
  <2>3. ~Queued(v, d) /\ hand[v] # d
    BY <1>4, <1>7
  <2>4. ASSUME NEW x PROVE x \in Places(d) <=> x = <<"returned", i>>
    BY <1>3, <2>1, <2>2, <2>3, PlacesAre DEF Queued
  <2>5. Places(d) = {<<"returned", i>>}
    BY <2>4
  <2> QED
    BY <2>5
<1> QED
  BY <1>1, <1>5, <1>6, <1>7

LEMMA PlacedNowhere ==
    ASSUME IInv, NEW d \in Docs, ~Dealt(d)
    PROVE  Places(d) = {}
<1>1. Pool \subseteq Workers /\ d \in 1..MaxDocs
  BY Sizes DEF IInv
<1>2. ~Returned(d) /\ \A w \in Pool : ~Queued(w, d) /\ hand[w] # d
  BY <1>1 DEF IInv, Documents, Owned, Mine
<1>3. ASSUME NEW x PROVE x \notin Places(d)
  BY <1>2, PlacesAre DEF Queued, Returned
<1> QED
  BY <1>3

\* Dealing out, taking and returning documents neither loses nor doubles one:
\* every document dealt out is in one queue, one hand or the result, once.
THEOREM NothingLostOrDoubled == Spec => []OnePlace
<1>1. IInv => OnePlace
  <2> SUFFICES ASSUME IInv, NEW d \in Docs
               PROVE  Cardinality(Places(d)) =
                        IF pc \in {"spawn", "trapped", "unwind", "threw"} \/ (pc = "push" /\ d >= k)
                          THEN 0 ELSE 1
    BY DEF OnePlace
  <2>1. Dealt(d) <=> ~(pc \in {"spawn", "trapped", "unwind", "threw"} \/ (pc = "push" /\ d >= k))
    BY Sizes DEF IInv, Dealt, Spawning
  <2>2. Dealt(d) => Cardinality(Places(d)) = 1
    BY PlacedOnce, FS_Singleton
  <2>3. ~Dealt(d) => Cardinality(Places(d)) = 0
    BY PlacedNowhere, FS_EmptySet
  <2> QED
    BY <2>1, <2>2, <2>3
<1> QED
  BY <1>1, Inductive, PTL

LEMMA AtMostOne ==
    ASSUME NEW S, \A x, y \in S : x = y
    PROVE  Cardinality(S) <= 1
<1>1. CASE S = {}
  BY <1>1, FS_EmptySet
<1>2. CASE S # {}
  <2>1. PICK x : S = {x}
    BY <1>2
  <2> QED
    BY <2>1, FS_Singleton
<1> QED
  BY <1>1, <1>2

\* A call returns all documents but, of each worker, the one it had in hand: in
\* the caller's storage only if it threw, moved out also if it was still at it.
THEOREM AtMostOneLostEach == Spec => []LosesOnlyInHand
<1>1. IInv => LosesOnlyInHand
  <2> SUFFICES ASSUME IInv, pc = "returned", NEW w \in Pool
               PROVE  Cardinality({d \in Docs : Target(d) = w /\ d \notin Elements(Result)})
                        <= IF elided /\ wpc[w] = "done" THEN 0 ELSE 1
    BY DEF LosesOnlyInHand
  <2> DEFINE lost == {d \in Docs : Target(d) = w /\ d \notin Elements(Result)}
  <2>1. w \in Workers
    BY Sizes DEF IInv
  <2>2. CASE elided
    <3>1. \A d \in lost : hand[w] = d
      <4>1. \A d : d \notin Elements(Result) => ~Returned(d)
        BY <2>2 DEF Result, Elements, Returned
      <4>2. \A d : ~Queued(w, d)
        BY DEF IInv, QueuesDrained, Drained, Ending, Queued
      <4> QED
        BY <4>1, <4>2 DEF IInv, Documents, Kept, Dealt, Spawning
    <3>2. wpc[w] = "done" => lost = {}
      <4>1. wpc[w] = "done" => hand[w] = 0
        BY <2>1 DEF IInv, WorkersInStep
      <4> QED
        BY <3>1, <4>1, Sizes DEF IInv
    <3>3. Cardinality(lost) <= 1
      BY <3>1, AtMostOne
    <3> QED
      BY <2>2, <3>2, <3>3, FS_EmptySet
  <2>3. CASE ~elided
    <3>1. \A d, e \in lost : d = e
      BY <2>3 DEF IInv, ResultLacksOne, Result
    <3> QED
      BY <2>3, <3>1, AtMostOne
  <2> QED
    BY <2>2, <2>3
<1> QED
  BY <1>1, Inductive, PTL
-----------------------------------------------------------------------------
(***************************************************************************)
(* What becomes of a call that cannot go well.                             *)
(***************************************************************************)

(***************************************************************************)
(* With ProcessDocument overridden in Python no call that has documents    *)
(* ends, nor is any document processed: a worker needs the interpreter     *)
(* lock, and the caller holds it until all of them are done.               *)
(***************************************************************************)
OverriddenNeverReturns ==
    extractor = "Python" /\ docs > 0 => pc # "returned" /\ returnDocuments = <<>>

HeldUp ==
    extractor = "Python" /\ docs > 0 =>
        /\ pc # "returned"
        /\ returnDocuments = <<>>
        /\ \A w \in Workers : wpc[w] # "failed"

\* The last future is ready, so that the worker of the first document has ended:
\* with no document returned and none thrown away it has nowhere to be.
LEMMA HeldUpAtTheEnd ==
    ASSUME IInv, HeldUp, extractor = "Python", docs > 0
    PROVE  ~Finish
<1> SUFFICES ASSUME Finish PROVE FALSE
  OBVIOUS
<1> USE DEF IInv
<1>1. 1 \in Docs /\ 1 \in 1..MaxDocs /\ Dealt(1)
  BY Sizes DEF TypeOK, Docs, Dealt, Spawning, Finish
<1>2. PICK w : w = Target(1)
  OBVIOUS
<1>3. w \in Pool /\ w \in Workers /\ (Queued(w, 1) \/ hand[w] = 1 \/ Returned(1))
  BY <1>1, <1>2, Sizes DEF Documents, Kept
<1>4. ~Queued(w, 1)
  BY <1>3 DEF QueuesDrained, Drained, Ending, Queued, Finish
<1>5. ~Returned(1)
  BY DEF HeldUp, Returned
<1>6. wpc[w] \in {"lock", "process", "failed"}
  BY <1>3, <1>4, <1>5 DEF WorkersInStep
<1>7. Destroyed(w)
  BY <1>3, Sizes DEF Finish, Destroyed, TypeOK, Pool
<1>8. wpc[w] \in {"done", "failed"}
  BY <1>3, <1>6, <1>7 DEF PoolTornDown, Finish
<1> QED
  BY <1>3, <1>6, <1>8 DEF HeldUp

LEMMA HeldUpStep == IInv /\ HeldUp /\ [Next]_vars => HeldUp'
<1> SUFFICES ASSUME IInv, HeldUp, [Next]_vars, (extractor = "Python" /\ docs > 0)'
             PROVE  /\ pc' # "returned" /\ returnDocuments' = <<>>
                    /\ \A w \in Workers : wpc'[w] # "failed"
  BY DEF HeldUp
<1>1. UNCHANGED parameters
  BY DEF Next, Caller, Worker, vars, parameters, Spawn, Spawned, Push, PushWithoutWorkers, Pushed,
         Spin, Kill, Release, Return, DestroyLocals, Race, DestroyQueue, WaitFuture, Finish, CheckKill, Pop, Lock,
         ProcessDocument, ProcessThrows, Yield, SpawnFails, Unwound
<1>2. extractor = "Python" /\ docs > 0
  BY <1>1 DEF parameters
<1>3. pc # "returned" /\ returnDocuments = <<>> /\ \A w \in Workers : wpc[w] # "failed"
  BY <1>2 DEF HeldUp
<1>4. ~Finish
  BY <1>2, HeldUpAtTheEnd
<1>5. \A w \in Workers : ~ProcessDocument(w) /\ ~ProcessThrows(w)
  BY <1>2, <1>3 DEF ProcessDocument, ProcessThrows, InterpreterFree
<1>6. CASE Caller
  <2>1. returnDocuments' = <<>> /\ pc' # "returned"
    BY <1>3, <1>4, <1>6
    DEF Caller, Spawn, Spawned, Push, PushWithoutWorkers, Pushed, Spin, Kill, Release, Return,
        DestroyLocals, Race, DestroyQueue, WaitFuture, SpawnFails, Unwound
  <2>2. wpc' = wpc \/ wpc' = [wpc EXCEPT ![k] = "loop"]
    BY <1>4, <1>6
    DEF Caller, Spawn, Spawned, Push, PushWithoutWorkers, Pushed, Spin, Kill, Release, Return,
        DestroyLocals, Race, DestroyQueue, WaitFuture, SpawnFails, Unwound
  <2> QED
    BY <1>3, <2>1, <2>2 DEF IInv, TypeOK
<1>7. ASSUME NEW v \in Workers, CheckKill(v) \/ Pop(v) \/ Lock(v) \/ Yield(v)
      PROVE  /\ pc' = pc /\ returnDocuments' = returnDocuments
             /\ \A w \in Workers : wpc'[w] # "failed"
  <2>1. \E label \in {"loop", "pop", "lock", "process", "yield", "done"} :
            wpc' = [wpc EXCEPT ![v] = label]
    BY <1>7 DEF CheckKill, Pop, Lock, Yield, Goto
  <2>2. pc' = pc /\ returnDocuments' = returnDocuments
    BY <1>7 DEF CheckKill, Pop, Lock, Yield
  <2> QED
    BY <1>3, <2>1, <2>2 DEF IInv, TypeOK
<1>8. CASE UNCHANGED vars
  BY <1>3, <1>8 DEF vars
<1> QED
  BY <1>3, <1>5, <1>6, <1>7, <1>8 DEF Next, Worker

\* A method overridden in Python is never called: every such call hangs for good.
THEOREM OverriddenCallNeverReturns == Spec => []OverriddenNeverReturns
<1>1. Init => HeldUp
  BY DEF Init, HeldUp
<1>2. HeldUp => OverriddenNeverReturns
  BY DEF HeldUp, OverriddenNeverReturns
<1> QED
  BY <1>1, <1>2, HeldUpStep, Inductive, PTL DEF Spec

-----------------------------------------------------------------------------
(***************************************************************************)
(* A worker that threw takes nothing from its queue any more, and the      *)
(* caller spins until the queue is empty: if another document was, or is   *)
(* still, dealt out to it, the call never ends.                            *)
(***************************************************************************)
Stuck == \E w \in Pool : wpc[w] = "failed" /\ queue[w] # <<>>

LEMMA StuckBeforeTheEnd == IInv /\ Stuck => pc \notin Ending
BY DEF IInv, Stuck, QueuesDrained, Drained

LEMMA StuckStep == IInv /\ Stuck /\ [Next]_vars => Stuck'
<1> SUFFICES ASSUME IInv, Stuck, [Next]_vars PROVE Stuck'
  OBVIOUS
<1>1. PICK w \in Pool : wpc[w] = "failed" /\ queue[w] # <<>>
  BY DEF Stuck
<1> SUFFICES maxWorkers' = maxWorkers /\ wpc'[w] = "failed" /\ queue'[w] # <<>>
  BY <1>1 DEF Stuck, Pool
<1>2. /\ w \in Workers /\ queue[w] \in Seq(1..MaxDocs)
      /\ DOMAIN wpc = Workers /\ DOMAIN queue = Workers
  BY <1>1, Sizes DEF IInv, TypeOK
<1>3. maxWorkers' = maxWorkers
  BY DEF Next, Caller, Worker, vars, parameters, Spawn, Spawned, Push, PushWithoutWorkers, Pushed,
         Spin, Kill, Release, Return, DestroyLocals, Race, DestroyQueue, WaitFuture, Finish, CheckKill, Pop, Lock,
         ProcessDocument, ProcessThrows, Yield, SpawnFails, Unwound
<1>4. CASE Spawn
  <2>1. w # k
    BY <1>1, <1>2, <1>4 DEF Spawn, IInv, WorkersInStep, Started, Spawning
  <2> QED
    BY <1>1, <1>2, <1>3, <1>4, <2>1 DEF Spawn
<1>5. CASE Push
  <2>1. wpc' = wpc /\ queue' = [queue EXCEPT ![Target(k)] = Append(@, k)]
    BY <1>5 DEF Push
  <2>2. queue'[w] = queue[w] \/ queue'[w] = Append(queue[w], k)
    BY <1>2, <2>1
  <2>3. Append(queue[w], k) # <<>>
    BY <1>2
  <2> QED
    BY <1>1, <1>3, <2>1, <2>2, <2>3
<1>6. ASSUME NEW v \in Workers, Worker(v)
      PROVE  wpc'[w] = "failed" /\ queue'[w] = queue[w]
  <2>1. v # w
    BY <1>1, <1>6 DEF Worker, CheckKill, Pop, Lock, ProcessDocument, ProcessThrows, Yield
  <2>2. wpc' = [wpc EXCEPT ![v] = wpc'[v]]
    BY <1>2, <1>6 DEF Worker, CheckKill, Pop, Lock, ProcessDocument, ProcessThrows, Yield, Goto,
                      IInv, TypeOK
  <2>3. queue' = queue \/ queue' = [queue EXCEPT ![v] = Tail(@)]
    BY <1>6 DEF Worker, CheckKill, Pop, Lock, ProcessDocument, ProcessThrows, Yield
  <2> QED
    BY <1>1, <1>2, <2>1, <2>2, <2>3
<1>7. CASE Spawned \/ PushWithoutWorkers \/ Pushed \/ Spin \/ Kill \/ Release \/ Return
           \/ SpawnFails \/ Unwound \/ DestroyLocals \/ Race \/ DestroyQueue \/ WaitFuture \/ Finish \/ UNCHANGED vars
  <2>1. wpc' = wpc /\ queue' = queue
    BY <1>7 DEF vars, Spawned, PushWithoutWorkers, Pushed, Spin, Kill, Release, Return,
                SpawnFails, Unwound, DestroyLocals, Race, DestroyQueue, WaitFuture, Finish
  <2> QED
    BY <1>1, <1>3, <2>1
<1> QED
  BY <1>1, <1>3, <1>4, <1>5, <1>6, <1>7 DEF Next, Caller

\* One document that throws hangs the call for good unless it was the last that
\* its worker was, or will be, given.
THEOREM ThrowHangsCall == Spec => [](Stuck => [](pc # "returned"))
<1>1. IInv /\ Stuck => pc # "returned"
  BY StuckBeforeTheEnd DEF Ending
<1> QED
  BY <1>1, StuckStep, Inductive, PTL DEF Spec

-----------------------------------------------------------------------------
(***************************************************************************)
(* If a thread cannot be started, the exception unwinds the call without   *)
(* setting killThread, and ~threadPool waits for the workers it has.       *)
(***************************************************************************)
Stranded == pc = "unwind" /\ k > 1

LEMMA StrandedStep == IInv /\ Stranded /\ [Next]_vars => Stranded'
<1> SUFFICES ASSUME IInv, Stranded, [Next]_vars PROVE Stranded'
  OBVIOUS
<1>1. ~Unwound
  <2>1. 1 \in 1..(k - 1) /\ 1 \in Pool /\ 1 \in Workers
    BY Sizes DEF IInv, TypeOK, Stranded, Pool
  <2>2. wpc[1] # "failed"
    BY <2>1, NothingYet DEF IInv, WorkersInStep, Stranded, Spawning
  <2>3. wpc[1] # "done"
    BY <2>1 DEF IInv, WorkersInStep, Position, Ending, Stranded
  <2> QED
    BY <2>1, <2>2, <2>3 DEF Unwound
<1>2. CASE Caller
  BY <1>1, <1>2 DEF Stranded, Caller, Spawn, SpawnFails, Spawned, Push, PushWithoutWorkers, Pushed,
     Spin, Kill, Release, Return, DestroyLocals, Race, DestroyQueue, WaitFuture, Finish
<1>3. ASSUME NEW v \in Workers, Worker(v) PROVE Stranded'
  BY <1>3 DEF Stranded, Worker, CheckKill, Pop, Lock, ProcessDocument, ProcessThrows, Yield
<1>4. CASE UNCHANGED vars
  BY <1>4 DEF vars, Stranded
<1> QED
  BY <1>2, <1>3, <1>4 DEF Next

\* A thread that cannot be started, other than the first, hangs the call for good:
\* the exception never reaches the caller, as nobody tells the workers to end.
THEOREM FailedStartHangsCall == Spec => [](Stranded => [](pc = "unwind"))
<1>1. Stranded => pc = "unwind"
  BY DEF Stranded
<1> QED
  BY <1>1, StrandedStep, Inductive, PTL DEF Spec

-----------------------------------------------------------------------------
(***************************************************************************)
(* What a call that ends lacks: every document that threw, and, when the   *)
(* compiler builds the result in the caller's storage, no other.           *)
(***************************************************************************)
LacksWhatThrew ==
    pc = "returned" =>
        /\ \A w \in Pool : wpc[w] = "failed" => hand[w] \in Docs /\ hand[w] \notin Elements(Result)
        /\ elided => \A d \in Docs \ Elements(Result) :
                        \E w \in Pool : wpc[w] = "failed" /\ hand[w] = d

\* Nothing is moved out that was not pushed back.
PartOfResult ==
    pc \in {"locals", "destroy", "wait", "returned"} => Elements(moved) \subseteq Elements(returnDocuments)

LEMMA PartOfResultStep == IInv /\ PartOfResult /\ [Next]_vars => PartOfResult'
<1> SUFFICES ASSUME IInv, PartOfResult, [Next]_vars PROVE PartOfResult'
  OBVIOUS
<1>1. CASE Caller
  <2>1. CASE Return
    BY <2>1 DEF Return, PartOfResult, Elements
  <2>2. CASE ~Return
    BY <1>1, <2>2
    DEF Caller, PartOfResult, Elements, Spawn, Spawned, Push, PushWithoutWorkers, Pushed, Spin,
        Kill, Release, DestroyLocals, Race, DestroyQueue, WaitFuture, Finish,
        SpawnFails, Unwound
  <2> QED
    BY <2>1, <2>2
<1>2. ASSUME NEW v \in Workers, ProcessDocument(v) PROVE PartOfResult'
  <2>1. /\ pc' = pc /\ moved' = moved /\ returnDocuments \in Seq(1..MaxDocs)
        /\ returnDocuments' = Append(returnDocuments, hand[v])
    BY <1>2 DEF ProcessDocument, IInv, TypeOK
  <2>2. Elements(returnDocuments) \subseteq Elements(returnDocuments)'
    <3>1. /\ DOMAIN returnDocuments \subseteq DOMAIN returnDocuments'
          /\ \A i \in DOMAIN returnDocuments : returnDocuments'[i] = returnDocuments[i]
      BY <2>1
    <3> QED
      BY <3>1 DEF Elements
  <2>3. Elements(moved)' = Elements(moved)
    BY <2>1 DEF Elements
  <2> QED
    BY <2>1, <2>2, <2>3 DEF PartOfResult
<1>3. ASSUME NEW v \in Workers, CheckKill(v) \/ Pop(v) \/ Lock(v) \/ ProcessThrows(v) \/ Yield(v)
      PROVE  PartOfResult'
  BY <1>3 DEF CheckKill, Pop, Lock, ProcessThrows, Yield, PartOfResult, Elements
<1>4. CASE UNCHANGED vars
  BY <1>4 DEF vars, PartOfResult, Elements
<1> QED
  BY <1>1, <1>2, <1>3, <1>4 DEF Next, Worker

\* A call that ends has dropped exactly the documents that threw, if its result
\* is built in the caller's storage; one that was moved out lacks them too.
THEOREM DropsWhatThrew == Spec => []LacksWhatThrew
<1>1. Init => PartOfResult
  BY DEF Init, PartOfResult
<1>2. IInv /\ PartOfResult => LacksWhatThrew
  <2> SUFFICES ASSUME IInv, PartOfResult, pc = "returned"
               PROVE  /\ \A w \in Pool : wpc[w] = "failed" =>
                              hand[w] \in Docs /\ hand[w] \notin Elements(Result)
                      /\ elided => \A d \in Docs \ Elements(Result) :
                              \E w \in Pool : wpc[w] = "failed" /\ hand[w] = d
    BY DEF LacksWhatThrew
  <2> USE DEF IInv
  <2>1. Elements(Result) \subseteq Elements(returnDocuments)
    BY DEF PartOfResult, Result
  <2>2. \A d : d \in Elements(returnDocuments) <=> Returned(d)
    BY DEF Elements, Returned
  <2>3. ASSUME NEW w \in Pool, wpc[w] = "failed"
        PROVE  hand[w] \in Docs /\ hand[w] \notin Elements(Result)
    <3>1. w \in Workers /\ hand[w] # 0 /\ hand[w] \in 1..MaxDocs
      BY <2>3, Sizes DEF WorkersInStep, TypeOK
    <3>2. hand[w] \in Docs /\ ~Returned(hand[w])
      BY <3>1 DEF Documents, Owned, Once, Mine
    <3> QED
      BY <2>1, <2>2, <3>2
  <2>4. ASSUME elided, NEW d \in Docs \ Elements(Result)
        PROVE  \E w \in Pool : wpc[w] = "failed" /\ hand[w] = d
    <3>1. ~Returned(d)
      BY <2>2, <2>4 DEF Result
    <3>2. PICK w : w = Target(d)
      OBVIOUS
    <3>3. w \in Pool /\ (Queued(w, d) \/ hand[w] = d)
      BY <3>1, <3>2 DEF Documents, Kept, Dealt, Spawning
    <3>4. ~Queued(w, d)
      BY <3>3 DEF QueuesDrained, Drained, Ending, Queued
    <3>5. w \in Workers /\ d # 0
      BY <3>3, Sizes
    <3>6. wpc[w] \in {"lock", "process", "failed"}
      BY <3>3, <3>4, <3>5 DEF WorkersInStep
    <3>7. wpc[w] \in {"done", "failed"}
      BY <3>3, <3>6 DEF PoolTornDown, Destroyed
    <3> QED
      BY <3>3, <3>4, <3>6, <3>7
  <2> QED
    BY <2>3, <2>4
<1> QED
  BY <1>1, <1>2, PartOfResultStep, Inductive, PTL DEF Spec
=============================================================================
