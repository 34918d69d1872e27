-------------------------- MODULE DataLoaderProofs ---------------------------
(***************************************************************************)
(* For every number of workers, every listing and every counter width that *)
(* can hold the listing: the safety properties of DataLoader, and that it  *)
(* implements LoaderSpec.                                                  *)
(*                                                                         *)
(* The inductive invariant IInv adds to these what the code relies on      *)
(* without saying so: where the caller's loop index may be (Index), what   *)
(* the two loaded registers hold (Registers), that a file is accounted for *)
(* in exactly one place (InOrder, Accounted), and that a counter seen at   *)
(* zero after the constructor stays settled (SettledInv).                  *)
(***************************************************************************)
EXTENDS DataLoader, TLAPS

\* The files whose push has happened.
Pushed ==
    CASE pc \in {"spawn", "list", "syncPrefix", "sync"} -> 0
      [] pc = "push" -> k - 1
      [] pc \in {"incLoad", "incStore"} -> k
      [] OTHER -> IF threaded THEN files ELSE 0

After == {"ready", "wait", "drain", "release", "join", "gone"}

Index ==
    /\ pc = "spawn" => threaded /\ k \in Workers
    /\ pc \in {"spawn", "list"} => files = 0
    /\ pc = "list" => k = 1
    /\ pc \in {"push", "incLoad", "incStore"} => threaded /\ 1 <= k /\ k <= files + 1
    /\ pc \in {"incLoad", "incStore"} => k <= files
    /\ pc = "syncPrefix" => k = 1
    /\ pc \in {"syncPrefix", "sync"} => ~threaded /\ 1 <= k /\ k <= files + 1
    /\ pc \in {"wait", "drain", "join"} => 1 <= k /\ k <= Size + 1

Unthreaded == ~threaded => \A w \in Workers : wpc[w] = "none" /\ queue[w] = <<>>

\* A loaded value is still the counter's, unless the counter has raced.
Register(w) ==
    /\ pc = "incStore" /\ Target(k) = w /\ wpc[w] = "decStore" => raced[w]
    /\ ~raced[w] /\ pc = "incStore" /\ Target(k) = w => reg = remaining[w]
    /\ ~raced[w] /\ wpc[w] = "decStore" => wreg[w] = remaining[w]
Registers == \A w \in Workers : Register(w)

Bounded == \A w \in Workers : Outstanding(w) <= Pushed

\* A queue is in listing order, behind the file in the worker's hand; none of
\* these files has an outcome.
Waiting(w, f) == f \in Files /\ f <= Pushed /\ Target(f) = w /\ outcome[f] = "pending"
Ordered(w) ==
    /\ \A i \in DOMAIN queue[w] : Waiting(w, queue[w][i])
    /\ \A i, j \in DOMAIN queue[w] : i < j => queue[w][i] < queue[w][j]
    /\ Extracting(w) =>
          /\ Waiting(w, hand[w])
          /\ \A i \in DOMAIN queue[w] : hand[w] < queue[w][i]
InOrder == \A w \in Workers : Ordered(w)

\* A file without an outcome is in its queue or its worker's hand; a file that
\* threw has ended its worker.
InPlace(f) ==
    /\ f > Pushed => outcome[f] = "pending"
    /\ f <= Pushed /\ outcome[f] = "pending" =>
          \/ f \in Elements(queue[Target(f)])
          \/ Extracting(Target(f)) /\ hand[Target(f)] = f
    /\ outcome[f] = "threw" => wpc[Target(f)] = "failed"
Accounted == threaded => \A f \in Files : InPlace(f)

\* Without threads the caller's loop index separates the two kinds.
AccountedSync ==
    ~threaded => \A f \in Files :
        /\ pc \in {"list", "syncPrefix"} => outcome[f] = "pending"
        /\ pc = "sync" /\ f >= k => outcome[f] = "pending"
        /\ pc = "sync" /\ f < k => outcome[f] \in {"doc", "nothing"}
        /\ pc \in {"ready", "wait"} \/ result # NoResult =>
              (f <= files => outcome[f] \in {"doc", "nothing"})

Settled(w) == ~raced[w] => queue[w] = <<>> /\ ~InHand(w)

SettledInv ==
    /\ result # NoResult => pc \in After /\ \A w \in 1..Size : Settled(w)
    /\ pc \in {"wait", "drain"} => \A w \in 1..Size : w < k => Settled(w)
    /\ pc \in {"release", "join", "gone"} => \A w \in 1..Size : Settled(w)
    /\ kill => pc \in {"release", "join", "gone"}
    /\ ~alive => pc \in After \ {"ready", "wait"}
    /\ \A w \in Workers : wpc[w] \in {"suffix", "done"} => kill
    /\ \A w \in 1..Size : (pc = "join" /\ w < k) \/ pc = "gone" =>
                              wpc[w] \in {"none", "done", "failed"}

LibraryInv ==
    loader = "PDF" /\ ~kill =>
        \A w \in Workers : wpc[w] \in {"none", "prefix"} \/ library

ResultInv == result # NoResult /\ NoRace => Elements(result) = Documents

IInv ==
    /\ TypeOK
    /\ Index
    /\ Unthreaded
    /\ Registers
    /\ Bounded
    /\ CounterExact
    /\ InOrder
    /\ Accounted
    /\ AccountedSync
    /\ HandledOnce
    /\ SettledInv
    /\ LibraryInv
    /\ ResultInv

-----------------------------------------------------------------------------
(***************************************************************************)
(* The operators the model is built from.                                  *)
(***************************************************************************)
LEMMA TargetType == \A f \in Nat \ {0} : Target(f) \in Workers
BY LoaderAssumption DEF Target, Workers

LEMMA WordType ==
    /\ 0 \in Word
    /\ \A x \in Word : Increment(x) \in Word /\ Decrement(x) \in Word
    /\ \A x \in Word : Increment(Decrement(x)) = x
    /\ \A x \in Word : x > 0 => Decrement(x) = x - 1
    /\ 0..(MaxFiles + 1) \subseteq Word
BY LoaderAssumption DEF Word, Increment, Decrement

LEMMA FilesType == Files \subseteq 0..MaxFiles /\ Files \subseteq Nat \ {0}
BY LoaderAssumption DEF Files

LEMMA PopType ==
    ASSUME NEW S, NEW s \in Seq(S), s # <<>>
    PROVE  /\ Head(s) \in S
           /\ Head(s) = s[1]
           /\ Tail(s) \in Seq(S)
           /\ Len(s) > 0
           /\ Len(Tail(s)) = Len(s) - 1
           /\ \A i \in 1..(Len(s) - 1) : Tail(s)[i] = s[i + 1]
OBVIOUS

-----------------------------------------------------------------------------
(***************************************************************************)
(* What a step of one thread leaves alone.                                 *)
(***************************************************************************)
LEMMA WorkerFrame ==
    ASSUME IInv, NEW w \in Workers, Worker(w)
    PROVE  /\ UNCHANGED callerVars
           /\ UNCHANGED kill
           /\ threaded
           /\ wpc[w] # "none"
           /\ \A v \in Workers \ {w} :
                 /\ wpc'[v] = wpc[v]
                 /\ hand'[v] = hand[v]
                 /\ wreg'[v] = wreg[v]
                 /\ queue'[v] = queue[v]
                 /\ remaining'[v] = remaining[v]
           /\ \A v \in Workers : raced[v] => raced'[v]
<1> USE DEF IInv, TypeOK, Unthreaded, Goto, callerVars, sharedVars
<1>1. CASE Prefix(w) \/ CheckKill(w) \/ Yield(w) \/ Suffix(w)
  BY <1>1 DEF Prefix, CheckKill, Yield, Suffix
<1>2. CASE Pop(w)
  BY <1>2 DEF Pop
<1>3. CASE Extract(w)
  BY <1>3 DEF Extract, ExtractNothing, ExtractText, OpenPDF, ReadPage,
              ExtractThrows, AppendDocument
<1>4. CASE DecLoad(w) \/ DecStore(w)
  BY <1>4 DEF DecLoad, DecStore, NoteRace
<1> QED
  BY <1>1, <1>2, <1>3, <1>4 DEF Worker

-----------------------------------------------------------------------------
(***************************************************************************)
(* Each conjunct of IInv is preserved.                                     *)
(***************************************************************************)
LEMMA TypeStep == IInv /\ [Next]_vars => TypeOK'
<1> SUFFICES ASSUME IInv, [Next]_vars PROVE TypeOK'
  OBVIOUS
<1> USE DEF IInv, TypeOK, CallerLabels, WorkerLabels, Outcomes
<1>1. CASE Spawn
  BY <1>1, LoaderAssumption DEF Spawn, Index, workerVars, sharedVars, outputVars
<1>2. CASE EmptyPath
  BY <1>2, LoaderAssumption DEF EmptyPath, workerVars, sharedVars, outputVars
<1>3. CASE ListFiles
  BY <1>3, LoaderAssumption DEF ListFiles, workerVars, sharedVars, outputVars
<1>4. CASE SpawnThrows \/ ListThrows
  <2>1. /\ pc' = "drain" /\ k' = 1 /\ alive' = FALSE
        /\ UNCHANGED <<loader, threaded, files, reg, result, raced, workerVars, sharedVars, outputVars>>
    BY <1>4 DEF SpawnThrows, ListThrows, Unwind
  <2> QED
    BY <2>1, LoaderAssumption DEF workerVars, sharedVars, outputVars
<1>5. CASE Push
  BY <1>5, TargetType, LoaderAssumption, SMTT(60)
  DEF Push, Index, Files, workerVars, sharedVars, outputVars
<1>6. CASE IncLoad
  BY <1>6, TargetType, LoaderAssumption, SMTT(60)
  DEF IncLoad, NoteRace, Overlap, Index, workerVars, sharedVars, outputVars
<1>7. CASE IncStore
  BY <1>7, TargetType, WordType DEF IncStore, Index, workerVars, sharedVars, outputVars
<1>8. CASE InsertDone
  BY <1>8, LoaderAssumption DEF InsertDone, workerVars, sharedVars, outputVars
<1>9. CASE SyncPrefix
  BY <1>9, LoaderAssumption DEF SyncPrefix, workerVars, sharedVars, outputVars
<1>10. CASE SyncDocument
  BY <1>10, LoaderAssumption DEF SyncDocument, Index, Files, workerVars, sharedVars, outputVars
<1>11. CASE SyncNothing
  BY <1>11, LoaderAssumption DEF SyncNothing, Index, Files, workerVars, sharedVars, outputVars
<1>12. CASE SyncThrows
  BY <1>12, LoaderAssumption
  DEF SyncThrows, Unwind, Index, Files, workerVars, sharedVars, outputVars
<1>13. CASE SyncSuffix
  BY <1>13, LoaderAssumption DEF SyncSuffix, workerVars, sharedVars, outputVars
<1>14. CASE CallLoad
  BY <1>14, LoaderAssumption DEF CallLoad, workerVars, sharedVars, outputVars
<1>15. CASE WaitFinishWorkload
  BY <1>15, LoaderAssumption DEF WaitFinishWorkload, workerVars, sharedVars, outputVars
<1>16. CASE Load
  BY <1>16, LoaderAssumption DEF Load, Files, workerVars, sharedVars, outputVars
<1>17. CASE Destroy
  BY <1>17, LoaderAssumption DEF Destroy, Unwind, workerVars, sharedVars, outputVars
<1>18. CASE Drain
  BY <1>18, LoaderAssumption DEF Drain, workerVars, sharedVars, outputVars
<1>19. CASE KillThreads
  BY <1>19, LoaderAssumption DEF KillThreads, workerVars, sharedVars, outputVars
<1>20. CASE Release
  BY <1>20, LoaderAssumption DEF Release, workerVars, sharedVars, outputVars
<1>21. CASE Join
  BY <1>21, LoaderAssumption DEF Join, workerVars, sharedVars, outputVars
<1>22. CASE Destroyed
  BY <1>22, LoaderAssumption DEF Destroyed, workerVars, sharedVars, outputVars
<1>30. ASSUME NEW w \in Workers, Worker(w) PROVE TypeOK'
  <2> USE LoaderAssumption DEF Goto, callerVars, sharedVars, outputVars
  <2>1. CASE Prefix(w)
    BY <2>1 DEF Prefix
  <2>2. CASE CheckKill(w)
    BY <2>2 DEF CheckKill
  <2>3. CASE Pop(w)
    <3>1. CASE queue[w] = <<>>
      BY <2>3, <3>1 DEF Pop
    <3>2. CASE queue[w] # <<>>
      <4>1. Head(queue[w]) \in Files /\ Tail(queue[w]) \in Seq(Files)
        BY <3>2, PopType
      <4>2. /\ wpc' = [wpc EXCEPT ![w] = "extract"]
            /\ hand' = [hand EXCEPT ![w] = Head(queue[w])]
            /\ queue' = [queue EXCEPT ![w] = Tail(queue[w])]
        BY <2>3, <3>2 DEF Pop
      <4>a. wpc' \in [Workers -> WorkerLabels]
        BY <4>2
      <4>b. hand' \in [Workers -> 0..MaxFiles]
        BY <4>1, <4>2, FilesType
      <4>c. queue' \in [Workers -> Seq(Files)]
        BY <4>1, <4>2
      <4>3. UNCHANGED <<pages, wreg, remaining, kill, token, raced, callerVars, outputVars>>
        BY <2>3 DEF Pop
      <4> QED
        BY <4>a, <4>b, <4>c, <4>3
    <3> QED
      BY <3>1, <3>2
  <2>4. CASE ExtractNothing(w)
    BY <2>4 DEF ExtractNothing
  <2>5. CASE ExtractText(w)
    BY <2>5 DEF ExtractText
  <2>6. CASE OpenPDF(w)
    BY <2>6 DEF OpenPDF
  <2>7. CASE ReadPage(w)
    BY <2>7 DEF ReadPage
  <2>8. CASE ExtractThrows(w)
    <3>1. wpc' \in [Workers -> WorkerLabels] /\ pages' \in [Workers -> 0..MaxPages]
      BY <2>8 DEF ExtractThrows
    <3>2. outcome' \in [Files -> Outcomes]
      BY <2>8 DEF ExtractThrows
    <3> QED
      BY <2>8, <3>1, <3>2 DEF ExtractThrows
  <2>9. CASE AppendDocument(w)
    BY <2>9 DEF AppendDocument, InOrder, Ordered, Waiting, Extracting
  <2>10. CASE DecLoad(w)
    BY <2>10 DEF DecLoad, NoteRace, Overlap
  <2>11. CASE DecStore(w)
    BY <2>11, WordType DEF DecStore
  <2>12. CASE Yield(w)
    BY <2>12 DEF Yield
  <2>13. CASE Suffix(w)
    BY <2>13 DEF Suffix
  <2> QED
    BY <1>30, <2>1, <2>2, <2>3, <2>4, <2>5, <2>6, <2>7, <2>8, <2>9, <2>10, <2>11, <2>12, <2>13
    DEF Worker, Extract
<1>31. CASE UNCHANGED vars
  BY <1>31 DEF vars
<1> QED
  BY <1>1, <1>2, <1>3, <1>4, <1>5, <1>6, <1>7, <1>8, <1>9, <1>10, <1>11, <1>12, <1>13, <1>14, <1>15, <1>16, <1>17, <1>18, <1>19, <1>20, <1>21, <1>22, <1>30, <1>31
  DEF Next, Caller, Constructor, Destructor

-----------------------------------------------------------------------------
(***************************************************************************)
(* Most steps leave the queues, the counters and the outcomes alone: those *)
(* of the caller that are Quiet, and those of a worker without a file in   *)
(* its hand (Idle).  StepKinds leaves the others to be looked at.          *)
(***************************************************************************)
Counting == {"incLoad", "incStore"}

Quiet ==
    /\ UNCHANGED <<loader, threaded, workerVars, queue, remaining, data, outcome, raced>>
    /\ Pushed' = Pushed
    /\ UNCHANGED <<pc, k, reg>> \/ (pc \notin Counting /\ pc' \notin Counting)

Idle(w) ==
    /\ UNCHANGED <<callerVars, kill, hand, wreg, queue, remaining, data, outcome, raced>>
    /\ ~InHand(w) /\ ~InHand(w)'
    /\ \A v \in Workers \ {w} : wpc'[v] = wpc[v]
    /\ Pushed' = Pushed

\* A step inside callback() that leaves the file in the worker's hand ...
Reading(w) ==
    /\ UNCHANGED <<callerVars, kill, library, hand, wreg, queue, remaining, data, outcome, raced>>
    /\ Extracting(w) /\ Extracting(w)'
    /\ \A v \in Workers \ {w} : wpc'[v] = wpc[v]

\* ... and one that decides what becomes of it.
Deciding(w) ==
    /\ UNCHANGED <<callerVars, kill, library, hand, wreg, queue, remaining, raced>>
    /\ Extracting(w)
    /\ wpc'[w] \in {"decLoad", "failed"}
    /\ \A v \in Workers \ {w} : wpc'[v] = wpc[v]
    /\ \/ /\ outcome' = [outcome EXCEPT ![hand[w]] = "doc"]
          /\ data' = Append(data, hand[w])
       \/ /\ outcome' = [outcome EXCEPT ![hand[w]] = "nothing"]
          /\ data' = data
       \/ /\ outcome' = [outcome EXCEPT ![hand[w]] = "threw"]
          /\ data' = data
          /\ wpc'[w] = "failed"

LEMMA WorkerKinds ==
    ASSUME IInv, NEW w \in Workers, Worker(w)
    PROVE  \/ Idle(w)
           \/ Pop(w) /\ queue[w] # <<>>
           \/ Reading(w)
           \/ Deciding(w)
           \/ DecLoad(w)
           \/ DecStore(w)
<1> USE DEF IInv, TypeOK, Pushed, InHand, Extracting, Goto, callerVars, sharedVars, outputVars
<1>1. CASE Prefix(w)
  BY <1>1 DEF Idle, Prefix
<1>2. CASE CheckKill(w)
  BY <1>2 DEF Idle, CheckKill
<1>3. CASE Yield(w)
  BY <1>3 DEF Idle, Yield
<1>4. CASE Suffix(w)
  BY <1>4 DEF Idle, Suffix
<1>5. CASE Pop(w) /\ queue[w] = <<>>
  BY <1>5 DEF Idle, Pop
<1>6. CASE ExtractText(w)
  BY <1>6 DEF Reading, ExtractText
<1>7. CASE OpenPDF(w)
  BY <1>7 DEF Reading, OpenPDF
<1>8. CASE ReadPage(w)
  BY <1>8 DEF Reading, ReadPage
<1>9. CASE ExtractNothing(w)
  BY <1>9 DEF Deciding, ExtractNothing
<1>10. CASE ExtractThrows(w)
  BY <1>10 DEF Deciding, ExtractThrows
<1>11. CASE AppendDocument(w)
  BY <1>11 DEF Deciding, AppendDocument
<1> QED
  BY <1>1, <1>2, <1>3, <1>4, <1>5, <1>6, <1>7, <1>8, <1>9, <1>10, <1>11 DEF Worker, Extract

LEMMA StepKinds ==
    ASSUME IInv, [Next]_vars
    PROVE  \/ Quiet
           \/ Spawn \/ Push \/ IncLoad \/ IncStore
           \/ SyncDocument \/ SyncNothing \/ SyncThrows
           \/ \E w \in Workers : Worker(w)
<1> USE DEF IInv, TypeOK, Index
<1>1. CASE EmptyPath
  BY <1>1 DEF Quiet, Counting, Pushed, EmptyPath, sharedVars, outputVars
<1>2. CASE ListFiles
  BY <1>2 DEF Quiet, Counting, Pushed, ListFiles, sharedVars, outputVars
<1>3. CASE SpawnThrows \/ ListThrows
  BY <1>3 DEF Quiet, Counting, Pushed, SpawnThrows, ListThrows, Unwind, sharedVars, outputVars
<1>4. CASE InsertDone
  BY <1>4 DEF Quiet, Counting, Pushed, InsertDone, sharedVars, outputVars
<1>5. CASE SyncPrefix
  BY <1>5 DEF Quiet, Counting, Pushed, SyncPrefix, sharedVars, outputVars
<1>6. CASE SyncSuffix
  BY <1>6 DEF Quiet, Counting, Pushed, SyncSuffix, sharedVars, outputVars
<1>7. CASE CallLoad
  BY <1>7 DEF Quiet, Counting, Pushed, CallLoad, sharedVars, outputVars
<1>8. CASE WaitFinishWorkload
  BY <1>8 DEF Quiet, Counting, Pushed, WaitFinishWorkload, sharedVars, outputVars
<1>9. CASE Load
  BY <1>9 DEF Quiet, Counting, Pushed, Load, sharedVars, outputVars
<1>10. CASE Destroy
  BY <1>10 DEF Quiet, Counting, Pushed, Destroy, Unwind, sharedVars, outputVars
<1>11. CASE Drain
  BY <1>11 DEF Quiet, Counting, Pushed, Drain, sharedVars, outputVars
<1>12. CASE KillThreads
  BY <1>12 DEF Quiet, Counting, Pushed, KillThreads, sharedVars, outputVars
<1>13. CASE Release
  BY <1>13 DEF Quiet, Counting, Pushed, Release, sharedVars, outputVars
<1>14. CASE Join
  BY <1>14 DEF Quiet, Counting, Pushed, Join, sharedVars, outputVars
<1>15. CASE Destroyed
  BY <1>15 DEF Quiet, Counting, Pushed, Destroyed, sharedVars, outputVars
<1>31. CASE UNCHANGED vars
  BY <1>31 DEF vars, Quiet, Pushed, workerVars
<1> QED
  BY <1>1, <1>2, <1>3, <1>4, <1>5, <1>6, <1>7, <1>8, <1>9, <1>10, <1>11, <1>12, <1>13, <1>14, <1>15, <1>31
  DEF Next, Caller, Constructor, Destructor

LEMMA IndexStep == IInv /\ [Next]_vars => Index'
<1> SUFFICES ASSUME IInv, [Next]_vars PROVE Index'
  OBVIOUS
<1> USE LoaderAssumption DEF IInv, Index, TypeOK, Size, Workers
<1>1. CASE Spawn
  BY <1>1 DEF Spawn
<1>2. CASE EmptyPath
  BY <1>2 DEF EmptyPath
<1>3. CASE ListFiles
  BY <1>3 DEF ListFiles
<1>4. CASE SpawnThrows \/ ListThrows
  BY <1>4 DEF SpawnThrows, ListThrows, Unwind
<1>5. CASE Push
  BY <1>5 DEF Push
<1>6. CASE IncLoad
  BY <1>6 DEF IncLoad
<1>7. CASE IncStore
  BY <1>7 DEF IncStore
<1>8. CASE InsertDone
  BY <1>8 DEF InsertDone
<1>9. CASE SyncPrefix
  BY <1>9 DEF SyncPrefix
<1>10. CASE SyncDocument
  BY <1>10 DEF SyncDocument
<1>11. CASE SyncNothing
  BY <1>11 DEF SyncNothing
<1>12. CASE SyncThrows
  BY <1>12 DEF SyncThrows, Unwind
<1>13. CASE SyncSuffix
  BY <1>13 DEF SyncSuffix
<1>14. CASE CallLoad
  BY <1>14 DEF CallLoad
<1>15. CASE WaitFinishWorkload
  BY <1>15 DEF WaitFinishWorkload
<1>16. CASE Load
  BY <1>16 DEF Load
<1>17. CASE Destroy
  BY <1>17 DEF Destroy, Unwind
<1>18. CASE Drain
  BY <1>18 DEF Drain
<1>19. CASE KillThreads
  BY <1>19 DEF KillThreads
<1>20. CASE Release
  BY <1>20 DEF Release
<1>21. CASE Join
  BY <1>21 DEF Join
<1>22. CASE Destroyed
  BY <1>22 DEF Destroyed
<1>30. ASSUME NEW w \in Workers, Worker(w) PROVE Index'
  BY <1>30, WorkerFrame DEF callerVars
<1>31. CASE UNCHANGED vars
  BY <1>31 DEF vars
<1> QED
  BY <1>1, <1>2, <1>3, <1>4, <1>5, <1>6, <1>7, <1>8, <1>9, <1>10, <1>11, <1>12, <1>13, <1>14, <1>15, <1>16, <1>17, <1>18, <1>19, <1>20, <1>21, <1>22, <1>30, <1>31
  DEF Next, Caller, Constructor, Destructor

LEMMA UnthreadedStep == IInv /\ [Next]_vars => Unthreaded'
<1> SUFFICES ASSUME IInv, [Next]_vars PROVE Unthreaded'
  OBVIOUS
<1> USE DEF IInv, Unthreaded, Index
<1>1. CASE Quiet
  BY <1>1 DEF Quiet, workerVars
<1>2. CASE Spawn
  BY <1>2 DEF Spawn
<1>3. CASE Push
  BY <1>3 DEF Push
<1>4. CASE IncLoad
  BY <1>4 DEF IncLoad, workerVars, sharedVars
<1>5. CASE IncStore
  BY <1>5 DEF IncStore, workerVars
<1>6. CASE SyncDocument \/ SyncNothing \/ SyncThrows
  BY <1>6 DEF SyncDocument, SyncNothing, SyncThrows, workerVars, sharedVars
<1>7. ASSUME NEW w \in Workers, Worker(w) PROVE Unthreaded'
  BY <1>7, WorkerFrame DEF callerVars
<1> QED
  BY <1>1, <1>2, <1>3, <1>4, <1>5, <1>6, <1>7, StepKinds

-----------------------------------------------------------------------------
LEMMA Counts ==
    ASSUME IInv
    PROVE  /\ Pushed \in Nat
           /\ Pushed <= MaxFiles
           /\ \A w \in Workers :
                 /\ Outstanding(w) \in Nat
                 /\ Outstanding(w) \in Word
                 /\ Outstanding(w) + 1 \in Word
                 /\ remaining[w] \in Word
                 /\ InHand(w) => Outstanding(w) > 0
<1> USE LoaderAssumption DEF IInv, TypeOK
<1>1. Pushed \in Nat /\ Pushed <= MaxFiles
  BY DEF Pushed, Index
<1>2. ASSUME NEW w \in Workers
      PROVE  Outstanding(w) \in Nat /\ (InHand(w) => Outstanding(w) > 0)
  BY DEF Outstanding
<1>3. ASSUME NEW w \in Workers PROVE Outstanding(w) <= MaxFiles
  BY <1>1, <1>2 DEF Bounded
<1> QED
  BY <1>1, <1>2, <1>3, WordType

LEMMA PushedStep ==
    /\ IInv /\ Push => Pushed = k - 1 /\ Pushed' = k
    /\ IInv /\ IncLoad => Pushed = k /\ Pushed' = k
    /\ IInv /\ IncStore => Pushed = k /\ Pushed' = k
    /\ IInv /\ Spawn => Pushed = 0 /\ Pushed' = 0
    /\ IInv /\ (SyncDocument \/ SyncNothing \/ SyncThrows) => Pushed = 0 /\ Pushed' = 0
    /\ \A v \in Workers : IInv /\ Worker(v) => Pushed' = Pushed
<1>1. IInv /\ Push => Pushed = k - 1 /\ Pushed' = k
  BY DEF IInv, TypeOK, Index, Pushed, Push
<1>2. IInv /\ IncLoad => Pushed = k /\ Pushed' = k
  BY DEF IInv, TypeOK, Index, Pushed, IncLoad
<1>3. IInv /\ IncStore => Pushed = k /\ Pushed' = k
  BY DEF IInv, TypeOK, Index, Pushed, IncStore
<1>4. ASSUME IInv, Spawn PROVE Pushed = 0 /\ Pushed' = 0
  <2>1. pc' \in {"spawn", "list"}
    BY <1>4 DEF Spawn
  <2> QED
    BY <1>4, <2>1 DEF Spawn, Pushed
<1>5. IInv /\ SyncDocument => Pushed = 0 /\ Pushed' = 0
  BY DEF SyncDocument, Pushed
<1>6. IInv /\ SyncNothing => Pushed = 0 /\ Pushed' = 0
  BY DEF SyncNothing, Pushed
<1>7. IInv /\ SyncThrows => Pushed = 0 /\ Pushed' = 0
  BY DEF IInv, Index, SyncThrows, Unwind, Pushed
<1>8. ASSUME IInv, NEW v \in Workers, Worker(v) PROVE Pushed' = Pushed
  BY <1>8, WorkerFrame DEF callerVars, Pushed
<1> QED
  BY <1>1, <1>2, <1>3, <1>4, <1>5, <1>6, <1>7, <1>8

LEMMA CounterStep == IInv /\ [Next]_vars => CounterExact' /\ Registers' /\ Bounded'
<1> SUFFICES ASSUME IInv, [Next]_vars, NEW w \in Workers
             PROVE  /\ ~raced'[w] => Exact(w)'
                    /\ Register(w)'
                    /\ Outstanding(w)' <= Pushed'
  BY DEF CounterExact, Registers, Bounded
<1>a. /\ ~raced[w] => Exact(w)
      /\ Register(w)
      /\ Outstanding(w) <= Pushed
  BY DEF IInv, CounterExact, Registers, Bounded
<1>1. CASE Quiet
  BY <1>1, <1>a DEF Quiet, Counting, Exact, Register, Outstanding, InHand, Extracting,
                    Uncounted, workerVars
<1>2. CASE Spawn
  BY <1>2, <1>a, Counts, PushedStep, LoaderAssumption, SMTT(60)
  DEF IInv, TypeOK, Spawn, Exact, Register, Outstanding, InHand, Extracting, Uncounted,
      sharedVars
<1>3. CASE Push
  <2>1. k \in Files /\ k \in Nat \ {0}
    BY <1>3, LoaderAssumption DEF IInv, TypeOK, Index, Push, Files
  <2>2. Target(k) \in Workers
    BY <2>1, TargetType
  <2>3. /\ UNCHANGED <<k, wpc, wreg, remaining, raced>>
        /\ ~Uncounted(w)
        /\ pc' = "incLoad"
    BY <1>3 DEF Push, Uncounted, workerVars
  <2>4. CASE Target(k) = w
    <3>1. Len(queue'[w]) = Len(queue[w]) + 1
      BY <1>3, <2>1, <2>2, <2>4 DEF IInv, TypeOK, Push
    <3>2. Outstanding(w)' = Outstanding(w) + 1
      BY <2>3, <3>1 DEF IInv, TypeOK, Outstanding, InHand, Extracting
    <3>3. Decrement(Outstanding(w)') = Outstanding(w)
      BY <3>2, Counts DEF Decrement
    <3> QED
      <4>1. Uncounted(w)'
        BY <2>3, <2>4 DEF Uncounted
      <4>2. Outstanding(w)' <= Pushed'
        BY <1>3, <1>a, <2>1, <3>2, PushedStep, Counts
      <4>3. ~raced'[w] => Exact(w)'
        BY <1>a, <2>3, <3>3, <4>1 DEF Exact
      <4>4. Register(w)'
        BY <1>3, <1>a, <2>3 DEF Register
      <4> QED
        BY <4>2, <4>3, <4>4
  <2>5. CASE Target(k) # w
    <3>1. queue'[w] = queue[w]
      BY <1>3, <2>2, <2>5 DEF IInv, TypeOK, Push
    <3>2. Outstanding(w)' = Outstanding(w)
      BY <2>3, <3>1 DEF Outstanding, InHand, Extracting
    <3> QED
      <4>1. ~Uncounted(w)'
        BY <2>3, <2>5 DEF Uncounted
      <4>2. Outstanding(w)' <= Pushed'
        BY <1>3, <1>a, <2>1, <3>2, PushedStep, Counts
      <4>3. ~raced'[w] => Exact(w)'
        BY <1>a, <2>3, <3>2, <4>1 DEF Exact
      <4>4. Register(w)'
        BY <1>3, <1>a, <2>3 DEF Register
      <4> QED
        BY <4>2, <4>3, <4>4
  <2> QED
    BY <2>4, <2>5
<1>4. CASE IncLoad
  BY <1>4, <1>a, Counts, PushedStep
  DEF IInv, TypeOK, IncLoad, Exact, Register, Outstanding, InHand, Extracting, Uncounted,
      NoteRace, Overlap, workerVars, sharedVars
<1>5. CASE IncStore
  BY <1>5, <1>a, Counts, PushedStep, WordType
  DEF IInv, TypeOK, IncStore, Exact, Register, Outstanding, InHand, Extracting, Uncounted,
      workerVars
<1>6. CASE SyncDocument \/ SyncNothing \/ SyncThrows
  <2>1. /\ UNCHANGED <<workerVars, queue, remaining, raced>>
        /\ pc \notin Counting /\ pc' \notin Counting
    BY <1>6 DEF SyncDocument, SyncNothing, SyncThrows, Unwind, sharedVars, Counting
  <2> QED
    BY <1>6, <1>a, <2>1, PushedStep
    DEF Counting, Exact, Register, Outstanding, InHand, Extracting, Uncounted, workerVars
<1>7. ASSUME NEW v \in Workers, Worker(v)
      PROVE  /\ ~raced'[w] => Exact(w)'
             /\ Register(w)'
             /\ Outstanding(w)' <= Pushed'
  <2>1. CASE v # w
    <3>1. /\ UNCHANGED <<pc, k, reg>>
          /\ wpc'[w] = wpc[w] /\ wreg'[w] = wreg[w]
          /\ queue'[w] = queue[w] /\ remaining'[w] = remaining[w]
      BY <1>7, <2>1, WorkerFrame DEF callerVars
    <3>2. raced[w] => raced'[w]
      BY <1>7, WorkerFrame
    <3> QED
      BY <1>7, <1>a, <3>1, <3>2, PushedStep
      DEF Exact, Register, Outstanding, InHand, Extracting, Uncounted
  <2>2. CASE v = w /\ Idle(w)
    BY <1>7, <1>a, <2>2, PushedStep
    DEF Idle, callerVars, Exact, Register, Outstanding, InHand, Extracting, Uncounted
  <2>3. CASE v = w /\ Pop(w) /\ queue[w] # <<>>
    <3>1. Outstanding(w)' = Outstanding(w)
      BY <2>3, PopType DEF IInv, TypeOK, Pop, Goto, Outstanding, InHand, Extracting
    <3> QED
      BY <1>7, <1>a, <2>3, <3>1, PushedStep
      DEF IInv, TypeOK, Pop, Goto, Exact, Register, Uncounted, callerVars
  <2>4. CASE v = w /\ (Reading(w) \/ Deciding(w))
    <3>1. /\ UNCHANGED <<callerVars, queue, remaining, wreg, raced>>
          /\ InHand(w) /\ InHand(w)'
          /\ wpc[w] # "decStore" /\ wpc'[w] # "decStore"
      BY <2>4 DEF Reading, Deciding, InHand, Extracting
    <3> QED
      BY <1>7, <1>a, <3>1, PushedStep
      DEF Exact, Register, Outstanding, Uncounted, callerVars
  <2>5. CASE v = w /\ DecLoad(w)
    BY <1>7, <1>a, <2>5, PushedStep
    DEF IInv, TypeOK, DecLoad, Goto, Exact, Register, Outstanding, InHand, Extracting,
        Uncounted, NoteRace, Overlap, callerVars, sharedVars
  <2>6. CASE v = w /\ DecStore(w)
    <3>1. /\ UNCHANGED <<pc, k, reg, queue, raced>>
          /\ InHand(w) /\ ~InHand(w)'
          /\ wpc[w] = "decStore" /\ wpc'[w] = "yield"
          /\ remaining'[w] = Decrement(wreg[w])
      BY <2>6 DEF IInv, TypeOK, DecStore, Goto, InHand, Extracting, callerVars
    <3>2. Outstanding(w)' = Outstanding(w) - 1
      BY <3>1 DEF IInv, TypeOK, Outstanding
    <3>3. Decrement(Outstanding(w)) = Outstanding(w) - 1
      BY <3>1, Counts, WordType
    <3> QED
      BY <1>7, <1>a, <3>1, <3>2, <3>3, PushedStep, Counts DEF Exact, Register, Uncounted
  <2> QED
    BY <1>7, <2>1, <2>2, <2>3, <2>4, <2>5, <2>6, WorkerKinds
<1> QED
  BY <1>1, <1>2, <1>3, <1>4, <1>5, <1>6, <1>7, StepKinds

LEMMA InOrderStep == IInv /\ [Next]_vars => InOrder'
<1> SUFFICES ASSUME IInv, [Next]_vars, NEW w \in Workers PROVE Ordered(w)'
  BY DEF InOrder
<1>a. Ordered(w) /\ queue[w] \in Seq(Files) /\ Files \subseteq Nat /\ Pushed \in Nat
  BY FilesType, Counts DEF IInv, TypeOK, InOrder
<1>b. ASSUME UNCHANGED <<queue, outcome>>, Pushed' = Pushed,
             \/ wpc'[w] = wpc[w] /\ hand'[w] = hand[w]
             \/ ~Extracting(w)'
      PROVE  Ordered(w)'
  BY <1>a, <1>b DEF Ordered, Waiting, Extracting
<1>1. CASE Quiet
  BY <1>1, <1>b DEF Quiet, workerVars
<1>2. CASE Spawn
  <2>1. wpc'[w] = wpc[w] \/ wpc'[w] = "prefix"
    BY <1>2 DEF Spawn, IInv, TypeOK
  <2> QED
    BY <1>2, <1>b, <2>1, PushedStep DEF Spawn, Extracting, sharedVars, outputVars
<1>3. CASE Push
  <2>1. /\ UNCHANGED <<k, wpc, hand, outcome>>
        /\ Pushed' = k /\ Pushed = k - 1 /\ k \in Nat /\ k \in Files
    BY <1>3, PushedStep, LoaderAssumption
    DEF Push, workerVars, outputVars, IInv, TypeOK, Index, Files
  <2>2. \A f \in Files : Waiting(w, f) => Waiting(w, f)' /\ f < k
    BY <2>1, FilesType DEF Waiting
  <2>3. CASE Target(k) = w
    <3>1. queue'[w] = Append(queue[w], k)
      BY <1>3, <2>3 DEF Push, IInv, TypeOK
    <3>2. outcome[k] = "pending"
      BY <1>3, <2>1, Counts DEF IInv, Accounted, InPlace, Index, Push
    <3>3. Waiting(w, k)'
      BY <2>1, <2>3, <3>2 DEF Waiting
    <3>4. \A i \in DOMAIN queue[w] :
             queue'[w][i] = queue[w][i] /\ queue[w][i] \in Files /\ Waiting(w, queue[w][i])
      BY <1>a, <2>1, <3>1 DEF Ordered
    <3>5. /\ DOMAIN queue'[w] = DOMAIN queue[w] \cup {Len(queue[w]) + 1}
          /\ queue'[w][Len(queue[w]) + 1] = k
          /\ \A i \in DOMAIN queue[w] : i < Len(queue[w]) + 1
          /\ \A i \in DOMAIN queue[w] : ~(Len(queue[w]) + 1 < i)
      BY <1>a, <2>1, <3>1
    <3>6. \A i \in DOMAIN queue'[w] : Waiting(w, queue[w][i])'
      <4> SUFFICES ASSUME NEW i \in DOMAIN queue'[w] PROVE Waiting(w, queue[w][i])'
        OBVIOUS
      <4>1. CASE i \in DOMAIN queue[w]
        BY <2>2, <3>4, <4>1 DEF Waiting
      <4>2. CASE i = Len(queue[w]) + 1
        BY <2>1, <3>3, <3>5, <4>2 DEF Waiting
      <4> QED
        BY <3>5, <4>1, <4>2
    <3>7. \A i, j \in DOMAIN queue'[w] : i < j => queue'[w][i] < queue'[w][j]
      <4> SUFFICES ASSUME NEW i \in DOMAIN queue'[w], NEW j \in DOMAIN queue'[w], i < j
                   PROVE  queue'[w][i] < queue'[w][j]
        OBVIOUS
      <4>1. i \in DOMAIN queue[w]
        BY <3>5
      <4>2. CASE j \in DOMAIN queue[w]
        <5>1. queue[w][i] < queue[w][j]
          BY <1>a, <4>1, <4>2 DEF Ordered
        <5> QED
          BY <3>4, <4>1, <4>2, <5>1
      <4>3. CASE j = Len(queue[w]) + 1
        <5>1. queue[w][i] < k
          BY <2>2, <3>4, <4>1
        <5> QED
          BY <3>4, <3>5, <4>1, <4>3, <5>1
      <4> QED
        BY <3>5, <4>2, <4>3
    <3>8. Extracting(w) => /\ Waiting(w, hand[w])'
                           /\ \A i \in DOMAIN queue'[w] : hand[w] < queue'[w][i]
      BY <1>a, <2>1, <2>2, <3>4, <3>5 DEF Ordered, Waiting
    <3> QED
      BY <2>1, <3>6, <3>7, <3>8 DEF Ordered, Extracting, Waiting
  <2>4. CASE Target(k) # w
    <3>1. queue'[w] = queue[w]
      BY <1>3, <2>4 DEF Push, IInv, TypeOK
    <3> QED
      BY <1>a, <2>1, <2>2, <3>1 DEF Ordered, Extracting, Waiting
  <2> QED
    BY <2>3, <2>4
<1>4. CASE IncLoad
  BY <1>4, <1>b, PushedStep DEF IncLoad, workerVars, sharedVars, outputVars
<1>5. CASE IncStore
  BY <1>5, <1>b, PushedStep DEF IncStore, workerVars, outputVars
<1>6. CASE SyncDocument \/ SyncNothing \/ SyncThrows
  <2>1. UNCHANGED <<queue, wpc>> /\ ~threaded
    BY <1>6 DEF SyncDocument, SyncNothing, SyncThrows, workerVars, sharedVars, IInv, Index
  <2> QED
    BY <2>1 DEF IInv, Unthreaded, Ordered, Extracting
<1>7. ASSUME NEW v \in Workers, Worker(v) PROVE Ordered(w)'
  <2>0. Pushed' = Pushed
    BY <1>7, PushedStep
  <2>1. CASE Deciding(v)
    <3>1. UNCHANGED <<queue, hand>> /\ Extracting(v) /\ ~Extracting(v)'
          /\ (v # w => wpc'[w] = wpc[w])
      BY <2>1 DEF Deciding, Extracting
    <3>2. \A f \in Files : f # hand[v] => outcome'[f] = outcome[f]
      BY <2>1 DEF Deciding, IInv, TypeOK
    <3>3. Waiting(v, hand[v])
      BY <3>1 DEF IInv, InOrder, Ordered
    <3>4. CASE v = w
      <4>1. \A i \in DOMAIN queue[w] : hand[w] < queue[w][i] /\ Waiting(w, queue[w][i])
        BY <1>a, <3>1, <3>4 DEF Ordered
      <4>2. \A i \in DOMAIN queue[w] : hand[w] # queue[w][i]
        <5> SUFFICES ASSUME NEW i \in DOMAIN queue[w] PROVE hand[w] # queue[w][i]
          OBVIOUS
        <5>1. hand[w] \in Nat /\ queue[w][i] \in Nat /\ hand[w] < queue[w][i]
          BY <1>a, <3>3, <3>4, <4>1 DEF Waiting
        <5> QED
          BY <5>1
      <4>3. \A i \in DOMAIN queue[w] : Waiting(w, queue[w][i])'
        BY <2>0, <3>1, <3>2, <3>4, <4>1, <4>2 DEF Waiting
      <4> QED
        BY <1>a, <3>1, <3>4, <4>3 DEF Ordered, Waiting
    <3>5. CASE v # w
      <4>1. \A f \in Files : Waiting(w, f) => Waiting(w, f)'
        BY <2>0, <3>2, <3>3, <3>5 DEF Waiting
      <4> QED
        BY <1>a, <3>1, <3>5, <4>1 DEF Ordered, Extracting, Waiting
    <3> QED
      BY <3>4, <3>5
  <2>2. CASE Pop(v) /\ queue[v] # <<>>
    <3>1. UNCHANGED outcome
      BY <2>2 DEF Pop, outputVars
    <3>2. CASE v = w
      <4>1. hand'[w] = Head(queue[w]) /\ queue'[w] = Tail(queue[w])
        BY <2>2, <3>2 DEF Pop, IInv, TypeOK
      <4>2. \A i \in 1..(Len(queue[w]) - 1) :
               queue'[w][i] = queue[w][i + 1] /\ i + 1 \in DOMAIN queue[w]
        BY <1>a, <2>2, <3>2, <4>1, PopType
      <4>3. DOMAIN queue'[w] = 1..(Len(queue[w]) - 1)
        BY <1>a, <2>2, <3>2, <4>1, PopType
      <4>4. hand'[w] = queue[w][1] /\ 1 \in DOMAIN queue[w]
        BY <1>a, <2>2, <3>2, <4>1, PopType
      <4>5. \A f : Waiting(w, f) => Waiting(w, f)'
        BY <2>0, <3>1 DEF Waiting
      <4>6. \A i \in DOMAIN queue'[w] : Waiting(w, queue[w][i])' /\ hand'[w] < queue'[w][i]
        <5> SUFFICES ASSUME NEW i \in DOMAIN queue'[w]
                     PROVE  Waiting(w, queue[w][i])' /\ hand'[w] < queue'[w][i]
          OBVIOUS
        <5>1. queue'[w][i] = queue[w][i + 1] /\ i + 1 \in DOMAIN queue[w] /\ 1 < i + 1
          BY <4>2, <4>3
        <5>2. Waiting(w, queue[w][i + 1]) /\ queue[w][1] < queue[w][i + 1]
          BY <1>a, <4>4, <5>1 DEF Ordered
        <5> QED
          BY <2>0, <3>1, <4>4, <5>1, <5>2 DEF Waiting
      <4>7. \A i, j \in DOMAIN queue'[w] : i < j => queue'[w][i] < queue'[w][j]
        BY <1>a, <4>2, <4>3 DEF Ordered
      <4>8. Waiting(w, hand[w])'
        BY <1>a, <4>4, <4>5 DEF Ordered, Waiting
      <4> QED
        BY <4>6, <4>7, <4>8 DEF Ordered, Waiting
    <3>3. CASE v # w
      BY <1>7, <1>a, <2>0, <3>1, <3>3, WorkerFrame DEF Ordered, Waiting, Extracting
    <3> QED
      BY <3>2, <3>3
  <2>3. CASE Idle(v)
    BY <1>b, <2>0, <2>3 DEF Idle, InHand
  <2>4. CASE Reading(v)
    <3>1. UNCHANGED <<queue, outcome, hand>> /\ (Extracting(w)' => Extracting(w))
      BY <2>4 DEF Reading, Extracting
    <3> QED
      BY <1>a, <2>0, <3>1 DEF Ordered, Waiting
  <2>5. CASE DecLoad(v)
    BY <1>b, <2>0, <2>5 DEF DecLoad, Goto, IInv, TypeOK, Extracting, sharedVars, outputVars
  <2>6. CASE DecStore(v)
    <3>1. UNCHANGED <<queue, outcome>>
          /\ (v = w => ~Extracting(w)')
          /\ (v # w => wpc'[w] = wpc[w] /\ hand'[w] = hand[w])
      BY <2>6 DEF DecStore, Goto, IInv, TypeOK, Extracting, outputVars
    <3> QED
      BY <1>b, <2>0, <3>1
  <2> QED
    BY <1>7, <2>1, <2>2, <2>3, <2>4, <2>5, <2>6, WorkerKinds
<1> QED
  BY <1>1, <1>2, <1>3, <1>4, <1>5, <1>6, <1>7, StepKinds

LEMMA AccountedStep == IInv /\ [Next]_vars => Accounted'
<1> SUFFICES ASSUME IInv, [Next]_vars, threaded', NEW f \in Files PROVE InPlace(f)'
  BY DEF Accounted
<1>a. /\ threaded /\ threaded' = threaded
      /\ InPlace(f)
      /\ Target(f) \in Workers
      /\ f \in Nat /\ Pushed \in Nat
  <2>1. threaded' = threaded
    BY StepKinds, WorkerFrame
    DEF Quiet, Spawn, Push, IncLoad, IncStore, SyncDocument, SyncNothing, SyncThrows, callerVars
  <2> QED
    BY <2>1, FilesType, TargetType, Counts DEF IInv, Accounted
<1>b. ASSUME UNCHANGED <<queue, outcome, hand>>, Pushed' = Pushed,
             wpc'[Target(f)] = wpc[Target(f)]
      PROVE  InPlace(f)'
  BY <1>a, <1>b DEF InPlace, Extracting, Elements
<1>1. CASE Quiet
  BY <1>1, <1>b DEF Quiet, workerVars
<1>2. CASE Spawn
  <2>1. outcome'[f] = outcome[f] /\ Pushed = 0 /\ Pushed' = 0
    BY <1>2, PushedStep DEF Spawn, outputVars
  <2> QED
    BY <1>a, <2>1, FilesType DEF InPlace
<1>3. CASE Push
  <2>1. /\ UNCHANGED <<wpc, hand, outcome>>
        /\ Pushed' = k /\ Pushed = k - 1 /\ k \in Nat
        /\ queue' = [queue EXCEPT ![Target(k)] = Append(@, k)]
    BY <1>3, PushedStep DEF Push, workerVars, outputVars, IInv, TypeOK
  <2>2. f <= k => f = k \/ f <= k - 1
    BY <1>a, <2>1
  <2>3. k \in Files
    BY <1>3, LoaderAssumption DEF Push, IInv, TypeOK, Index, Files
  <2>4. /\ queue[Target(f)] \in Seq(Files)
        /\ Target(k) = Target(f) => queue'[Target(f)] = Append(queue[Target(f)], k)
    BY <1>a, <2>1 DEF IInv, TypeOK
  <2>5. ASSUME Target(k) = Target(f)
        PROVE  /\ DOMAIN queue'[Target(f)] = DOMAIN queue[Target(f)] \cup {Len(queue[Target(f)]) + 1}
               /\ queue'[Target(f)][Len(queue[Target(f)]) + 1] = k
               /\ \A i \in DOMAIN queue[Target(f)] : queue'[Target(f)][i] = queue[Target(f)][i]
    BY <2>3, <2>4, <2>5
  <2>6. f = k => f \in Elements(queue'[Target(f)])
    BY <2>5 DEF Elements
  <2>7. f \in Elements(queue[Target(f)]) => f \in Elements(queue'[Target(f)])
    <3>1. CASE Target(k) = Target(f)
      BY <2>5, <3>1 DEF Elements
    <3>2. CASE Target(k) # Target(f)
      BY <1>a, <2>1, <3>2 DEF IInv, TypeOK
    <3> QED
      BY <3>1, <3>2
  <2> QED
    BY <1>a, <2>1, <2>2, <2>6, <2>7 DEF InPlace, Extracting
<1>4. CASE IncLoad
  BY <1>4, <1>b, PushedStep DEF IncLoad, workerVars, sharedVars, outputVars
<1>5. CASE IncStore
  BY <1>5, <1>b, PushedStep DEF IncStore, workerVars, outputVars
<1>6. CASE SyncDocument \/ SyncNothing \/ SyncThrows
  BY <1>6, <1>a DEF SyncDocument, SyncNothing, SyncThrows, IInv, Index
<1>7. ASSUME NEW v \in Workers, Worker(v) PROVE InPlace(f)'
  <2>0. /\ Pushed' = Pushed
        /\ v # Target(f) => /\ wpc'[Target(f)] = wpc[Target(f)]
                            /\ hand'[Target(f)] = hand[Target(f)]
                            /\ queue'[Target(f)] = queue[Target(f)]
    BY <1>7, <1>a, PushedStep, WorkerFrame
  <2>1. CASE Idle(v)
    <3>1. UNCHANGED <<queue, outcome, hand>>
      BY <2>1 DEF Idle
    <3>2. v = Target(f) => ~InHand(Target(f))
      BY <2>1 DEF Idle
    <3> QED
      BY <1>a, <2>0, <3>1, <3>2 DEF InPlace, InHand, Extracting
  <2>2. CASE Pop(v) /\ queue[v] # <<>>
    <3>1. UNCHANGED outcome
      BY <2>2 DEF Pop, outputVars
    <3>2. CASE v = Target(f)
      <4>1. /\ Extracting(v)' /\ wpc[v] = "pop"
            /\ hand'[v] = Head(queue[v])
            /\ queue'[v] = Tail(queue[v])
            /\ queue[v] \in Seq(Files)
        BY <2>2 DEF Pop, Goto, IInv, TypeOK, Extracting
      <4>2. f \in Elements(queue[v]) => f = hand'[v] \/ f \in Elements(queue'[v])
        <5> SUFFICES ASSUME NEW i \in DOMAIN queue[v], f = queue[v][i], i # 1
                     PROVE  f \in Elements(queue'[v])
          BY <2>2, <4>1, PopType DEF Elements
        <5>1. i - 1 \in 1..(Len(queue[v]) - 1) /\ i - 1 \in DOMAIN queue'[v]
          BY <2>2, <4>1, PopType
        <5>2. queue'[v][i - 1] = queue[v][(i - 1) + 1]
          BY <2>2, <4>1, <5>1, PopType
        <5> QED
          BY <4>1, <5>1, <5>2 DEF Elements
      <4> QED
        BY <1>a, <2>0, <3>1, <3>2, <4>1, <4>2 DEF InPlace, Extracting
    <3>3. CASE v # Target(f)
      BY <1>a, <2>0, <3>1, <3>3 DEF InPlace, Extracting
    <3> QED
      BY <3>2, <3>3
  <2>3. CASE Reading(v)
    <3>1. UNCHANGED <<queue, outcome, hand>> /\ Extracting(v) /\ Extracting(v)'
      BY <2>3 DEF Reading
    <3> QED
      BY <1>a, <2>0, <3>1 DEF InPlace, Extracting
  <2>4. CASE Deciding(v)
    <3>1. /\ UNCHANGED <<queue, hand>>
          /\ Extracting(v)
          /\ wpc'[v] \in {"decLoad", "failed"}
          /\ f # hand[v] => outcome'[f] = outcome[f]
          /\ f = hand[v] => /\ outcome'[f] \in {"doc", "nothing", "threw"}
                            /\ outcome'[f] = "threw" => wpc'[v] = "failed"
      BY <2>4 DEF Deciding, IInv, TypeOK
    <3>2. Waiting(v, hand[v])
      BY <3>1 DEF IInv, InOrder, Ordered
    <3>3. CASE f = hand[v]
      BY <1>a, <2>0, <3>1, <3>2, <3>3 DEF InPlace, Waiting
    <3>4. CASE f # hand[v]
      BY <1>a, <2>0, <3>1, <3>4 DEF InPlace, Extracting
    <3> QED
      BY <3>3, <3>4
  <2>5. CASE DecLoad(v)
    <3>1. UNCHANGED <<queue, outcome, hand>> /\ wpc[v] = "decLoad" /\ ~Extracting(v)
      BY <2>5 DEF DecLoad, sharedVars, outputVars, Extracting
    <3> QED
      BY <1>a, <2>0, <3>1 DEF InPlace, Extracting
  <2>6. CASE DecStore(v)
    <3>1. UNCHANGED <<queue, outcome>> /\ wpc[v] = "decStore" /\ ~Extracting(v)
      BY <2>6 DEF DecStore, outputVars, Extracting
    <3> QED
      BY <1>a, <2>0, <3>1 DEF InPlace, Extracting
  <2> QED
    BY <1>7, <2>1, <2>2, <2>3, <2>4, <2>5, <2>6, WorkerKinds
<1> QED
  BY <1>1, <1>2, <1>3, <1>4, <1>5, <1>6, <1>7, StepKinds

LEMMA HandledOnceStep == IInv /\ [Next]_vars => HandledOnce'
<1> SUFFICES ASSUME IInv, [Next]_vars PROVE HandledOnce'
  OBVIOUS
<1>a. HandledOnce /\ data \in Seq(Files) /\ outcome \in [Files -> Outcomes]
  BY DEF IInv, TypeOK
<1>b. ASSUME UNCHANGED <<data, outcome>> PROVE HandledOnce'
  BY <1>a, <1>b DEF HandledOnce, Elements, Documents
<1>c. ASSUME NEW f \in Files, outcome[f] = "pending",
             \/ outcome' = [outcome EXCEPT ![f] = "nothing"] /\ data' = data
             \/ outcome' = [outcome EXCEPT ![f] = "threw"] /\ data' = data
             \/ outcome' = [outcome EXCEPT ![f] = "doc"] /\ data' = Append(data, f)
      PROVE  HandledOnce'
  <2>1. CASE data' = data
    <3>1. Documents' = Documents
      BY <1>a, <1>c, <2>1 DEF Documents
    <3> QED
      BY <1>a, <2>1, <3>1 DEF HandledOnce, Elements
  <2>2. CASE data' = Append(data, f) /\ outcome' = [outcome EXCEPT ![f] = "doc"]
    <3>1. Documents' = Documents \cup {f} /\ f \notin Documents
      BY <1>a, <1>c, <2>2 DEF Documents
    <3>2. /\ DOMAIN data' = DOMAIN data \cup {Len(data) + 1}
          /\ data'[Len(data) + 1] = f
          /\ \A i \in DOMAIN data : data'[i] = data[i] /\ data[i] \in Elements(data)
      BY <1>a, <2>2 DEF Elements
    <3>3. Elements(data)' = Elements(data) \cup {f}
      BY <1>a, <3>2 DEF Elements
    <3>4. \A i, j \in DOMAIN data' : data'[i] = data'[j] => i = j
      BY <1>a, <3>1, <3>2 DEF HandledOnce
    <3> QED
      BY <1>a, <3>1, <3>3, <3>4 DEF HandledOnce
  <2> QED
    BY <1>c, <2>1, <2>2
<1>1. CASE Quiet
  BY <1>1, <1>b DEF Quiet
<1>2. CASE Spawn
  BY <1>2, <1>b DEF Spawn, outputVars
<1>3. CASE Push
  BY <1>3, <1>b DEF Push, outputVars
<1>4. CASE IncLoad
  BY <1>4, <1>b DEF IncLoad, outputVars
<1>5. CASE IncStore
  BY <1>5, <1>b DEF IncStore, outputVars
<1>6. CASE SyncDocument \/ SyncNothing \/ SyncThrows
  <2>1. k \in Files /\ outcome[k] = "pending"
    BY <1>6, LoaderAssumption
    DEF SyncDocument, SyncNothing, SyncThrows, IInv, TypeOK, Index, Files, AccountedSync
  <2> QED
    BY <1>6, <1>c, <2>1 DEF SyncDocument, SyncNothing, SyncThrows
<1>7. ASSUME NEW v \in Workers, Worker(v) PROVE HandledOnce'
  <2>1. CASE Deciding(v)
    <3>1. hand[v] \in Files /\ outcome[hand[v]] = "pending"
      BY <2>1 DEF Deciding, IInv, InOrder, Ordered, Waiting
    <3> QED
      BY <1>c, <2>1, <3>1 DEF Deciding
  <2>2. CASE Idle(v) \/ Reading(v)
    BY <1>b, <2>2 DEF Idle, Reading
  <2>3. CASE Pop(v)
    BY <1>b, <2>3 DEF Pop, outputVars
  <2>4. CASE DecLoad(v)
    BY <1>b, <2>4 DEF DecLoad, outputVars
  <2>5. CASE DecStore(v)
    BY <1>b, <2>5 DEF DecStore, outputVars
  <2> QED
    BY <1>7, <2>1, <2>2, <2>3, <2>4, <2>5, WorkerKinds
<1> QED
  BY <1>1, <1>2, <1>3, <1>4, <1>5, <1>6, <1>7, StepKinds

LEMMA AccountedSyncStep == IInv /\ [Next]_vars => AccountedSync'
<1> SUFFICES ASSUME IInv, [Next]_vars PROVE AccountedSync'
  OBVIOUS
<1> USE LoaderAssumption DEF IInv, AccountedSync, SettledInv, After, Index, TypeOK, Files, Outcomes
<1>1. CASE Spawn
  BY <1>1 DEF Spawn, outputVars
<1>2. CASE EmptyPath
  BY <1>2 DEF EmptyPath, outputVars
<1>3. CASE ListFiles
  BY <1>3 DEF ListFiles, outputVars
<1>4. CASE SpawnThrows \/ ListThrows
  BY <1>4 DEF SpawnThrows, ListThrows, Unwind, outputVars
<1>5. CASE Push
  BY <1>5 DEF Push, outputVars
<1>6. CASE IncLoad
  BY <1>6 DEF IncLoad, outputVars
<1>7. CASE IncStore
  BY <1>7 DEF IncStore, outputVars
<1>8. CASE InsertDone
  BY <1>8 DEF InsertDone, outputVars
<1>9. CASE SyncPrefix
  BY <1>9 DEF SyncPrefix
<1>10. CASE SyncDocument
  BY <1>10 DEF SyncDocument
<1>11. CASE SyncNothing
  BY <1>11 DEF SyncNothing
<1>12. CASE SyncThrows
  BY <1>12 DEF SyncThrows, Unwind
<1>13. CASE SyncSuffix
  BY <1>13 DEF SyncSuffix
<1>14. CASE CallLoad
  BY <1>14 DEF CallLoad, outputVars
<1>15. CASE WaitFinishWorkload
  BY <1>15 DEF WaitFinishWorkload, outputVars
<1>16. CASE Load
  BY <1>16 DEF Load, outputVars
<1>17. CASE Destroy
  BY <1>17 DEF Destroy, Unwind, outputVars
<1>18. CASE Drain
  BY <1>18 DEF Drain, outputVars
<1>19. CASE KillThreads
  BY <1>19 DEF KillThreads, outputVars
<1>20. CASE Release
  BY <1>20 DEF Release, outputVars
<1>21. CASE Join
  BY <1>21 DEF Join, outputVars
<1>22. CASE Destroyed
  BY <1>22 DEF Destroyed, outputVars
<1>30. ASSUME NEW w \in Workers, Worker(w) PROVE AccountedSync'
  BY <1>30, WorkerFrame DEF callerVars
<1>31. CASE UNCHANGED vars
  BY <1>31 DEF vars
<1> QED
  BY <1>1, <1>2, <1>3, <1>4, <1>5, <1>6, <1>7, <1>8, <1>9, <1>10, <1>11, <1>12, <1>13, <1>14, <1>15, <1>16, <1>17, <1>18, <1>19, <1>20, <1>21, <1>22, <1>30, <1>31
  DEF Next, Caller, Constructor, Destructor

LEMMA ZeroIsSettled ==
    ASSUME IInv, pc \in {"wait", "drain"}, NEW w \in Workers, remaining[w] = 0
    PROVE  Settled(w)
<1>1. ~raced[w] => Outstanding(w) = 0
  BY DEF IInv, CounterExact, Exact, Uncounted
<1>2. Outstanding(w) = 0 => queue[w] = <<>> /\ ~InHand(w)
  BY DEF IInv, TypeOK, Outstanding
<1> QED
  BY <1>1, <1>2 DEF Settled

LEMMA SettledStays ==
    ASSUME IInv, [Next]_vars, pc \in After, NEW w \in Workers, Settled(w)
    PROVE  Settled(w)'
<1>1. CASE Quiet
  BY <1>1 DEF Quiet, Settled, InHand, Extracting, workerVars
<1>2. CASE Spawn \/ Push \/ IncLoad \/ IncStore \/ SyncDocument \/ SyncNothing \/ SyncThrows
  BY <1>2 DEF Spawn, Push, IncLoad, IncStore, SyncDocument, SyncNothing, SyncThrows, After
<1>3. ASSUME NEW v \in Workers, Worker(v) PROVE Settled(w)'
  <2>a. raced[w] => raced'[w]
    BY <1>3, WorkerFrame
  <2>1. CASE v # w
    <3>1. wpc'[w] = wpc[w] /\ queue'[w] = queue[w]
      BY <1>3, <2>1, WorkerFrame
    <3> QED
      BY <2>a, <3>1 DEF Settled, InHand, Extracting
  <2>2. CASE v = w /\ Idle(w)
    BY <2>2 DEF Idle, Settled
  <2>3. CASE v = w /\ Pop(w) /\ queue[w] # <<>>
    BY <2>a, <2>3 DEF Settled
  <2>4. CASE v = w /\ InHand(w)
    BY <2>a, <2>4 DEF Settled
  <2>5. Reading(w) \/ Deciding(w) \/ DecLoad(w) \/ DecStore(w) => InHand(w)
    BY DEF Reading, Deciding, DecLoad, DecStore, InHand
  <2> QED
    BY <1>3, <2>1, <2>2, <2>3, <2>4, <2>5, WorkerKinds
<1> QED
  BY <1>1, <1>2, <1>3, StepKinds

LEMMA SettledStep == IInv /\ [Next]_vars => SettledInv'
<1> SUFFICES ASSUME IInv, [Next]_vars PROVE SettledInv'
  OBVIOUS
<1>a. /\ Size \in Nat
      /\ 1..Size \subseteq Workers
  BY LoaderAssumption DEF Size, Workers
<1>b. \A w \in 1..Size : pc \in After /\ Settled(w) => Settled(w)'
  BY <1>a, SettledStays
<1>c. \A w \in 1..Size : pc \in {"wait", "drain"} /\ remaining[w] = 0 => Settled(w)'
  BY <1>a, <1>b, ZeroIsSettled DEF After
<1>d. ASSUME UNCHANGED threaded PROVE Size' = Size
  BY <1>d DEF Size
<1> USE <1>a, <1>b, <1>c, <1>d DEF IInv, TypeOK, Index, SettledInv, After
<1>1. CASE Spawn
  BY <1>1 DEF Spawn, sharedVars
<1>2. CASE EmptyPath
  BY <1>2 DEF EmptyPath, workerVars, sharedVars
<1>3. CASE ListFiles
  BY <1>3 DEF ListFiles, workerVars, sharedVars
<1>4. CASE SpawnThrows \/ ListThrows
  BY <1>4 DEF SpawnThrows, ListThrows, Unwind, workerVars, sharedVars
<1>5. CASE Push
  BY <1>5 DEF Push, workerVars
<1>6. CASE IncLoad
  BY <1>6 DEF IncLoad, workerVars, sharedVars
<1>7. CASE IncStore
  BY <1>7 DEF IncStore, workerVars
<1>8. CASE InsertDone
  BY <1>8 DEF InsertDone, workerVars, sharedVars
<1>9. CASE SyncPrefix
  BY <1>9 DEF SyncPrefix, workerVars, sharedVars
<1>10. CASE SyncDocument
  BY <1>10 DEF SyncDocument, workerVars, sharedVars
<1>11. CASE SyncNothing
  BY <1>11 DEF SyncNothing, workerVars, sharedVars
<1>12. CASE SyncThrows
  BY <1>12 DEF SyncThrows, Unwind, workerVars, sharedVars
<1>13. CASE SyncSuffix
  BY <1>13 DEF SyncSuffix, workerVars, sharedVars
<1>14. CASE CallLoad
  BY <1>14 DEF CallLoad, workerVars, sharedVars
<1>15. CASE WaitFinishWorkload
  BY <1>15 DEF WaitFinishWorkload, workerVars, sharedVars
<1>16. CASE Load
  BY <1>16 DEF Load, workerVars, sharedVars
<1>17. CASE Destroy
  BY <1>17 DEF Destroy, Unwind, workerVars, sharedVars
<1>18. CASE Drain
  BY <1>18 DEF Drain, workerVars, sharedVars
<1>19. CASE KillThreads
  BY <1>19 DEF KillThreads, workerVars
<1>20. CASE Release
  BY <1>20 DEF Release, workerVars
<1>21. CASE Join
  BY <1>21 DEF Join, workerVars, sharedVars
<1>22. CASE Destroyed
  BY <1>22 DEF Destroyed, workerVars, sharedVars
<1>30. ASSUME NEW v \in Workers, Worker(v) PROVE SettledInv'
  <2>1. UNCHANGED <<threaded, pc, k, kill, alive, result>>
    BY <1>30, WorkerFrame DEF callerVars
  <2>2. \A w \in Workers : wpc'[w] \in {"suffix", "done"} => kill
    <3>1. wpc'[v] \in {"suffix", "done"} => kill
      BY <1>30 DEF Worker, Prefix, CheckKill, Pop, Extract, ExtractNothing, ExtractText,
         OpenPDF, ReadPage, ExtractThrows, AppendDocument, DecLoad, DecStore, Yield, Suffix, Goto
    <3> QED
      BY <3>1, <1>30, WorkerFrame
  <2>3. \A w \in Workers : wpc[w] \in {"none", "done", "failed"} => wpc'[w] = wpc[w]
    <3>1. wpc[v] \notin {"none", "done", "failed"}
      BY <1>30 DEF Worker, Prefix, CheckKill, Pop, Extract, ExtractNothing, ExtractText,
         OpenPDF, ReadPage, ExtractThrows, AppendDocument, DecLoad, DecStore, Yield, Suffix
    <3> QED
      BY <3>1, <1>30, WorkerFrame
  <2> QED
    BY <2>1, <2>2, <2>3
<1>31. CASE UNCHANGED vars
  BY <1>31 DEF vars
<1> QED
  BY <1>1, <1>2, <1>3, <1>4, <1>5, <1>6, <1>7, <1>8, <1>9, <1>10, <1>11, <1>12, <1>13, <1>14, <1>15, <1>16, <1>17, <1>18, <1>19, <1>20, <1>21, <1>22, <1>30, <1>31
  DEF Next, Caller, Constructor, Destructor

LEMMA LibraryStep == IInv /\ [Next]_vars => LibraryInv'
<1> SUFFICES ASSUME IInv, [Next]_vars PROVE LibraryInv'
  OBVIOUS
<1> USE DEF IInv, TypeOK, Index, SettledInv, LibraryInv, Unthreaded
<1>1. CASE Spawn
  BY <1>1 DEF Spawn, sharedVars, outputVars
<1>2. CASE EmptyPath
  BY <1>2 DEF EmptyPath, workerVars, sharedVars, outputVars
<1>3. CASE ListFiles
  BY <1>3 DEF ListFiles, workerVars, sharedVars, outputVars
<1>4. CASE SpawnThrows \/ ListThrows
  BY <1>4 DEF SpawnThrows, ListThrows, Unwind, workerVars, sharedVars, outputVars
<1>5. CASE Push
  BY <1>5 DEF Push, workerVars, outputVars
<1>6. CASE IncLoad
  BY <1>6 DEF IncLoad, workerVars, sharedVars, outputVars
<1>7. CASE IncStore
  BY <1>7 DEF IncStore, workerVars, outputVars
<1>8. CASE InsertDone
  BY <1>8 DEF InsertDone, workerVars, sharedVars, outputVars
<1>9. CASE SyncPrefix
  BY <1>9 DEF SyncPrefix, workerVars, sharedVars
<1>10. CASE SyncDocument
  BY <1>10 DEF SyncDocument, workerVars, sharedVars
<1>11. CASE SyncNothing
  BY <1>11 DEF SyncNothing, workerVars, sharedVars
<1>12. CASE SyncThrows
  BY <1>12 DEF SyncThrows, Unwind, workerVars, sharedVars
<1>13. CASE SyncSuffix
  BY <1>13 DEF SyncSuffix, workerVars, sharedVars
<1>14. CASE CallLoad
  BY <1>14 DEF CallLoad, workerVars, sharedVars, outputVars
<1>15. CASE WaitFinishWorkload
  BY <1>15 DEF WaitFinishWorkload, workerVars, sharedVars, outputVars
<1>16. CASE Load
  BY <1>16 DEF Load, workerVars, sharedVars, outputVars
<1>17. CASE Destroy
  BY <1>17 DEF Destroy, Unwind, workerVars, sharedVars, outputVars
<1>18. CASE Drain
  BY <1>18 DEF Drain, workerVars, sharedVars, outputVars
<1>19. CASE KillThreads
  BY <1>19 DEF KillThreads, workerVars, outputVars
<1>20. CASE Release
  BY <1>20 DEF Release, workerVars, outputVars
<1>21. CASE Join
  BY <1>21 DEF Join, workerVars, sharedVars, outputVars
<1>22. CASE Destroyed
  BY <1>22 DEF Destroyed, workerVars, sharedVars, outputVars
<1>30. ASSUME NEW v \in Workers, Worker(v) PROVE LibraryInv'
  <2>1. UNCHANGED <<loader, kill>> /\ \A w \in Workers \ {v} : wpc'[w] = wpc[w]
    BY <1>30, WorkerFrame DEF callerVars
  <2>2. wpc[v] # "none"
    BY <1>30, WorkerFrame
  <2>3. CASE Prefix(v)
    BY <2>1, <2>3 DEF Prefix
  <2>4. CASE Suffix(v)
    BY <2>1, <2>4 DEF Suffix
  <2>5. CASE wpc[v] # "prefix" /\ UNCHANGED library
    BY <2>1, <2>2, <2>5
  <2>6. ~Prefix(v) /\ ~Suffix(v) => wpc[v] # "prefix" /\ UNCHANGED library
    BY <1>30 DEF Worker, CheckKill, Pop, Extract, ExtractNothing, ExtractText,
       OpenPDF, ReadPage, ExtractThrows, AppendDocument, DecLoad, DecStore, Yield, outputVars
  <2> QED
    BY <2>3, <2>4, <2>5, <2>6
<1>31. CASE UNCHANGED vars
  BY <1>31 DEF vars
<1> QED
  BY <1>1, <1>2, <1>3, <1>4, <1>5, <1>6, <1>7, <1>8, <1>9, <1>10, <1>11, <1>12, <1>13, <1>14, <1>15, <1>16, <1>17, <1>18, <1>19, <1>20, <1>21, <1>22, <1>30, <1>31
  DEF Next, Caller, Constructor, Destructor

\* Once every worker is settled and no counter has raced, nothing is extracted.
LEMMA SettledFrame ==
    ASSUME IInv, [Next]_vars, pc \in After, NoRace', \A w \in 1..Size : Settled(w)
    PROVE  UNCHANGED <<data, outcome>>
<1>1. CASE Quiet
  BY <1>1 DEF Quiet
<1>2. CASE Spawn \/ Push \/ IncLoad \/ IncStore \/ SyncDocument \/ SyncNothing \/ SyncThrows
  BY <1>2 DEF Spawn, Push, IncLoad, IncStore, SyncDocument, SyncNothing, SyncThrows, After
<1>3. ASSUME NEW v \in Workers, Worker(v) PROVE UNCHANGED <<data, outcome>>
  <2>1. ~InHand(v)
    BY <1>3, WorkerFrame DEF NoRace, Settled, Size, Workers
  <2>2. CASE Idle(v)
    BY <2>2 DEF Idle
  <2>3. CASE Pop(v)
    BY <2>3 DEF Pop, outputVars
  <2>4. Reading(v) \/ Deciding(v) \/ DecLoad(v) \/ DecStore(v) => InHand(v)
    BY DEF Reading, Deciding, DecLoad, DecStore, InHand
  <2> QED
    BY <1>3, <2>1, <2>2, <2>3, <2>4, WorkerKinds
<1> QED
  BY <1>1, <1>2, <1>3, StepKinds

LEMMA NoRaceStep == IInv /\ [Next]_vars /\ NoRace' => NoRace
<1> SUFFICES ASSUME IInv, [Next]_vars, NoRace', NEW w \in Workers PROVE ~raced[w]
  BY DEF NoRace
<1>1. ASSUME NEW v \in Workers, Worker(v) PROVE raced[w] => raced'[w]
  BY <1>1, WorkerFrame
<1>2. CASE IncLoad
  BY <1>2 DEF IncLoad, NoteRace, NoRace
<1> QED
  BY <1>1, <1>2, StepKinds
  DEF NoRace, Quiet, Spawn, Push, IncStore, SyncDocument, SyncNothing, SyncThrows

LEMMA ResultStep == IInv /\ [Next]_vars => ResultInv'
<1> SUFFICES ASSUME IInv, [Next]_vars, result' # NoResult, NoRace'
             PROVE  Elements(result') = Documents'
  BY DEF ResultInv, Elements
<1>a. NoRace
  BY NoRaceStep
<1>1. CASE Load
  BY <1>1 DEF Load, outputVars, IInv, HandledOnce, Elements, Documents
<1>2. CASE ~Load
  <2>1. result' = result
    <3>1. ASSUME NEW v \in Workers, Worker(v) PROVE result' = result
      BY <3>1, WorkerFrame DEF callerVars
    <3> QED
      BY <1>2, <3>1
      DEF Next, Caller, Constructor, Destructor, Spawn, EmptyPath, ListFiles, SpawnThrows, ListThrows, Push,
          IncLoad, IncStore, InsertDone, SyncPrefix, SyncDocument, SyncNothing, SyncThrows,
          SyncSuffix, CallLoad, WaitFinishWorkload, Destroy, Drain, KillThreads, Release, Join,
          Destroyed, Unwind, vars
  <2>2. UNCHANGED outcome
    BY <2>1, SettledFrame DEF IInv, SettledInv
  <2> QED
    BY <1>a, <2>1, <2>2 DEF IInv, ResultInv, Documents, Elements
<1> QED
  BY <1>1, <1>2

-----------------------------------------------------------------------------
(***************************************************************************)
(* The invariant and its consequences.                                     *)
(***************************************************************************)
LEMMA InvInit == Init => IInv
<1> SUFFICES ASSUME Init PROVE IInv
  OBVIOUS
<1> USE LoaderAssumption DEF Init
<1>1. TypeOK
  <2>1. \A S : <<>> \in Seq(S)
    OBVIOUS
  <2>2. result \in Seq(0..MaxFiles)
    BY DEF NoResult
  <2>3. pc \in CallerLabels /\ k \in Nat /\ files \in 0..MaxFiles
    BY DEF CallerLabels
  <2>4. /\ queue \in [Workers -> Seq(Files)]
        /\ data \in Seq(Files)
    BY <2>1
  <2>5. /\ wpc \in [Workers -> WorkerLabels]
        /\ hand \in [Workers -> 0..MaxFiles]
        /\ pages \in [Workers -> 0..MaxPages]
        /\ outcome \in [Files -> Outcomes]
    BY DEF WorkerLabels, Outcomes
  <2>6. /\ reg \in Word
        /\ wreg \in [Workers -> Word]
        /\ remaining \in [Workers -> Word]
        /\ raced \in [Workers -> BOOLEAN]
    BY WordType
  <2> QED
    BY <2>2, <2>3, <2>4, <2>5, <2>6 DEF TypeOK
<1>2. Index
  BY DEF Index, Workers
<1>3. Unthreaded /\ Registers /\ LibraryInv /\ SettledInv /\ ResultInv
  BY DEF Unthreaded, Registers, Register, LibraryInv, SettledInv, ResultInv, Workers, Size
<1>4. Pushed = 0
  BY DEF Pushed
<1>5. Bounded /\ CounterExact
  BY <1>4 DEF Bounded, CounterExact, Exact, Outstanding, Uncounted, InHand, Extracting
<1>6. InOrder
  BY DEF InOrder, Ordered, Extracting
<1>7. Accounted
  BY <1>4, FilesType DEF Accounted, InPlace
<1>8. AccountedSync
  BY DEF AccountedSync
<1>9. HandledOnce
  BY DEF HandledOnce, Elements, Documents
<1> QED
  BY <1>1, <1>2, <1>3, <1>5, <1>6, <1>7, <1>8, <1>9 DEF IInv

LEMMA InvStep == IInv /\ [Next]_vars => IInv'
BY TypeStep, IndexStep, UnthreadedStep, CounterStep, InOrderStep, AccountedStep,
   AccountedSyncStep, HandledOnceStep, SettledStep, LibraryStep, ResultStep
DEF IInv

\* Every reachable state satisfies IInv.
THEOREM Inductive == Spec => []IInv
BY InvInit, InvStep, PTL DEF Spec

\* The variables keep to their ranges; in particular threadRemainingWork is
\* always an unsigned int and an index never leaves the arrays it is used on.
THEOREM TypeCorrect == Spec => []TypeOK
<1>1. IInv => TypeOK
  BY DEF IInv
<1> QED
  BY <1>1, Inductive, PTL

\* InsertWorkIntoThreads and the worker's loop keep every counter that has
\* lost no update exact, through the moments in which it wraps around.
THEOREM CountersExact == Spec => []CounterExact
<1>1. IInv => CounterExact
  BY DEF IInv
<1> QED
  BY <1>1, Inductive, PTL

\* No file is extracted into two documents and no document is lost, races or not.
THEOREM ExtractedOnce == Spec => []HandledOnce
<1>1. IInv => HandledOnce
  BY DEF IInv
<1> QED
  BY <1>1, Inductive, PTL

LEMMA Complete == IInv => LoadComplete
<1>1. ASSUME IInv, result # NoResult, NoRace, NEW f \in 1..files
      PROVE  outcome[f] \in {"doc", "nothing"}
  <2>a. f \in Files /\ f \in Nat /\ outcome[f] \in Outcomes
    <3>1. f \in Files /\ f \in Nat
      BY <1>1, LoaderAssumption DEF IInv, TypeOK, Files
    <3> QED
      BY <1>1, <3>1 DEF IInv, TypeOK
  <2>1. CASE threaded
    <3>1. f <= Pushed
      BY <1>1, <2>1 DEF IInv, TypeOK, SettledInv, After, Pushed
    <3>2. Target(f) \in Workers /\ Settled(Target(f))
      BY <1>1, <2>a, <2>1, FilesType, TargetType DEF IInv, SettledInv, Size, Workers
    <3>3. queue[Target(f)] = <<>> /\ ~InHand(Target(f))
      BY <1>1, <3>2 DEF Settled, NoRace
    <3>4. outcome[f] # "pending"
      BY <1>1, <2>a, <2>1, <3>1, <3>3 DEF IInv, Accounted, InPlace, InHand, Elements
    <3>5. outcome[f] # "threw"
      BY <1>1, <2>a, <2>1, <3>3 DEF IInv, Accounted, InPlace, InHand
    <3> QED
      BY <2>a, <3>4, <3>5 DEF Outcomes
  <2>2. CASE ~threaded
    BY <1>1, <2>a, <2>2 DEF IInv, TypeOK, AccountedSync
  <2> QED
    BY <1>1, <2>1, <2>2
<1> QED
  BY <1>1 DEF LoadComplete, IInv, ResultInv

\* Load returns everything, if no counter has lost an update.
THEOREM LoadReturnsAll == Spec => []LoadComplete
BY Inductive, Complete, PTL

\* The derived members may go before ~BaseDataLoader waits, once Load has been
\* called and no counter has lost an update.
THEOREM NoCallbackAfterMembers == Spec => []CallbackOnLiveObject
<1>1. IInv => CallbackOnLiveObject
  <2> SUFFICES ASSUME IInv, result # NoResult, NoRace, NEW w \in Workers PROVE ~Extracting(w)
    BY DEF CallbackOnLiveObject
  <2>1. CASE threaded
    BY <2>1 DEF IInv, SettledInv, Settled, NoRace, InHand, Size, Workers
  <2>2. CASE ~threaded
    BY <2>2 DEF IInv, Unthreaded, Extracting
  <2> QED
    BY <2>1, <2>2 DEF IInv, TypeOK
<1> QED
  BY <1>1, Inductive, PTL

\* No worker closes the PDF library under another's extraction, if no counter
\* has lost an update.
THEOREM LibraryStaysUp == Spec => []LibraryUpWhileExtracting
<1>1. IInv => LibraryUpWhileExtracting
  <2> SUFFICES ASSUME IInv, NoRace, loader = "PDF", NEW w \in Workers, Extracting(w)
               PROVE  library
    BY DEF LibraryUpWhileExtracting
  <2>1. ~kill
    <3>1. threaded
      BY DEF IInv, Unthreaded, Extracting
    <3>2. ~Settled(w)
      BY DEF Settled, NoRace, InHand
    <3> QED
      BY <3>1, <3>2 DEF IInv, SettledInv, Size, Workers
  <2> QED
    BY <2>1 DEF IInv, LibraryInv, Extracting
<1> QED
  BY <1>1, Inductive, PTL

\* When the destructor returns every worker has ended and, without a lost
\* update, has done all its work.
THEOREM ShutdownIsClean == Spec => []CleanShutdown
<1>1. IInv => CleanShutdown
  <2> SUFFICES ASSUME IInv, pc = "gone", NEW w \in 1..Size
               PROVE  /\ wpc[w] \in {"none", "done", "failed"}
                      /\ NoRace => wpc[w] # "failed" /\ queue[w] = <<>>
    BY DEF CleanShutdown
  <2>1. w \in Workers
    BY LoaderAssumption DEF Size, Workers
  <2> QED
    BY <2>1 DEF IInv, SettledInv, Settled, NoRace, InHand
<1> QED
  BY <1>1, Inductive, PTL

\* m_dataVector is read without a lock after the first Load; it does not change
\* any more.
THEOREM DataIsStable == Spec => DataStable
<1>1. IInv /\ [Next]_vars => [result # NoResult /\ NoRace => data' = data]_vars
  <2> SUFFICES ASSUME IInv, [Next]_vars, result # NoResult, NoRace PROVE data' = data
    OBVIOUS
  <2>1. pc \in After /\ \A w \in 1..Size : Settled(w)
    BY DEF IInv, SettledInv
  <2>2. CASE NoRace'
    BY <2>1, <2>2, SettledFrame
  <2>3. CASE ~NoRace'
    <3>1. ASSUME NEW v \in Workers, Worker(v) PROVE data' = data
      <4>1. CASE Deciding(v)
        BY <2>3, <4>1 DEF Deciding, NoRace
      <4>2. CASE Pop(v)
        BY <4>2 DEF Pop, outputVars
      <4>3. CASE DecLoad(v)
        BY <4>3 DEF DecLoad, outputVars
      <4>4. CASE DecStore(v)
        BY <4>4 DEF DecStore, outputVars
      <4> QED
        BY <3>1, <4>1, <4>2, <4>3, <4>4, WorkerKinds DEF Idle, Reading
    <3> QED
      BY <2>1, <3>1, StepKinds
      DEF After, Quiet, Spawn, Push, IncLoad, IncStore, SyncDocument, SyncNothing, SyncThrows,
          outputVars
  <2> QED
    BY <2>2, <2>3
<1> QED
  BY <1>1, Inductive, PTL DEF DataStable, Spec

-----------------------------------------------------------------------------
(***************************************************************************)
(* Refinement: a worker's callback() is one Extract, a Load one Load, and  *)
(* everything else stutters.                                               *)
(***************************************************************************)
LEMMA RefinesInit == Init => Promise!Init
BY DEF Init, Promise!Init, Promise!Files, Promise!NotLoaded, NoRace, Files

\* A file that has its outcome decided by this step is a listed one.
LEMMA RefinesExtract ==
    ASSUME IInv, UNCHANGED <<files, result, raced>>, NEW f \in 1..files,
           NEW o \in {"doc", "nothing", "threw"}, outcome[f] = "pending",
           outcome' = [outcome EXCEPT ![f] = o]
    PROVE  Promise!Extract
BY DEF Promise!Extract, NoRace, Elements

LEMMA RefinesStep ==
    ASSUME IInv, IInv', [Next]_vars
    PROVE  Promise!Next \/ UNCHANGED <<files, outcome, IF result = NoResult THEN {0} ELSE Elements(result), ~NoRace>>
<1> DEFINE loaded == IF result = NoResult THEN {0} ELSE Elements(result)
<1>a. UNCHANGED <<files, outcome, result, raced>> =>
          UNCHANGED <<files, outcome, loaded, ~NoRace>>
  BY DEF Elements, NoRace
<1>1. CASE Load
  <2>1. result' # NoResult /\ Elements(result)' = Documents'
    BY <1>1, FilesType DEF Load, IInv, TypeOK, NoResult, HandledOnce, Elements, outputVars, Documents
  <2>2. NoRace' => \A f \in 1..files : outcome[f] \in {"doc", "nothing"}
    <3>1. LoadComplete'
      BY Complete, PTL
    <3> QED
      BY <1>1, <2>1, <3>1 DEF Load, LoadComplete, outputVars
  <2>3. UNCHANGED <<files, outcome, NoRace>>
    BY <1>1 DEF Load, outputVars, NoRace
  <2>4. Promise!Load
    BY <2>1, <2>2, <2>3 DEF Promise!Load, Promise!Documents, Promise!Files, Documents, Files
  <2> QED
    BY <2>4 DEF Promise!Next
<1>2. CASE ListFiles
  <2>1. files = 0 /\ result = NoResult
    BY <1>2 DEF ListFiles, IInv, Index, SettledInv, After
  <2>2. UNCHANGED <<outcome, result, raced>> /\ files' \in 0..MaxFiles
    BY <1>2 DEF ListFiles, outputVars
  <2>3. CASE files' = 0
    BY <1>a, <2>1, <2>2, <2>3
  <2>4. CASE files' # 0
    <3>1. files' \in Promise!Files
      BY <2>2, <2>4, LoaderAssumption DEF Promise!Files
    <3>2. UNCHANGED <<loaded, NoRace>>
      BY <2>2 DEF Elements, NoRace
    <3> QED
      BY <2>1, <2>2, <3>1, <3>2 DEF Promise!Next, Promise!List, Promise!NotLoaded
  <2> QED
    BY <2>3, <2>4
<1>3. CASE SyncDocument \/ SyncNothing \/ SyncThrows
  <2>1. /\ k \in 1..files
        /\ outcome[k] = "pending"
        /\ UNCHANGED <<files, result, raced>>
    BY <1>3, LoaderAssumption
    DEF SyncDocument, SyncNothing, SyncThrows, IInv, TypeOK, Index, Files, AccountedSync
  <2>2. \E o \in {"doc", "nothing", "threw"} : outcome' = [outcome EXCEPT ![k] = o]
    BY <1>3 DEF SyncDocument, SyncNothing, SyncThrows
  <2> QED
    BY <2>1, <2>2, RefinesExtract DEF Promise!Next
<1>4. ASSUME NEW v \in Workers, Worker(v)
      PROVE  Promise!Next \/ UNCHANGED <<files, outcome, loaded, ~NoRace>>
  <2>a. UNCHANGED <<files, result>>
    BY <1>4, WorkerFrame DEF callerVars
  <2>1. CASE Deciding(v)
    <3>1. Waiting(v, hand[v]) /\ UNCHANGED raced
      BY <2>1 DEF Deciding, IInv, InOrder, Ordered
    <3>2. Pushed <= files
      BY DEF IInv, TypeOK, Index, Pushed
    <3>3. hand[v] \in 1..files /\ outcome[hand[v]] = "pending"
      <4>1. files \in Nat /\ Pushed \in Nat /\ hand[v] \in Nat /\ hand[v] >= 1
        BY <3>1, LoaderAssumption, Counts, SMTT(60) DEF Waiting, IInv, TypeOK, Files
      <4> QED
        BY <3>1, <3>2, <4>1 DEF Waiting
    <3>4. \E o \in {"doc", "nothing", "threw"} : outcome' = [outcome EXCEPT ![hand[v]] = o]
      BY <2>1 DEF Deciding
    <3> QED
      BY <2>a, <3>1, <3>3, <3>4, RefinesExtract DEF Promise!Next
  <2>2. CASE DecLoad(v)
    <3>1. UNCHANGED outcome /\ (NoRace' \in BOOLEAN) /\ (NoRace' => NoRace)
      BY <1>4, <2>2, NoRaceStep DEF DecLoad, outputVars, NoRace
    <3>2. CASE NoRace' <=> NoRace
      BY <2>a, <3>1, <3>2 DEF Elements
    <3>3. CASE ~(NoRace' <=> NoRace)
      BY <2>a, <3>1, <3>3 DEF Promise!Next, Promise!LoseUpdate, Elements
    <3> QED
      BY <3>2, <3>3
  <2>3. CASE Idle(v) \/ Reading(v)
    BY <1>a, <2>a, <2>3 DEF Idle, Reading
  <2>4. CASE Pop(v)
    BY <1>a, <2>a, <2>4 DEF Pop, outputVars
  <2>5. CASE DecStore(v)
    BY <1>a, <2>a, <2>5 DEF DecStore, outputVars
  <2> QED
    BY <1>4, <2>1, <2>2, <2>3, <2>4, <2>5, WorkerKinds
<1>5. CASE IncLoad
  <2>1. UNCHANGED <<files, outcome, result>> /\ (NoRace' => NoRace)
    BY <1>5, NoRaceStep DEF IncLoad, outputVars
  <2>2. CASE NoRace' <=> NoRace
    BY <2>1, <2>2 DEF Elements
  <2>3. CASE ~(NoRace' <=> NoRace)
    BY <2>1, <2>3 DEF Promise!Next, Promise!LoseUpdate, Elements
  <2> QED
    BY <2>2, <2>3
<1>6. CASE ~Load /\ ~ListFiles /\ ~IncLoad /\ ~(SyncDocument \/ SyncNothing \/ SyncThrows)
           /\ ~(\E v \in Workers : Worker(v))
  BY <1>6, <1>a
  DEF Next, Caller, Constructor, Destructor, Spawn, EmptyPath, SpawnThrows, ListThrows, Push, IncStore,
      InsertDone, SyncPrefix, SyncSuffix, CallLoad, WaitFinishWorkload, Destroy, Drain,
      KillThreads, Release, Join, Destroyed, Unwind, outputVars, vars
<1> QED
  BY <1>1, <1>2, <1>3, <1>4, <1>5, <1>6

\* The loader with its threads, queues and counters does what LoaderSpec says.
THEOREM Refinement == Spec => ImplementsLoaderSpec
<1>1. IInv /\ IInv' /\ [Next]_vars =>
          [Promise!Next]_<<files, outcome, IF result = NoResult THEN {0} ELSE Elements(result), ~NoRace>>
  BY RefinesStep
<1> QED
  BY <1>1, RefinesInit, Inductive, PTL DEF ImplementsLoaderSpec, Promise!Spec, Spec
-----------------------------------------------------------------------------
(***************************************************************************)
(* What a throw does to a caller.  The exception skips the --, and no one  *)
(* else takes from that counter: while it has lost no update it can never  *)
(* be seen at zero again.                                                  *)
(***************************************************************************)
Unpaid == \E w \in Workers : wpc[w] = "failed" /\ ~raced[w]

\* Whoever waits for the counter has not passed it.
LEMMA UnpaidBlocks ==
    ASSUME IInv, NEW w \in Workers, wpc[w] = "failed", ~raced[w]
    PROVE  /\ pc \notin {"spawn", "release", "join", "gone"}
           /\ result = NoResult
           /\ pc \in {"wait", "drain"} => k <= w
<1>1. InHand(w) /\ Outstanding(w) \in Nat /\ Outstanding(w) > 0
  BY Counts DEF InHand
<1>2. ~Settled(w)
  BY <1>1 DEF Settled
<1>3. threaded /\ w \in 1..Size
  BY DEF IInv, TypeOK, Unthreaded, Size, Workers
<1>4. pc # "spawn"
  BY <1>1 DEF IInv, Bounded, Pushed
<1> QED
  BY <1>2, <1>3, <1>4 DEF IInv, TypeOK, SettledInv, Workers

LEMMA UnpaidStep == IInv /\ Unpaid /\ [Next]_vars => Unpaid'
<1> SUFFICES ASSUME IInv, [Next]_vars, NEW w \in Workers, wpc[w] = "failed", ~raced[w]
             PROVE  wpc'[w] = "failed" /\ ~raced'[w]
  BY DEF Unpaid
<1>1. /\ wpc \in [Workers -> WorkerLabels] /\ raced \in [Workers -> BOOLEAN]
      /\ pc # "spawn"
  BY UnpaidBlocks DEF IInv, TypeOK
<1>2. CASE Quiet
  BY <1>2 DEF Quiet, workerVars
<1>3. CASE Push \/ IncStore \/ SyncDocument \/ SyncNothing \/ SyncThrows
  BY <1>3 DEF Push, IncStore, SyncDocument, SyncNothing, SyncThrows, workerVars
<1>4. CASE IncLoad
  BY <1>1, <1>4 DEF IncLoad, NoteRace, Overlap, workerVars
<1>5. ASSUME NEW v \in Workers, Worker(v)
      PROVE  wpc'[w] = "failed" /\ ~raced'[w]
  <2>1. v # w
    <3>1. wpc[v] # "failed"
      BY <1>5 DEF Worker, Prefix, CheckKill, Pop, Extract, ExtractNothing, ExtractText, OpenPDF,
                  ReadPage, ExtractThrows, AppendDocument, DecLoad, DecStore, Yield, Suffix
    <3> QED
      BY <3>1
  <2>2. wpc'[w] = "failed"
    BY <1>5, <2>1, WorkerFrame
  <2>3. raced' = raced \/ NoteRace
    BY <1>5 DEF Worker, Prefix, CheckKill, Pop, Extract, ExtractNothing, ExtractText, OpenPDF,
                ReadPage, ExtractThrows, AppendDocument, DecLoad, DecStore, Yield, Suffix
  <2> QED
    BY <1>1, <2>2, <2>3 DEF NoteRace, Overlap
<1>6. CASE Spawn
  BY <1>1, <1>6 DEF Spawn
<1> QED
  BY <1>2, <1>3, <1>4, <1>5, <1>6, StepKinds

\* One file that throws, and no lost update to hide it: from then on no Load
\* returns and the destructor does not end, whatever the other workers do.
THEOREM ThrowBlocksCaller == Spec => [](Unpaid => [](result = NoResult /\ pc # "gone"))
<1>1. IInv /\ Unpaid => result = NoResult /\ pc # "gone"
  BY UnpaidBlocks DEF Unpaid
<1> QED
  BY <1>1, UnpaidStep, Inductive, PTL DEF Spec
=============================================================================
