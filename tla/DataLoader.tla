------------------------------ MODULE DataLoader ------------------------------
(***************************************************************************)
(* One DataLoader object (components/DataLoader): the caller's thread,     *)
(* which constructs it, calls Load any number of times and destroys it,    *)
(* and the N worker threads the constructor starts.                        *)
(*                                                                         *)
(* Each worker owns a ThreadSafeQueue of requests, whose push and pop are  *)
(* atomic (a private mutex), and a plain `unsigned int                     *)
(* threadRemainingWork`, which is not: the caller's `++` and the worker's  *)
(* `--` are a load and a store each (the Release build is -O0), and the    *)
(* two may overlap.  An overlap is an ordinary lost update and leaves the  *)
(* counter wrong for good; `raced` remembers on which counters it has      *)
(* happened, so that a property can say what holds while it has not.       *)
(*                                                                         *)
(* A file is its place in the directory listing: 1 is the first file that  *)
(* LocalFileReader puts into its work queue.  What a file contains is      *)
(* chosen when a worker extracts it.                                       *)
(***************************************************************************)
EXTENDS Integers, Sequences

CONSTANTS
    N,          \* the workers of a loader with threads
    Loaders,    \* the loaders to consider, among AllLoaders
    MaxFiles,   \* bound: files in a listing
    MaxPages,   \* bound: pages of a PDF file
    Modulus     \* 2^w, for the width w of threadRemainingWork

AllLoaders == {"TXT", "DOCX", "PDF", "Web"}

ASSUME LoaderAssumption ==
    /\ N \in Nat \ {0}
    /\ Loaders \subseteq AllLoaders
    /\ MaxFiles \in Nat \ {0}
    /\ MaxPages \in Nat
    /\ Modulus \in Nat
    /\ Modulus > MaxFiles + 1    \* fewer than 2^32 - 1 files

VARIABLES
    loader,     \* the class of this object
    threaded,   \* m_isThreaded: threadsNum is N, not 0
    files,      \* number of files in the listing
    pc,         \* the caller's thread: the statement it is about to execute
    k,          \* its loop index: a worker or a file
    reg,        \* the value its `++` has loaded
    wpc,        \* each worker: the statement it is about to execute
    hand,       \* the file it has popped
    pages,      \* the pages of that file it has yet to read (PDF)
    wreg,       \* the value its `--` has loaded
    queue,      \* threadQueue
    remaining,  \* threadRemainingWork
    kill,       \* m_killThread
    token,      \* m_threadYield
    alive,      \* the derived class's members (m_mutex) exist
    library,    \* the PDF library is initialised
    data,       \* m_dataVector: the files its documents come from
    result,     \* what the last Load returned
    outcome,    \* history: what became of each file
    raced       \* history: the counter has lost an update

callerVars == <<loader, threaded, files, pc, k, reg, alive, result>>
workerVars == <<wpc, hand, pages, wreg>>
sharedVars == <<queue, remaining, kill, token>>
outputVars == <<data, outcome, library>>
vars == <<loader, threaded, files, pc, k, reg, wpc, hand, pages, wreg, queue, remaining,
          kill, token, alive, library, data, result, outcome, raced>>

Workers == 1..N
\* m_threadQueues.size()
Size == IF threaded THEN N ELSE 0
Files == 1..MaxFiles
Word == 0..(Modulus - 1)
NoResult == <<0>>
Outcomes == {"pending", "doc", "nothing", "threw"}

\* The queue that InsertWorkIntoThreads gives a file to.
Target(f) == ((f - 1) % N) + 1

Increment(x) == IF x = Modulus - 1 THEN 0 ELSE x + 1
Decrement(x) == IF x = 0 THEN Modulus - 1 ELSE x - 1

Init ==
    /\ loader \in Loaders
    /\ threaded \in BOOLEAN
    /\ files = 0
    /\ pc = (IF threaded THEN "spawn" ELSE "list")
    /\ k = 1
    /\ reg = 0
    /\ wpc = [w \in Workers |-> "none"]
    /\ hand = [w \in Workers |-> 0]
    /\ pages = [w \in Workers |-> 0]
    /\ wreg = [w \in Workers |-> 0]
    /\ queue = [w \in Workers |-> <<>>]
    /\ remaining = [w \in Workers |-> 0]
    /\ kill = FALSE
    /\ token = FALSE
    /\ alive = TRUE
    /\ library = FALSE
    /\ data = <<>>
    /\ result = NoResult
    /\ outcome = [f \in Files |-> "pending"]
    /\ raced = [w \in Workers |-> FALSE]

-----------------------------------------------------------------------------
(***************************************************************************)
(* The constructor, on the caller's thread.                                *)
(***************************************************************************)

\* AddThreadsCallback: std::async for one more worker.
Spawn ==
    /\ pc = "spawn"
    /\ wpc' = [wpc EXCEPT ![k] = "prefix"]
    /\ pc' = (IF k = N THEN "list" ELSE "spawn")
    /\ k' = (IF k = N THEN 1 ELSE k + 1)
    /\ UNCHANGED <<loader, threaded, files, reg, hand, pages, wreg, alive, result, raced, sharedVars, outputVars>>

\* A constructor that throws destroys the derived members, then the base.
Unwind ==
    /\ pc' = "drain"
    /\ k' = 1
    /\ alive' = FALSE

\* ... there is no thread for it.
SpawnThrows ==
    /\ pc = "spawn"
    /\ Unwind
    /\ UNCHANGED <<loader, threaded, files, reg, result, raced, workerVars, sharedVars, outputVars>>

\* The derived constructor is done when it is given an empty path or url.
EmptyPath ==
    /\ pc = "list"
    /\ pc' = "ready"
    /\ UNCHANGED <<loader, threaded, files, k, reg, alive, result, raced, workerVars, sharedVars, outputVars>>

\* LocalFileReader lists the files and InsertWorkIntoThreads starts.  A
\* WebLoader hands in exactly one url.
ListFiles ==
    /\ pc = "list"
    /\ \E n \in 0..MaxFiles : files' = n /\ (loader = "Web" => n = 1)
    /\ pc' = (IF threaded THEN "push" ELSE "syncPrefix")
    /\ UNCHANGED <<loader, threaded, k, reg, alive, result, raced, workerVars, sharedVars, outputVars>>

\* The directory iterator throws a filesystem_error.
ListThrows ==
    /\ pc = "list"
    /\ loader # "Web"
    /\ Unwind
    /\ UNCHANGED <<loader, threaded, files, reg, result, raced, workerVars, sharedVars, outputVars>>

\* InsertWorkIntoThreads: threadQueue.push.
Push ==
    /\ pc = "push"
    /\ k <= files
    /\ queue' = [queue EXCEPT ![Target(k)] = Append(@, k)]
    /\ pc' = "incLoad"
    /\ UNCHANGED <<loader, threaded, files, k, reg, remaining, kill, token, alive, result, raced, workerVars, outputVars>>

\* The caller and worker w are both between the load and the store of w's
\* counter: whichever stores last undoes the other's update.
Overlap(w) ==
    /\ pc' = "incStore"
    /\ Target(k') = w
    /\ wpc'[w] = "decStore"

NoteRace == raced' = [w \in Workers |-> raced[w] \/ Overlap(w)]

\* ... then threadRemainingWork++, a load
IncLoad ==
    /\ pc = "incLoad"
    /\ reg' = remaining[Target(k)]
    /\ pc' = "incStore"
    /\ UNCHANGED <<loader, threaded, files, k, alive, result, workerVars, sharedVars, outputVars>>
    /\ NoteRace

\* Mutant of IncStore: the index of the next file.
IncStoreNextQueue ==
    /\ pc = "incStore"
    /\ remaining' = [remaining EXCEPT ![Target(k + 1)] = Increment(reg)]
    /\ reg' = 0
    /\ k' = k + 1
    /\ pc' = "push"
    /\ UNCHANGED <<loader, threaded, files, queue, kill, token, alive, result, raced, workerVars, outputVars>>

\* ... and a store.
IncStore ==
    /\ pc = "incStore"
    /\ remaining' = [remaining EXCEPT ![Target(k)] = Increment(reg)]
    /\ reg' = 0
    /\ k' = k + 1
    /\ pc' = "push"
    /\ UNCHANGED <<loader, threaded, files, queue, kill, token, alive, result, raced, workerVars, outputVars>>

InsertDone ==
    /\ pc = "push"
    /\ k > files
    /\ pc' = "ready"
    /\ k' = 1
    /\ UNCHANGED <<loader, threaded, files, reg, alive, result, raced, workerVars, sharedVars, outputVars>>

\* InsertWorkIntoThreads of a loader without threads: the caller's thread runs
\* the callback on every file.  An exception leaves the constructor, and the
\* suffix does not run.
SyncPrefix ==
    /\ pc = "syncPrefix"
    /\ library' = (library \/ loader = "PDF")
    /\ pc' = "sync"
    /\ UNCHANGED <<loader, threaded, files, k, reg, alive, data, result, outcome, raced, workerVars, sharedVars>>

SyncDocument ==
    /\ pc = "sync"
    /\ k <= files
    /\ data' = Append(data, k)
    /\ outcome' = [outcome EXCEPT ![k] = "doc"]
    /\ k' = k + 1
    /\ UNCHANGED <<loader, threaded, files, pc, reg, alive, library, result, raced, workerVars, sharedVars>>

SyncNothing ==
    /\ pc = "sync"
    /\ k <= files
    /\ loader # "PDF"
    /\ outcome' = [outcome EXCEPT ![k] = "nothing"]
    /\ k' = k + 1
    /\ UNCHANGED <<loader, threaded, files, pc, reg, alive, library, data, result, raced, workerVars, sharedVars>>

SyncThrows ==
    /\ pc = "sync"
    /\ k <= files
    /\ outcome' = [outcome EXCEPT ![k] = "threw"]
    /\ Unwind
    /\ UNCHANGED <<loader, threaded, files, reg, library, data, result, raced, workerVars, sharedVars>>

SyncSuffix ==
    /\ pc = "sync"
    /\ k > files
    /\ library' = (library /\ loader # "PDF")
    /\ pc' = "ready"
    /\ k' = 1
    /\ UNCHANGED <<loader, threaded, files, reg, alive, data, result, outcome, raced, workerVars, sharedVars>>

-----------------------------------------------------------------------------
(***************************************************************************)
(* Load, KeywordExists and GetKeywordOccurences: wait, then read           *)
(* m_dataVector.                                                           *)
(***************************************************************************)
CallLoad ==
    /\ pc = "ready"
    /\ pc' = "wait"
    /\ k' = 1
    /\ UNCHANGED <<loader, threaded, files, reg, alive, result, raced, workerVars, sharedVars, outputVars>>

\* Mutant of WaitFinishWorkload: waits for the queue and not for the counter.
WaitEmptyQueue ==
    /\ pc = "wait"
    /\ k \in 1..Size
    /\ queue[k] = <<>>
    /\ k' = k + 1
    /\ UNCHANGED <<loader, threaded, files, pc, reg, alive, result, raced, workerVars, sharedVars, outputVars>>

\* WaitFinishWorkload: one worker's counter is seen at zero.
WaitFinishWorkload ==
    /\ pc = "wait"
    /\ k \in 1..Size
    /\ remaining[k] = 0
    /\ k' = k + 1
    /\ UNCHANGED <<loader, threaded, files, pc, reg, alive, result, raced, workerVars, sharedVars, outputVars>>

\* Mutant of Load: does not wait for the last worker.
LoadBeforeLast ==
    /\ pc = "wait"
    /\ k = Size
    /\ result' = data
    /\ pc' = "ready"
    /\ k' = 1
    /\ UNCHANGED <<loader, threaded, files, reg, alive, raced, workerVars, sharedVars, outputVars>>

Load ==
    /\ pc = "wait"
    /\ k = Size + 1
    /\ result' = data
    /\ pc' = "ready"
    /\ k' = 1
    /\ UNCHANGED <<loader, threaded, files, reg, alive, raced, workerVars, sharedVars, outputVars>>

-----------------------------------------------------------------------------
(***************************************************************************)
(* The destructors: the derived members first, then ~BaseDataLoader.       *)
(***************************************************************************)
Destroy ==
    /\ pc = "ready"
    /\ Unwind
    /\ UNCHANGED <<loader, threaded, files, reg, result, raced, workerVars, sharedVars, outputVars>>

\* Mutant of Drain: waits for the queue and not for the counter.
DrainQueue ==
    /\ pc = "drain"
    /\ k \in 1..Size
    /\ queue[k] = <<>>
    /\ k' = k + 1
    /\ UNCHANGED <<loader, threaded, files, pc, reg, alive, result, raced, workerVars, sharedVars, outputVars>>

Drain ==
    /\ pc = "drain"
    /\ k \in 1..Size
    /\ remaining[k] = 0
    /\ k' = k + 1
    /\ UNCHANGED <<loader, threaded, files, pc, reg, alive, result, raced, workerVars, sharedVars, outputVars>>

\* Mutant of KillThreads: raises m_killThread at once.
KillAtOnce ==
    /\ pc = "drain"
    /\ kill' = TRUE
    /\ pc' = "release"
    /\ UNCHANGED <<loader, threaded, files, k, reg, queue, remaining, token, alive, result, raced, workerVars, outputVars>>

KillThreads ==
    /\ pc = "drain"
    /\ k = Size + 1
    /\ kill' = TRUE
    /\ pc' = "release"
    /\ UNCHANGED <<loader, threaded, files, k, reg, queue, remaining, token, alive, result, raced, workerVars, outputVars>>

Release ==
    /\ pc = "release"
    /\ token' = TRUE
    /\ pc' = "join"
    /\ k' = 1
    /\ UNCHANGED <<loader, threaded, files, reg, queue, remaining, kill, alive, result, raced, workerVars, outputVars>>

\* threadRunner->wait(): the worker has returned or thrown.  A worker that has
\* not been started has no threadRunner.
Join ==
    /\ pc = "join"
    /\ k \in 1..Size
    /\ wpc[k] \in {"none", "done", "failed"}
    /\ k' = k + 1
    /\ UNCHANGED <<loader, threaded, files, pc, reg, alive, result, raced, workerVars, sharedVars, outputVars>>

Destroyed ==
    /\ pc = "join"
    /\ k = Size + 1
    /\ pc' = "gone"
    /\ UNCHANGED <<loader, threaded, files, k, reg, alive, result, raced, workerVars, sharedVars, outputVars>>

-----------------------------------------------------------------------------
(***************************************************************************)
(* A worker thread: the lambda of AddThreadsCallback.                      *)
(***************************************************************************)
Goto(w, label) == wpc' = [wpc EXCEPT ![w] = label]

\* prefix(): FPDF_InitLibrary for a PDFLoader, nothing otherwise.
Prefix(w) ==
    /\ wpc[w] = "prefix"
    /\ Goto(w, "loop")
    /\ library' = (library \/ loader = "PDF")
    /\ UNCHANGED <<hand, pages, wreg, data, outcome, raced, callerVars, sharedVars>>

CheckKill(w) ==
    /\ wpc[w] = "loop"
    /\ Goto(w, IF kill THEN "suffix" ELSE "pop")
    /\ UNCHANGED <<hand, pages, wreg, raced, callerVars, sharedVars, outputVars>>

\* Mutant of Pop: front() without pop().
Peek(w) ==
    /\ wpc[w] = "pop"
    /\ IF queue[w] = <<>>
         THEN Goto(w, "yield") /\ UNCHANGED hand
         ELSE Goto(w, "extract") /\ hand' = [hand EXCEPT ![w] = Head(queue[w])]
    /\ UNCHANGED <<pages, wreg, raced, callerVars, sharedVars, outputVars>>

\* Mutant of Pop: an empty queue ends the worker.
PopOrLeave(w) ==
    /\ wpc[w] = "pop"
    /\ IF queue[w] = <<>>
         THEN Goto(w, "suffix") /\ UNCHANGED <<hand, queue>>
         ELSE /\ Goto(w, "extract")
              /\ hand' = [hand EXCEPT ![w] = Head(queue[w])]
              /\ queue' = [queue EXCEPT ![w] = Tail(@)]
    /\ UNCHANGED <<pages, wreg, remaining, kill, token, raced, callerVars, outputVars>>

Pop(w) ==
    /\ wpc[w] = "pop"
    /\ IF queue[w] = <<>>
         THEN Goto(w, "yield") /\ UNCHANGED <<hand, queue>>
         ELSE /\ Goto(w, "extract")
              /\ hand' = [hand EXCEPT ![w] = Head(queue[w])]
              /\ queue' = [queue EXCEPT ![w] = Tail(@)]
    /\ UNCHANGED <<pages, wreg, remaining, kill, token, raced, callerVars, outputVars>>

\* callback(*value) returns without a document: a text file with nothing
\* printable, an archive that cannot be read, a page that cannot be fetched.
\* A PDF file either gives a document or throws.
ExtractNothing(w) ==
    /\ wpc[w] = "extract"
    /\ loader # "PDF"
    /\ Goto(w, "decLoad")
    /\ outcome' = [outcome EXCEPT ![hand[w]] = "nothing"]
    /\ UNCHANGED <<hand, pages, wreg, library, data, raced, callerVars, sharedVars>>

\* The text of the file (or the page of the url) is in a local variable.
ExtractText(w) ==
    /\ wpc[w] = "extract"
    /\ loader # "PDF"
    /\ Goto(w, "append")
    /\ UNCHANGED <<hand, pages, wreg, raced, callerVars, sharedVars, outputVars>>

\* ExtractPDFData opens the file and then reads one page at a time, each under
\* m_mutex, which it gives up in between.
OpenPDF(w) ==
    /\ wpc[w] = "extract"
    /\ loader = "PDF"
    /\ Goto(w, "page")
    /\ \E n \in 0..MaxPages : pages' = [pages EXCEPT ![w] = n]
    /\ UNCHANGED <<hand, wreg, raced, callerVars, sharedVars, outputVars>>

ReadPage(w) ==
    /\ wpc[w] = "page"
    /\ pages[w] > 0
    /\ pages' = [pages EXCEPT ![w] = @ - 1]
    /\ UNCHANGED <<wpc, hand, wreg, raced, callerVars, sharedVars, outputVars>>

\* The file cannot be read or parsed, a page cannot be loaded: the exception
\* leaves callback(), ends the lambda and stays in the future.  Neither the
\* counter's -- nor suffix() is reached.
ExtractThrows(w) ==
    /\ wpc[w] \in {"extract", "page"}
    /\ wpc[w] = "page" => pages[w] > 0
    /\ Goto(w, "failed")
    /\ outcome' = [outcome EXCEPT ![hand[w]] = "threw"]
    /\ pages' = [pages EXCEPT ![w] = 0]
    /\ UNCHANGED <<hand, wreg, library, data, raced, callerVars, sharedVars>>

\* m_dataVector.emplace_back: under m_mutex, but for the WebLoader, whose one
\* url is in one worker's hand.
AppendDocument(w) ==
    /\ wpc[w] \in {"append", "page"}
    /\ wpc[w] = "page" => pages[w] = 0
    /\ Goto(w, "decLoad")
    /\ data' = Append(data, hand[w])
    /\ outcome' = [outcome EXCEPT ![hand[w]] = "doc"]
    /\ UNCHANGED <<hand, pages, wreg, library, raced, callerVars, sharedVars>>

\* threadRemainingWork--: a load
DecLoad(w) ==
    /\ wpc[w] = "decLoad"
    /\ Goto(w, "decStore")
    /\ wreg' = [wreg EXCEPT ![w] = remaining[w]]
    /\ UNCHANGED <<hand, pages, callerVars, sharedVars, outputVars>>
    /\ NoteRace

\* ... and a store.
DecStore(w) ==
    /\ wpc[w] = "decStore"
    /\ Goto(w, "yield")
    /\ remaining' = [remaining EXCEPT ![w] = Decrement(wreg[w])]
    /\ wreg' = [wreg EXCEPT ![w] = 0]
    /\ hand' = [hand EXCEPT ![w] = 0]
    /\ UNCHANGED <<pages, queue, kill, token, raced, callerVars, outputVars>>

\* Mutant of Yield: acquire() in place of try_acquire_for().
Acquire(w) ==
    /\ wpc[w] = "yield"
    /\ token
    /\ Goto(w, "loop")
    /\ token' = FALSE
    /\ UNCHANGED <<hand, pages, wreg, queue, remaining, kill, raced, callerVars, outputVars>>

\* m_threadYield.try_acquire_for(10ms): takes the token, or times out.
Yield(w) ==
    /\ wpc[w] = "yield"
    /\ Goto(w, "loop")
    /\ token' \in {token, FALSE}
    /\ UNCHANGED <<hand, pages, wreg, queue, remaining, kill, raced, callerVars, outputVars>>

\* suffix(): FPDF_DestroyLibrary for a PDFLoader.
Suffix(w) ==
    /\ wpc[w] = "suffix"
    /\ Goto(w, "done")
    /\ library' = (library /\ loader # "PDF")
    /\ UNCHANGED <<hand, pages, wreg, data, outcome, raced, callerVars, sharedVars>>

-----------------------------------------------------------------------------
Constructor ==
    \/ Spawn \/ SpawnThrows \/ EmptyPath \/ ListFiles \/ ListThrows
    \/ Push \/ IncLoad \/ IncStore \/ InsertDone
    \/ SyncPrefix \/ SyncDocument \/ SyncNothing \/ SyncThrows \/ SyncSuffix

Destructor == Drain \/ KillThreads \/ Release \/ Join \/ Destroyed

\* What the caller's thread does on its own; CallLoad and Destroy are the
\* caller's choice.
Caller == Constructor \/ WaitFinishWorkload \/ Load \/ Destructor

Extract(w) ==
    ExtractNothing(w) \/ ExtractText(w) \/ OpenPDF(w) \/ ReadPage(w)
    \/ ExtractThrows(w) \/ AppendDocument(w)

Worker(w) ==
    \/ Prefix(w) \/ CheckKill(w) \/ Pop(w) \/ Extract(w)
    \/ DecLoad(w) \/ DecStore(w) \/ Yield(w) \/ Suffix(w)

Next ==
    \/ Caller \/ CallLoad \/ Destroy
    \/ \E w \in Workers : Worker(w)

Spec == Init /\ [][Next]_vars

\* The scheduler runs every thread that can run: the spin loops and the timed
\* wait never block it for good.
FairSpec ==
    /\ Spec
    /\ WF_vars(Caller)
    /\ \A w \in Workers : WF_vars(Worker(w))

-----------------------------------------------------------------------------
(***************************************************************************)
(* Correctness.                                                            *)
(***************************************************************************)
CallerLabels == {"spawn", "list", "push", "incLoad", "incStore", "syncPrefix",
                 "sync", "ready", "wait", "drain", "release", "join", "gone"}
WorkerLabels == {"none", "prefix", "loop", "pop", "extract", "page", "append",
                 "decLoad", "decStore", "yield", "suffix", "done", "failed"}

TypeOK ==
    /\ loader \in Loaders
    /\ threaded \in BOOLEAN
    /\ files \in 0..MaxFiles
    /\ pc \in CallerLabels
    /\ k \in Nat
    /\ reg \in Word
    /\ wpc \in [Workers -> WorkerLabels]
    /\ hand \in [Workers -> 0..MaxFiles]
    /\ pages \in [Workers -> 0..MaxPages]
    /\ wreg \in [Workers -> Word]
    /\ queue \in [Workers -> Seq(Files)]
    /\ remaining \in [Workers -> Word]
    /\ kill \in BOOLEAN
    /\ token \in BOOLEAN
    /\ alive \in BOOLEAN
    /\ library \in BOOLEAN
    /\ data \in Seq(Files)
    /\ result \in Seq(0..MaxFiles)
    /\ outcome \in [Files -> Outcomes]
    /\ raced \in [Workers -> BOOLEAN]

NoRace == \A w \in Workers : ~raced[w]

\* The worker runs callback() or is about to count its file as done.
Extracting(w) == wpc[w] \in {"extract", "page", "append"}
InHand(w) == Extracting(w) \/ wpc[w] \in {"decLoad", "decStore", "failed"}

\* The requests a worker still owes: queued or in its hand.
Outstanding(w) == Len(queue[w]) + (IF InHand(w) THEN 1 ELSE 0)

\* The one request that is in the queue and that ++ has yet to count.
Uncounted(w) == pc \in {"incLoad", "incStore"} /\ Target(k) = w

(***************************************************************************)
(* While a counter has lost no update it is exactly the worker's           *)
(* outstanding work, less the request between push and ++; if the worker   *)
(* is quicker than the ++ it stands at 2^w - 1 for a moment.  (The order   *)
(* push, ++ in InsertWorkIntoThreads against callback, -- in the worker.)  *)
(***************************************************************************)
Exact(w) == remaining[w] = IF Uncounted(w) THEN Decrement(Outstanding(w))
                                          ELSE Outstanding(w)
CounterExact == \A w \in Workers : ~raced[w] => Exact(w)

(***************************************************************************)
(* What Load returns while no counter has raced is complete: every listed  *)
(* file has been extracted, none is missing because its extraction threw   *)
(* or is still going on, and the documents are those files, once each.     *)
(***************************************************************************)
Elements(s) == {s[i] : i \in DOMAIN s}
Documents == {f \in Files : outcome[f] = "doc"}
LoadComplete ==
    result # NoResult /\ NoRace =>
        /\ \A f \in 1..files : outcome[f] \in {"doc", "nothing"}
        /\ Elements(result) = Documents

(***************************************************************************)
(* Whatever the counters do, a file gives at most one document: pop hands  *)
(* it to one worker, once, and each append survives.                       *)
(***************************************************************************)
HandledOnce ==
    /\ Elements(data) = Documents
    /\ \A i, j \in DOMAIN data : data[i] = data[j] => i = j

(***************************************************************************)
(* The members of the derived class are destroyed before ~BaseDataLoader   *)
(* waits for the workers.  That is safe when Load was called first and no  *)
(* counter has raced: no worker is inside callback() by then.              *)
(***************************************************************************)
CallbackOnLiveObject ==
    result # NoResult /\ NoRace /\ ~alive => \A w \in Workers : ~Extracting(w)

(***************************************************************************)
(* Every worker initialises the PDF library and every worker destroys it,  *)
(* yet none destroys it under another's extraction: all counters were seen *)
(* at zero before the first worker could leave its loop.                   *)
(***************************************************************************)
LibraryUpWhileExtracting ==
    NoRace /\ loader = "PDF" => \A w \in Workers : Extracting(w) => library

(***************************************************************************)
(* No worker outlives the object, and when the destructor returns and no   *)
(* counter has raced, no request was dropped: even without a Load every    *)
(* queue has been emptied and every worker that was started left its loop  *)
(* in order.                                                               *)
(***************************************************************************)
CleanShutdown ==
    pc = "gone" =>
        \A w \in 1..Size :
            /\ wpc[w] \in {"none", "done", "failed"}
            /\ NoRace => wpc[w] # "failed" /\ queue[w] = <<>>

(***************************************************************************)
(* After the first Load m_dataVector no longer changes, so that the        *)
(* unlocked loops of KeywordExists and GetKeywordOccurences are safe.      *)
(***************************************************************************)
DataStable == [][result # NoResult /\ NoRace => data' = data]_vars

(***************************************************************************)
(* Load and the destructor return, unless an extraction has thrown or a    *)
(* counter has raced: one token is released for N workers, and the others  *)
(* notice m_killThread when their timed wait ends.                         *)
(***************************************************************************)
Broken == \E w \in Workers : raced[w] \/ wpc[w] = "failed"
CallsReturn == pc \in {"wait", "drain"} ~> pc \in {"ready", "gone"} \/ Broken

(***************************************************************************)
(* A worker that throws does not take the others with it: a request that   *)
(* is queued is extracted, unless it is its own worker that has thrown or  *)
(* lost an update.                                                         *)
(***************************************************************************)
QueuedIsHandled ==
    \A f \in Files :
        f <= files /\ pc = "ready" ~>
            outcome[f] # "pending" \/ raced[Target(f)] \/ wpc[Target(f)] = "failed"

(***************************************************************************)
(* The loader implements LoaderSpec: a caller who is told nothing of       *)
(* threads sees files extracted one by one and Load return all of them.    *)
(***************************************************************************)
Promise == INSTANCE LoaderSpec WITH
    loaded <- IF result = NoResult THEN {0} ELSE Elements(result),
    lossy <- ~NoRace
ImplementsLoaderSpec == Promise!Spec

(***************************************************************************)
(* "threadRemainingWork: Shows the remaining work" (src/binding.cpp): once *)
(* the constructor has returned and the worker is not inside its --, the   *)
(* counter is the number of requests queued or in the worker's hand.  The  *)
(* code breaks this: the ++ and the -- lose updates.                       *)
(***************************************************************************)
ShowsRemainingWork ==
    \A w \in Workers :
        pc = "ready" /\ wpc[w] # "decStore" => remaining[w] = Outstanding(w)
=============================================================================
