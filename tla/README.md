# Verification of purecpp

purecpp is the C++ core of a retrieval-augmented-generation toolkit, bound to
Python by pybind11.  It loads documents, extracts metadata from them, splits
them into chunks, embeds the chunks, and finds those that answer a question.
It has no tests.  This directory holds TLA+ models of its stateful parts, the
TLC runs that check them, and proofs checked by TLAPS.  `PROJECT.json` lists
the runs, the source lines each definition stands for, the hazards and the
theorems.  Paths below are relative to the repository.

## 1. The system

| Component | State | Operations | What makes it hard |
|---|---|---|---|
| **DataLoader** (`components/DataLoader`): `BaseDataLoader` and the TXT, DOCX, PDF and Web loaders | N worker threads, a queue and an unsynchronised counter for each, `m_killThread`, a binary semaphore, `m_dataVector` | construct (starts the threads, lists the files, deals them out), `Load`, `KeywordExists`, `GetKeywordOccurences`, destroy | lost updates, spin loops, exceptions in workers, order of destruction, a process-wide PDF library |
| **ThreadSafeQueue** (`libs/ThreadSafeQueue`) | a deque behind a mutex | `push`, `pop`, `size` | nothing by itself; what its users conclude from `size` |
| **MetadataExtractor** | per call: a pool of threads with a queue each, a mutex, `returnDocuments` | `ProcessDocument`, `ProcessDocuments` | an empty queue is not a processed one, dropped exceptions, the interpreter lock |
| **Chunk stores** (`ChunkDefault`) | a list of chunks, a vector of embeddings | `ProcessDocuments`, `CreateEmb`, `clear` | other objects point into its vectors |
| **ChunkQuery** | pointers and spans into a store, an embedded question, the last hits | construct, `setChunks`, `Query` (two), `Retrieve`, `StrQ` | stale pointers, calls that fail half-way, the order of calls |
| **Text splitting and batching** (`ChunkCommons`, `ChunkCount`, `ChunkSimilarity`) | parameters; per call: OpenMP threads, a result behind a critical section | construct, `ProcessSingleDocument`, `ProcessDocuments`; `SplitText`, `SplitTextByCount`, `EmbeddingModelBatch`, `MeanPooling` | index arithmetic between `int` and `size_t`, order of threads, exceptions inside an OpenMP loop |
| **Embedding** | an API key | `SetAPIKey`, `GenerateEmbeddings` | batches, mismatched answers |
| **VectorDatabase** | registry: a map behind a mutex; Redis backend: a connection to a server that others use too; wrappers: a mutex, statistics | `register_backend`, `make`, `list`; `insert`, `query`, `query_many`, `close`; `snapshot`, `reset` | queries beside a close, one thread per query, an index made by two at once, pipelines that fail half-way or late |
| **ChatHistory** | a deque behind a shared mutex | add (one, many), get, clear, size, an OpenMP benchmark | a team that reads for the owner of the lock, a team whose messages must come out in order |
| **CleanData** | patterns; the number of OpenMP threads of its caller | `ProcessDocument(s)` | replacements that undo one another, an exception in an OpenMP loop, a setting that outlives the call |
| **Python binding** (`src/binding.cpp`) | object lifetimes, the interpreter lock | all of the above | no `keep_alive`, no `gil_scoped_release` |

How they interact.  A Python program calls one function at a time, and holds
the interpreter lock until it returns.  A loader gives a vector of documents;
`ChunkDefault::ProcessDocuments` splits them, `CreateEmb` sends the chunks to
the OpenAI API through `Chunk::Embeddings` (three attempts) and
`EmbeddingOpenAI::GenerateEmbeddings`.  A `ChunkQuery` is given a pointer to a
`ChunkDefault` and the position of one of its embeddings; it embeds its
question through the same functions and compares it with every row.  The
vector database is an alternative to `ChunkQuery`; its wrappers implement the
interface of the backend they wrap and are used from C++.  Only DataLoader and
MetadataExtractor start threads that run beside their caller;
`ConcurrentSearchWrapper` is written to be called by several and starts one
thread for each query of a `query_many`.  The registry, the metrics and
`ChatHistory` have mutexes of their own and may be used by any thread of a C++
program; the server behind the Redis backend is shared by processes.  All
OpenMP loops of a thread take their number of threads from the same setting,
which `ContentCleaner::ProcessDocuments` changes.  Nothing is persisted by the
program itself, so that there is no crash recovery to model.

What makes each part correct:

- DataLoader: `Load` returns the documents of all files, once each; no thread
  touches an object that is gone; calls return.
- MetadataExtractor: every document comes back once; the call ends.
- ChunkDefault: row i of an embedding is the embedding of chunk i.
- ChunkQuery: scores and texts belong together; no read of freed memory as
  long as the store is left alone; a failed call leaves an object of one piece.
- ConcurrentSearchWrapper: what it says of serialisation; results in order.
- Redis backend and registry: one index for a name in a process; a rejected
  `insert` leaves nothing, one that returns has passed on everything; what is
  stored is covered by the index.
- MetricsWrapper: every call is counted once, the way it ended.
- ChatHistory: batches are added whole and in order, reads see one moment.
- CleanData: every document comes back cleaned, in its place.
- Splitting and batching: every byte is in a chunk, every text is embedded
  once; loops end.

## 2. Modules

| Module | Models |
|---|---|
| `LoaderSpec` | what a loader promises: the abstract specification |
| `DataLoader` | one loader with its caller and workers; implements `LoaderSpec` |
| `DataLoaderProofs` | the theorems about `DataLoader` |
| `MetadataExtractor` | one call of `ProcessDocuments` |
| `MetadataProofs` | the theorems about `MetadataExtractor` |
| `ChunkDefault` | the stores |
| `ChunkQuery` | a query object; EXTENDS `ChunkDefault`, whose actions interleave with its own |
| `MCChunkQuery` | symmetry for TLC |
| `QueryProofs` | the theorems about `ChunkDefault` and `ChunkQuery` |
| `ManySpec` | what `query_many` promises: the abstract specification |
| `ConcurrentSearch` | the concurrent wrapper over a Redis backend, with its client threads; implements `ManySpec` |
| `ConcurrentProofs` | the theorems about `ConcurrentSearch` |
| `TextChunks` | the three splitters: documents cut by the threads of an OpenMP loop |
| `EmbedBatches` | EXTENDS `TextChunks`: what it returns is embedded in batches |
| `TextProofs` | the theorems about `TextChunks` and `EmbedBatches` |
| `VectorSpec` | what `insert` promises: the abstract specification |
| `RedisBackend` | the registry and the Redis backends that the threads of several processes make, with their server |
| `MetricsWrapper` | EXTENDS `RedisBackend`: every backend in its metrics wrapper; implements `VectorSpec` |
| `MCMetricsWrapper` | the instance for TLC |
| `VectorProofs` | the theorems about the registry and the index |
| `MetricsProofs` | EXTENDS `VectorProofs`: the theorems about `insert` and the statistics |
| `OpenMP` | what the loops take from the OpenMP runtime (external): a team, its static schedule, the number of threads of a caller |
| `ContentCleaner` | the cleaner with its OpenMP loop |
| `HistorySpec` | what a chat history promises: the abstract specification |
| `ChatHistory` | the chat history with its OpenMP loops; implements `HistorySpec` |
| `Session` | composes `ContentCleaner` and `ChatHistory` over one `OpenMP` |
| `MCSession` | the instance for TLC |
| `SessionProofs` | the theorems about `OpenMP`, `ContentCleaner` and `ChatHistory` in a session |

### DataLoader

`pc` is the caller's place: the constructor (`spawn`, `list`, `push`,
`incLoad`, `incStore`, or `syncPrefix`, `sync` without threads), `ready`
between calls, `wait` in `WaitFinishWorkload`, then the destructor (`drain`,
`release`, `join`, `gone`).  `wpc[w]` is worker w's place in the lambda of
`AddThreadsCallback`.  `queue[w]` and `remaining[w]` are `threadQueue` and
`threadRemainingWork`.

The counter is a plain `unsigned int`, incremented by the caller and
decremented by the worker.  The Release build is `-O0` (CMakeLists.txt:16), so
each of the two is a load and a store: two steps, with the loaded value in
`reg` or `wreg`.  Formally this is a data race; lost updates are the outcomes
this build can produce.  `raced[w]` remembers that caller and worker have both
been between load and store of one counter.  Most properties are stated for
behaviours in which that has not happened (`NoRace`), and
`ShowsRemainingWork` shows that it can.  No property gives up on the rest:
`HandledOnce` and the termination of workers hold with the race as well.

The PDF library's `FPDF_InitLibrary` and `FPDF_DestroyLibrary` are not counted;
`library` is a Boolean that the first prefix sets and any suffix clears.
`alive` says whether the members of the derived class still exist: C++ destroys
them before `~BaseDataLoader` runs.

A constructor can throw: when a thread cannot be started (`SpawnThrows`), when
the files cannot be listed, or in a callback where there are no threads.  The
members go and `~BaseDataLoader` stops the threads there are; a queue without a
`threadRunner` is passed over.

### MetadataExtractor

One call with `maxWorkers` threads and `docs` documents, from the creation of
the pool to the end of its destructor.  The locals go in the reverse of the
order they are declared in (MetadataExtractor.cpp:17-21): `returnDocuments`,
`mutex`, `threadYield` and `killThread` (`DestroyLocals`), and only then
`threadPool`, which destroys each queue and then waits for its worker.  In
between workers lock, push and yield with objects that are gone.  Formally
that is undefined; the destructors of the mutex, the semaphore and the flag
leave memory in the frame of the call as it is, so that the worker goes on.

`elided` says whether the compiler builds `returnDocuments` in the caller's
storage: GCC and Clang do; MSVC with `/Od` (CMakeLists.txt:13) moves it out at
`return` (`moved`), without the mutex.  A `push_back` at the same time is a race
(`Race`), after which nothing is said (`undefined`); one that comes later goes
into a vector that was destroyed and is lost.

A thread that cannot be started (`SpawnFails`) unwinds the call: `killThread` is
not set, and `~threadPool` waits for the workers that were started.

The extractor is one that never throws (regex), one that may (HF), or one
written in Python, which needs the interpreter lock.

### ChunkDefault and ChunkQuery

A store's chunks are reduced to the `ProcessDocuments` call they come from (the
`batch`) and their number.  `buffer` and `flat` are names of heap blocks, given
out by a counter, so that the model can tell whether a pointer still points to
what it did: `push_back` into a full vector takes a new block and keeps each
element's own, `clear` keeps the vector's block, and the next element goes to
the same place.  `version` counts the events that make pointers into the store
invalid.

The functions of `ChunkQuery` call one another and can fail at several places,
after some assignments.  Each is an operator that gives the set of outcomes:
the object's new state and whether the call returned, threw, or read memory
that had been given back.  `Then` chains them.  The interpreter runs one call
at a time, so that a call is one step, and the actions of the stores come
between.

### ConcurrentSearch

Threads are clients and the tasks of their `query_many`.  Lock, the access to
`backend_`, the use of the connection and unlock are separate steps wherever
another thread can see the difference.  `undefined` is set by a call through
the null `backend_` or on a connection that a close took away.  `query_many`
starts its searches outside its `try`: where the system has no thread left
(`LaunchFails`) the exception leaves the call whatever `raiseOnErr` is, and the
destructors of the futures wait for the searches that were started.

### TextChunks and EmbedBatches

A text is its length and, for `ChunkCount`, the positions where the matches of
its expression end; a chunk is a stretch of a text.  Properties such as "every
byte is in a chunk" need no letters.  `how` holds the splitter with its
parameters and whether `ProcessSingleDocument` or `ProcessDocuments` was
called.  A document goes from `todo` (through `counting`, turn by turn of the
loop of `SplitTextByCount`) to `split` on the thread that has it, its chunks
in `local`, and to `added` in the critical section; documents interleave freely,
which is every schedule and every number of threads.  `undefined` is a read out
of bounds, `trapped` a division by zero, `terminated` an exception that would
have left the OpenMP loop.

`SplitText` and `SplitTextByCount` compute in `size_t`: `Step`, the ends and
`i + count_threshold` are taken modulo `Modulus`, which stands for 2^64.

`ChunkSimilarity` sorts its embeddings, so that any order of them may come out
(`Orders`).  How many there are depends on the vendor (`Rows`): the local model
gives every chunk once for every batch of 32 (`ModelRows`), OpenAI skips an
answer without a vector, and cohere is accepted and served by nobody.

The local model is where texts meet.  `EmbeddingModelBatch` writes the token ids
of all texts one behind the other, without padding, declares an input with a row
for each text and as many columns as the first has ids, and cuts what the model
gives into stretches by the numbers of ids (ChunkCommons.cpp:142-187).  The
model has the numbers of tokens as input: `ii[i]` is how many the texts 1 to i
have, any numbers up to `MaxTokens` (`Encodings`).  `FillsInput` is what
`CreateTensor` asks for, `NumLabels` the division, `ShortRow` the read of
`toTensor` beyond a row that is shorter than the first; a batch without a token
divides by zero (`Trap`).  Whether the texts are equally long depends on
`tokenizer.json`, which may ask for padding: `how.padded` says that it does, and
both cases are modelled.

`EmbedBatches` gives the chunks to `GenerateEmbeddings` of `EmbeddingOpenAI` or
`EmbeddingModel`.  A vector is the set of the documents from whose texts it was
computed.  Of the local model `Row` computes the set from the two cuts:
`InInput(r, e)` says that row r of the input has ids of text e, `InOutput(r, d)`
that the stretch taken for text d has numbers of row r.  Outside the repository
and assumed: the service answers with the rows in the order of the texts (the
code does not look at the `index` of a row), and the model gives `TokenLogits`
numbers for each id of its input, those of a row from the ids of that row.  An
empty batch has no data in its answer.

### RedisBackend, MetricsWrapper and VectorSpec

A backend is named by the thread that has made it; every thread of its process
can use it (`Usable`).  `pc` is a thread's place: in `Registry::make` (`make`
waits for the mutex, `info` and `create` are the two requests of
`ensure_index`, sent with the mutex held), in `insert` (`pipeline`, `replies`),
in `query` (`answer`), or at `ended`, where the call has left the backend and
`measure` has yet to count it.  The check `is_open` at the start of `insert` and
its use of `redis_` are two steps, `query` has no check, and `close` takes
`redis_` away in between or under a running query: `Undefined` ends the process.

The server is external.  A request is done and answered, done with the answer
lost, refused, or never arrives.  An `FT.CREATE` may also be done when its
sender has thrown and let go of the registry's mutex, or has ended with its
process (`late`, `Unawaited`, `CreateLate`).  The `HSET`s of an `insert` stand in `wire`
from `exec` on; the server performs or refuses them one by one, also after
`exec` has thrown or the process has ended.  `index[n]` has the dimension and
prefix it was created with, by whom, and whether that was late: `FT.INFO` asks only whether there is one of this
name.  A document is its dimension and whether its JSON can be written and read
back.  `refused`, `inserts` and `ended` are history.

`VectorSpec` knows of an insert only its size and whether it is open, rejected,
failed or returned, and a set of documents that are held.

### OpenMP, ContentCleaner, ChatHistory and Session

`OpenMP` gives a caller its team: for each member the iteration it is at.  The
loops have no `schedule` clause, which every common runtime takes as static, a
stretch of the iterations for each member in the order of thread numbers;
`add_benchmark_messages_omp` needs it for its order.  Members step freely.

`ContentCleaner` keeps four kinds of characters apart, those the default
patterns tell apart, and does what RE2's `GlobalReplace` does with each pattern
in turn.  `ChatHistory` splits each function at its mutex: messages are made
before it is taken and appended under it, one at a time; `get_messages` holds it
shared while its team copies.  `HistorySpec` has no mutex and no team: `Promised`
maps the deque, with what the owner of the mutex has yet to append, to the
history.  `Session` interleaves both over the same callers.  `nthreads[c]`
outlives the call that set it, and `terminated` stops everything.

## 3. Runs

| Run | Question | Bounds |
|---|---|---|
| `dataloader` | does the loader keep its promise while no counter races? | 2 workers, 3 files, 1 page, 8 counter values, all four loaders |
| `remaining_work` | is the counter the remaining work? No | 1 worker, 2 files |
| `metadata` | what can a call lose, what outlives its locals, and does it end? | up to 3 workers and 4 documents, every extractor, both ways to return |
| `metadata_throws` | does every document come back? No | 2 and 2 |
| `metadata_python` | does a call with a Python extractor end? No | 2 and 2 |
| `chunk_query` | is a query object of one piece in every order of calls? | 2 stores, 2 models, 2 chunks, 7 blocks |
| `set_chunks` | can `setChunks` succeed on an object without a question? No | the same, 5 blocks |
| `concurrent_search` | does the wrapper serialise, end its threads, keep `ManySpec`'s promise? | 2 clients, 2 calls each, 2 embeddings |
| `text_chunks` | is every text in the chunks, in one piece, and embedded by its own vector? | 2 documents of up to 4 bytes, sizes and overlaps from -1 to 3; up to 3 chunks with 4 tokens in all, 2 numbers for a token, batches of 0 to 3, 3 rows in a batch of the model |
| `text_count` | are all parts of a text in the chunks of `ChunkCount`? No | 1 document of 3 bytes |
| `vector_store` | who can lose the creation of an index, what does a failed `insert` leave, what is covered, what is counted? | 3 threads, 2 of them in one process; 2 configurations of one index; 4 calls, 2 of them inserts of up to 2 documents; k up to 2, 1 hit |
| `session` | are texts cleaned in their places, batches and reads atomic, `max_workers` kept? | 2 threads, 3 processors; 3 lists of up to 3 texts; `max_workers` 0, 2 and 4; 3 batches of 0, 1 or 3 messages; 4 calls |

Why these bounds are enough.  `dataloader`: three files on two workers give one
worker a second file while the other has one, the least at which a worker can
be ahead in one counter and behind in the other; the width of the counter
matters only in that it wraps, which it does at 8 as at 2^32, and the theorems
below are for every width and number.  `metadata`: with four documents and
three workers one worker has two, so that its queue is not empty while it works;
one worker with several and workers with none occur as well.  `chunk_query`:
seven blocks allow two embeddings with a reallocation, or a clear and a second
embedding in the old place, or one embedding in each store.  Two texts would
double the states and no property compares texts.  `concurrent_search`: two
calls let a client close and then query, and the other one be inside a
`query_many` with two searches at the time.  `text_chunks`: three bytes with a
chunk of two and an overlap of one have a full chunk, a chunk that ends with the
text and one that lies within the overlap; four are the least that are more than
a batch of three chunks, and three chunks the least of which one can be shorter
than the first and the input still be filled; two documents are the least with an
order; a size and an overlap of -1 make each `size_t` expression wrap, and the
modulus of 16 is above every value that does not; three chunks in batches of one
to three end with a full batch and with a part of one; four tokens on three texts
are even (one each), uneven with a quotient that truncates, and uneven with all
texts of at least one, and two numbers for a token let the quotient be one where
it ought to be two.  `vector_store`:
three threads of which two share a process are the least that can lose the
index to each other and to another process; the configurations differ in
dimension and prefix, so that a backend can find an index that is not its own;
two documents are the least of which the server can do one; a limit of 1 below
k is what 10 is in Redis; four calls are two `make`s and what two threads then
do to each other, such as a `close` between the check and the use in an
`insert`.  `session`: three texts or messages on three processors give each
member one, on two one member has two; 4 is more than there are processors and 2
fewer; three batches are one inside another's addition and one after; four
calls let a thread clean twice with different limits and then use the history
while the other adds to it.

`CHECK_DEADLOCK FALSE` is set throughout: programs end, and so do the bounded
counters.

Fairness.  In `DataLoader` and `MetadataExtractor` the caller and every worker
are weakly fair: they are threads of the operating system, their spin loops
and their wait with a timeout (10 ms) leave them able to go on, and the callers'
own choices (to call `Load`, to destroy the object) are not fair.  The mutex of
`MetadataExtractor` is asked for once per document, finitely often, so that
nobody can be passed over for ever.  In `ConcurrentSearch` every thread inside
a call is weakly fair and calls are finitely many for the same reason.

What the violations mean:

- `remaining_work`: `++` and `--` lose an update.  After that the counter is
  one too high, and `Load` and the destructor never return, or passes zero
  early, and `Load` returns while an extraction is going on.
- `metadata_throws`: an exception of `ProcessDocument` ends its worker without
  a trace.  The last document of a worker is then missing from the result;
  with more of them in its queue the call never ends.
- `metadata_python`: the caller spins with the interpreter lock held.
- `set_chunks`: after preparing everything, `setChunks` embeds `m_query`; when
  that is empty it throws.  The object is usable all the same.
- `text_count`: `FindAndConsume` moves `text` past each match, and the chunks
  are then cut out of `text` at positions of the whole input.  A text with one
  match keeps only what follows the match; with more, `substr` starts behind
  the end and throws, which ends the process inside the OpenMP loop.

Four properties of passing runs also say what the code cannot do.
`ModelServesOneBatch`: `EmbeddingModel::GenerateEmbeddings` refuses every list
longer than its batch size, because each batch encodes all texts.
`OwnVector`: what it does return are the texts' own vectors exactly if the
tokenizer made all texts equally long.  `OutOfBoundsOnlyBy` lists when memory is
read out of bounds: a count threshold of 0, and a `ChunkSimilarity` without a
vector or, with the local model, with an empty text, more than one batch of
chunks, or more than two chunks that are not equally long to the tokenizer.
`PoolTornDown`: workers of `MetadataExtractor` outlive the mutex they lock, each
for the one document in its hand at most.

Some properties allow for what the code does not prevent, and say so:
`RacesOutsideLock` leaves two ways to end in "FT.CREATE falhou", the race between
processes and an index that was made late for somebody who had given up;
`CallEnds` leaves a failed thread, which hangs the call if others were started; `Searchable` leaves an index that was there
with another dimension or prefix, whose documents no query finds; `VectorSpec`
lets a failed `insert` have stored some documents, or store them later, and a
returned one have had some refused, as nobody looks at the replies.
`CleanedTexts` leaves runs of spaces where a later replacement made them.

## 4. Proofs

Every safety property of a passing run is a theorem, for every value of the
constants that the assumptions of its module allow, and so are the four
refinements.  Some theorems are in no run: they say how far a defect reaches
that a run only shows one case of, or what follows from an invariant and is
worth knowing.  The shape of each proof is the same.  An inductive
invariant (`IInv`, `HInv` or `MInv`) has named parts; one lemma per action says
that the action keeps it; theorem `Inductive` or `CallsInductive` puts them
together; the properties follow from the invariant.  The properties were checked
by TLC on the instances of the runs before they were proved.  This section says
what each invariant adds to the properties, and why they need it.

### DataLoaderProofs

For every number of workers, files, pages and every counter width that the
listing fits in (`LoaderAssumption`): each safety property of the `dataloader`
run, the refinement of `LoaderSpec`, and three facts no run repeats, `TypeOK`,
`DataStable` (`m_dataVector` does not change after the first `Load`) and
`ThrowBlocksCaller`.  `IInv` adds

- `Index`, `Unthreaded`: where the caller's loop index is at each place, and
  that without threads, or where none could be started, no worker exists;
- `Registers`: while a counter has not raced, a loaded value is the counter's
  present value.  This is why both halves of `++` and `--` keep `CounterExact`;
- `Bounded`: no worker owes more requests than were pushed, so that the
  arithmetic does not wrap other than by the one step that `CounterExact` names;
- `InOrder`, `Accounted`, `AccountedSync`: a queue is in listing order behind
  the file in the worker's hand, and a file without an outcome is in one of
  those places.  From it follow that no file is handled twice and that zero
  outstanding work means every file has an outcome;
- `SettledInv`: a counter that was seen at zero after the constructor stays so:
  that is what a pass over the counters, one after the other, needs;
- `LibraryInv`, `ResultInv`: what follows for the PDF library and the result.

The refinement maps `loaded` to the set of files in `result` and `lossy` to
"some counter has raced".

`ThrowBlocksCaller` says what one extraction that throws costs.  Its worker has
ended without the `--`, so that its counter, if it has lost no update, stays
above zero: no `Load` ever returns and the destructor does not end, whatever the
other workers do.  It is a theorem of the form `[](Unpaid => [](...))`: `Unpaid`
is kept by every step, and nobody who waits for that counter has passed it.

### MetadataProofs

For every number of workers and documents (`PoolAssumption`): all safety
properties of the `metadata` run.  `OnePlace` and `LosesOnlyInHand` count, which
no step can be followed through; `IInv` says the same by places:

- `Owned`, `Once`, `Kept`: only documents dealt out to a worker are with it, no
  document is in two places or twice in one, and each is in some place.  The
  counts follow from these by lemmas on finite sets (`PlacesAre`);
- `WorkersInStep`: a worker has a document in hand exactly from its `pop` to the
  end of `ProcessDocument`, and holds the mutex exactly around the latter;
- `QueuesDrained`: a queue the caller has seen empty stays empty, since nothing
  is dealt out after the first loop.  That is what the destructor of the pool
  relies on, and what makes "in hand" the only place left to lose one from;
- `ResultLacksOne`: of each worker's documents the result moved out at `return`
  lacks one at most.  It has to be kept, since the worker goes on.

`TornDownInOrder` is what the order of the locals leaves true: from the moment
they are destroyed every queue is empty, so that no worker pops another document
and each takes the destroyed mutex once more at most; and none outlives its place
in the pool, that is, the frame in which the locals were.

Four theorems say what never ends or is lost; the first three of them are the
general form of what `metadata_python` and `metadata_throws` show.  `OverriddenCallNeverReturns`: with `ProcessDocument`
overridden in Python no call with a document returns, for any number of workers,
and none processes a document; at the last future the worker of document 1 would
have to have ended, with nowhere for that document to be (`HeldUpAtTheEnd`).
`ThrowHangsCall`: a worker that threw with another document in its queue hangs
the call for good.  `DropsWhatThrew`: a call that does return lacks every
document that threw and, unless its result is moved out, no other.
`FailedStartHangsCall`: if a thread other than the first cannot be started, the
call stays in its unwinding for good, as nobody sets `killThread`.

### QueryProofs

For every number of stores, models, texts and chunks, from `SentinelAssumption`
(the values that stand for a null pointer are not stores or models): all safety
properties of the `chunk_query` run, of which `UsableUntilStale` says least about
the states it must survive.  `IInv` adds, of the stores, `FlatsDiffer` (no two
embeddings, of one store or of two, have had the same block of floats), and of
the object

- `Whole`: until it is stale its pointer is to the element its spans are over;
- `Owner`: stale or not, only that element can own the memory of its spans.
  Without it, spans over a block that another embedding had taken would pass for
  readable, and `HitsComparable` would not survive the next `Query`;
- `AskedByModel`: as long as the spans can be read the question is by their
  model.  It holds after a call that failed between its assignments because
  `Prepared` and `Fresh` take the question away with the spans.

The invariant is not stated for the object between two of the calls that the
functions make but for their outcomes: `Fine` says what a call may end in, each
operator of the model has a lemma that its outcomes are fine if its object is
good, and `Then` chains them as the code does.

`QuestionsAnswered` is what a caller gets from it: until its store is deleted,
cleared or grown, an object with an embedded question answers `Retrieve(0.5)`,
whatever calls failed before, and lists the store's present batch.

### ConcurrentProofs

For every number of clients, embeddings and calls, thread-safe backend or not
(`WrapperAssumption`): all safety properties of the `concurrent_search` run.
`IInv` adds

- `MutexHeld`: `mtx` is the thread in `insert`, in `close`, or in a query of a
  backend that is not thread-safe, and nobody else's;
- `ClosedFirst`: `backend_` is null only after the connection was closed, and in
  between some thread is on its way from the one to the other;
- `Tasks`: the tasks of a call are those of the indices its loops have passed,
  in `launch`, in `collect` and in the unwinding after an exception;
- `Results`: what has been collected so far is in its place, and all of it is
  there if the call is to raise.

`QueryManyImplemented` maps to `ManySpec`: a call is open in the two loops and in
the unwinding (`InCall`), an answer is what the future of a task holds
(`Answered`), and the list of a call that has not returned is nothing.  The start
of a call maps to `Begin`, a launch to `Start`, the end of a task to `Answer`, the
last step of the second loop or of the unwinding to `End`, and all else, a launch
that fails, the collecting and every call of another kind, to a stutter.  The abstract `End`
takes the list and the reason to throw from the answers, the code from what its
loop has met, one index after the other, while the tasks end in any order.
`GInv` is the bridge: in `collect`, `out` is exactly the result of the indices
passed, and none of them failed if the call is to raise; in the unwinding, some
search was not started, or one has failed and the call is to raise.  `ResultsInOrder` says of `out` itself
what `ManySpec` says of the list.

### TextProofs

For every number of documents, length, size, overlap from -1 and batch size, as
long as lengths and sizes together stay below the modulus (`TextAssumption`):
the safety properties of the `text_chunks` run.  Its heart is arithmetic:
`CeilDivBounds` (the chunks reach the end and the last begins before it),
`PointInStep` (every byte is in one step) and `TimesMonotone` lead to
`SplitTextShape`, `SplitTextEnd` and the theorem `SplitTextCovers`.  The
invariant `IInv` adds to the properties `SplitInv` (a document that has been
split is what `SplitText` makes of it) and `EmbedInv`: `EmbeddingOpenAI` has the
right vector of each document before `start_idx`; `EmbeddingModel` has, after
its first turn, `Row(d)` for each document d at the front and, after the
second, more rows than documents.  That is why it either serves one batch or
refuses.

That the rows are the texts' own exactly if the texts are equally long has two
halves.  `EvenOwn`: then both cuts are the same multiples of the first text's
length, so that row d meets text d and no other.  `OwnEven`, the other way: if
there are more ids than the input has places, the quotient is too small and the
stretch of the second text begins in the row of the first.  If there are as many,
both cuts are the same up to a factor; where a text ended inside a row, the row
would have ids of two texts; so each ends with a row, none is shorter than the
first, and together they are as long as all would be at its length.  Then they
all are (`NoneShorter`): the least text that ends too early, or the last one that
ends too late, would contradict it.  "The least" comes from
`WellFoundedInduction` (`LeastNat`), since induction over the texts is out of the
prover's reach.  `ShortRowOfMany`: of two texts a shorter second one leaves the
input unfilled, so that toTensor's short row takes three.

`ManyRows` is the step from "more rows than chunks" to "a text longer
than a batch of chunks".  `TypeOK` is proved here (`TypeCorrect`) and in no run.
`DocumentsStayWhole` (theorem `StaysWhole`) has an invariant of its own,
`WholeInv`, which adds that the chunks a thread holds are all of its own
document (`OwnChunks`).  The property names the position at which the chunks of
a document stand and says that there are no others of it.

`CountAlwaysLoses` is the general form of `text_count`: no text but the empty one
is whole in the chunks of `ChunkCount`, since each chunk begins behind the last
match (`TailOnly`), and a text without a match has no chunk.

### VectorProofs and MetricsProofs

For any number of threads, processes, configurations, documents and calls, from
`BackendAssumption` (the shapes of configurations and documents, and that the
threads are finitely many): all safety properties of the `vector_store` run and
the refinement of `VectorSpec`.  `IInv` of `VectorProofs` adds to
`RacesOutsideLock` and `Searchable`

- `MakesUnderLock`: a thread between `FT.INFO` and `FT.CREATE` holds the mutex of
  its process, so that whoever is answered that it created an index under its
  nose is elsewhere (`LockKeepsRacesOut`); who had given up may be anywhere;
- `Indexed`: an index is never dropped, and every backend has seen or made one;
- `CommandsProper`: what is on the wire or stored has the prefix and dimension of
  its backend, which is what `Rejected` is for.

`MInv` of `MetricsProofs` says how far each `insert` has got:

- `InsertsInOrder`: of a call that is not sent, or is rejected, nothing has
  reached the server (`Untouched`); of any other the first n documents have, for
  some n, and the rest is on the wire in order (`Passing`); a call that has
  returned has nothing on the wire;
- `OneSenderEach`: an open `insert` has one thread, which has sent nothing or
  everything.  This is what lets the step of one thread leave the promise about
  every other insert alone;
- `Callers`: a call knows its backend and how it has ended, so that `measure`
  counts it the right way; `StatsExact` is inductive with it, by lemmas on the
  number of threads at `ended`, which need `IsFiniteSet(Threads)`.

The refinement is proved action by action: the call of an `insert` maps to
`Begin`, each command that the server performs or refuses to `PassNext`, the end
of the `insert` to `End`, and all else to a stutter.  `VectorSpec` is parameterised by the inserts alone, so that
it bounds neither documents nor threads.

### SessionProofs

For any number of threads, processors, texts, batches, messages and calls, from
`OpenMPAssumption`, `CleanerAssumption`, `ChatAssumption` and
`SessionAssumption` (numbers are numbers, texts are made of the four kinds of
characters).

`StaysCapped` has an invariant of its own.  `Capped`: the number of threads of a
caller is at most each positive `max_workers` it has asked for, its team is at
most that large, and there is none outside a region, which is why lowering the
number cannot leave a larger team behind.  `Sized` describes a team without
saying what its members have reached.

What the calls do needs that as well.  The lemmas from `Division` to
`MemberStretch` are about the static schedule: the stretches of the members are
disjoint, follow each other and together are the loop, for any number of members
and iterations, also with more members than iterations.  `Progress` says that
each member is within its stretch, `DoneBy` which iterations are done; a team
whose members have all finished has done all (`FinishedProgress`).  `HInv` adds

- `Cleans`: an iteration that is done has left the cleaned text in its place, or
  the process is over.  From it follows `OwnTextsCleaned`;
- `Made`, `Adds`: while a batch is made, the vector of each member is its stretch
  up to where it is; while the batch is inserted, the vectors are what is left of
  those stretches after the first `Done` messages, so that the first vector that
  is not empty has the next message (`NextLeft`): the order of the vectors is
  that of the messages because the schedule is static;
- `Copies`: what the team of a reader has copied is what is there;
- `Mutex`, `Distinct`: who owns the shared mutex owns it alone, so that the
  deque does not change under a reader or a second writer, and no two calls add
  the same batch.

`HistoryImplemented` maps to `HistorySpec`: `Promised` is the deque followed by
what the owner of the mutex has yet to append (`PromisedIs`).  The abstract `Add`
is the moment the mutex is taken, each append leaves `Promised` as it is
(`StretchConcat`), and the abstract `Read` is the moment the copy is complete.

`TextsCleaned` is `OwnTextsCleaned`, which is about the threads, and a lemma about
the patterns, `CleanedContent`: what `CleanContent` makes of a text of any length.
That looks like induction over the text, and is proved without it.  `Stays` is the
set of positions that a replacement keeps, and the result has, at j, the character
at the j-th of them.  `NthRank` and `NthNeighbours` say that this is one to one, in
order, and that nothing that stays lies between neighbours; so a replacement keeps
the letters (`RunsWords`) and puts two blanks side by side only where the text had
them (`RunsPairs`).  `StripIs` says that trimming leaves the stretch from the first to the last
character of other kinds, or nothing, and `SymbolsAre` that the pattern for the ends
of lines does the same but for a space at either end.
`CleanedContent` follows a text through the patterns in the order of the code.

### Only model-checked

Liveness (`CallsReturn` twice, `QueuedIsHandled`, `CallEnds`) is out of the
prover's reach.  Where the code does not let a call end, a theorem says so as a
safety property (`ThrowBlocksCaller`, `ThrowHangsCall`,
`OverriddenCallNeverReturns`, `FailedStartHangsCall`).  Of the runs that expect a violation,
`remaining_work` and `set_chunks` have a counterexample and nothing to prove.

## 5. Not modelled, and why

Data.  What files, regular expressions, models and the API contain or compute is
data that no property looks at.  Texts are counted in bytes: that a chunk may
end inside a UTF-8 character is not modelled.  Neither is `MeanPooling`,
arithmetic on floats, nor the distances, metric and capacity of the vector
database.  `CleanData` is modelled with its default patterns and one custom
pattern; the vertical tab and the underscore, which two of the patterns treat
differently from the rest of their kind, are left out, and so is a cleaner made
with other default patterns.

Loops that do not end.  A regular expression that matches the empty string makes
the loop of `SplitTextByCount` endless (ChunkCommons.cpp:255); the model leaves
such matches out.  A batch size of 0 makes that of `EmbeddingModelBatch` endless
(ChunkCommons.cpp:136) until the memory ends, which is `ModelExhausts`.

Single lines without a state to relate them to.  `KeywordExists` takes the
position from `find` as a truth value (BaseLoader.cpp:114).  The getters of
`ChunkQuery`: `getMod` reads through a pointer that may be null,
`getRetrieveList` is always empty, `StrQ()` always throws.  `WebLoader` destroys
twice (WebLoader.cpp:64, :79).  `query_many` starts a thread for each embedding,
and `workers_`, which the header calls the limit (concurrent.h:29), is never read
(concurrent.cpp:52).  `FT.SEARCH` is sent without `LIMIT`, so that no query has
more than ten hits (redis_backend.cpp:94).  The Python `query` copies a numpy
array of doubles as if it were one of floats (binding_vectordb.cpp:30).  An
embedding with a NaN is stored and makes every query that finds it throw
(redis_backend.cpp:245): in the model, as an end of `Search`, but no property
forbids it.

Vector database.  The connections of the pool are not counted.
`register_backend` runs while the program is loaded, and only "redis" is there;
`list` and `snapshot` read under their lock.  That `make` holds the mutex of the
registry while it waits for the network (registry.cpp:43) is in the model, how
long it waits is not.  The model assumes redis++ sends nothing of a pipeline
that an exception destroys.  `ConcurrentSearch` has its own, simpler backend;
it is not composed with `RedisBackend`.

Chat history and OpenMP.  `size` reads under the lock.  A call from Python holds
the interpreter lock throughout, so that the interleavings are those of a C++
program.  The barrier of `omp single` is folded into the start of the region,
as nobody can observe a member that waits there.  An exception for want of
memory is not modelled here or anywhere.

Without state or callers: `StringUtils`, `MUtils`, `RagException`, the Anthropic
client, packaging.

## 6. Plan

Done: `LoaderSpec`, `DataLoader`, `DataLoaderProofs`, `MetadataExtractor`,
`MetadataProofs`, `ChunkDefault`, `ChunkQuery`, `QueryProofs`, `ManySpec`,
`ConcurrentSearch`, `ConcurrentProofs`, `TextChunks`, `EmbedBatches`,
`TextProofs`, `VectorSpec`, `RedisBackend`, `MetricsWrapper`, `VectorProofs`,
`MetricsProofs`, `OpenMP`, `ContentCleaner`, `HistorySpec`, `ChatHistory`,
`Session`, `SessionProofs`.  Next, in this order:

1. An abstract specification of `ProcessDocuments` of `MetadataExtractor`, and
   its refinement as a theorem.
2. `PDFLibrary`: two loaders over one library.
3. `ConcurrentSearch` over the backends of `RedisBackend`.
