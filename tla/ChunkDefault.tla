---------------------------- MODULE ChunkDefault -----------------------------
(***************************************************************************)
(* ChunkDefault objects, the stores of the Chunk component: a list of      *)
(* chunks, filled once, and a vector of embeddings of that list, one per   *)
(* model.  Other objects keep pointers into both, so the model says where  *)
(* things are: `buffer` identifies the allocation that holds a store's     *)
(* vector `elements`, and the field `flat` of an element the allocation of *)
(* its flatVD.  push_back moves the elements into a new buffer when the    *)
(* old one is full; a moved element keeps its flatVD.  clear() destroys    *)
(* the elements and keeps the buffer.                                      *)
(*                                                                         *)
(* The text of a chunk is reduced to the ProcessDocuments call it is from: *)
(* its batch.  A call that throws changes nothing here and is a stutter    *)
(* (already initialised, no documents, no chunks, unknown or used model,   *)
(* a vendor without handler, three failed attempts at the API).            *)
(***************************************************************************)
EXTENDS Integers, Sequences

CONSTANTS
    Stores,     \* the objects
    Models,     \* the OpenAI models, the only ones Embeddings can serve
    MaxChunks,  \* bound: chunks of a store
    MaxIds      \* bound: allocations and batches

ASSUME StoreAssumption ==
    /\ MaxChunks \in Nat \ {0}
    /\ MaxIds \in Nat

VARIABLES
    alive,        \* the object exists
    initialized,  \* initialized_
    chunks,       \* the batch and the number of its chunks
    elements,     \* elements: the embeddings
    capacity,     \* elements.capacity()
    buffer,       \* the allocation that holds elements
    ids,          \* identities given out so far
    version       \* history: how often pointers to elements became invalid

storeVars == <<alive, initialized, chunks, elements, capacity, buffer, ids, version>>

Element == [model : Models, batch : 1..MaxIds, n : 1..MaxChunks, flat : 1..MaxIds]
NoChunks == [batch |-> 0, n |-> 0]

StoreInit ==
    /\ alive = [s \in Stores |-> TRUE]
    /\ initialized = [s \in Stores |-> FALSE]
    /\ chunks = [s \in Stores |-> NoChunks]
    /\ elements = [s \in Stores |-> <<>>]
    /\ capacity = [s \in Stores |-> 0]
    /\ buffer = [s \in Stores |-> 0]
    /\ ids = 0
    /\ version = [s \in Stores |-> 0]

\* Mutant of ProcessDocuments: without the check of initialized_.
ProcessDocumentsAgain(s) ==
    /\ alive[s]
    /\ ids < MaxIds
    /\ \E n \in 0..MaxChunks : chunks' = [chunks EXCEPT ![s] = [batch |-> ids + 1, n |-> n]]
    /\ initialized' = [initialized EXCEPT ![s] = TRUE]
    /\ ids' = ids + 1
    /\ UNCHANGED <<alive, elements, capacity, buffer, version>>

\* SplitText on every document; documents without text give no chunk.
ProcessDocuments(s) ==
    /\ alive[s]
    /\ ~initialized[s]
    /\ ids < MaxIds
    /\ \E n \in 0..MaxChunks : chunks' = [chunks EXCEPT ![s] = [batch |-> ids + 1, n |-> n]]
    /\ initialized' = [initialized EXCEPT ![s] = TRUE]
    /\ ids' = ids + 1
    /\ UNCHANGED <<alive, elements, capacity, buffer, version>>

isModelUsed(s, m) == \E i \in DOMAIN elements[s] : elements[s][i].model = m

\* Mutant of CreateEmb: writes behind the last element without growing.
CreateEmbInPlace(s, m) ==
    /\ alive[s]
    /\ chunks[s].n > 0
    /\ ids + 2 <= MaxIds
    /\ elements' = [elements EXCEPT ![s] =
          Append(@, [model |-> m, batch |-> chunks[s].batch, n |-> chunks[s].n, flat |-> ids + 1])]
    /\ ids' = ids + 1
    /\ UNCHANGED <<alive, initialized, chunks, capacity, buffer, version>>

\* Embeddings(chunks) has succeeded; push_back.
CreateEmb(s, m) ==
    LET full == Len(elements[s]) = capacity[s] IN
    /\ alive[s]
    /\ chunks[s].n > 0
    /\ ~isModelUsed(s, m)
    /\ ids + 2 <= MaxIds
    /\ elements' = [elements EXCEPT ![s] =
          Append(@, [model |-> m, batch |-> chunks[s].batch, n |-> chunks[s].n, flat |-> ids + 1])]
    /\ ids' = IF full THEN ids + 2 ELSE ids + 1
    /\ capacity' = [capacity EXCEPT ![s] = IF full /\ @ = 0 THEN 1 ELSE IF full THEN 2 * @ ELSE @]
    /\ buffer' = [buffer EXCEPT ![s] = IF full THEN ids + 2 ELSE @]
    /\ version' = [version EXCEPT ![s] = IF full THEN @ + 1 ELSE @]
    /\ UNCHANGED <<alive, initialized, chunks>>

\* clear() of a store that has something to clear.
Clear(s) ==
    /\ alive[s]
    /\ initialized[s]
    /\ chunks' = [chunks EXCEPT ![s] = NoChunks]
    /\ elements' = [elements EXCEPT ![s] = <<>>]
    /\ initialized' = [initialized EXCEPT ![s] = FALSE]
    /\ version' = [version EXCEPT ![s] = @ + 1]
    /\ UNCHANGED <<alive, capacity, buffer, ids>>

\* The interpreter deletes the object: nothing keeps it alive for a ChunkQuery.
Delete(s) ==
    /\ alive[s]
    /\ alive' = [alive EXCEPT ![s] = FALSE]
    /\ elements' = [elements EXCEPT ![s] = <<>>]
    /\ version' = [version EXCEPT ![s] = @ + 1]
    /\ UNCHANGED <<initialized, chunks, capacity, buffer, ids>>

StoreStep ==
    \E s \in Stores :
        \/ ProcessDocuments(s)
        \/ \E m \in Models : CreateEmb(s, m)
        \/ Clear(s)
        \/ Delete(s)

StoreTypeOK ==
    /\ alive \in [Stores -> BOOLEAN]
    /\ initialized \in [Stores -> BOOLEAN]
    /\ chunks \in [Stores -> [batch : 0..MaxIds, n : 0..MaxChunks]]
    /\ elements \in [Stores -> Seq(Element)]
    /\ \A s \in Stores : Len(elements[s]) <= capacity[s]
    /\ capacity \in [Stores -> Nat]
    /\ buffer \in [Stores -> 0..MaxIds]
    /\ ids \in 0..MaxIds
    /\ version \in [Stores -> Nat]

(***************************************************************************)
(* Every embedding of a store is one of its present chunks, row by row,    *)
(* and no model is embedded twice: ProcessDocuments refuses an initialised *)
(* store and clear() empties both lists, so that row i of flatVD is the    *)
(* embedding of chunk i.                                                   *)
(***************************************************************************)
EmbeddingsMatchChunks ==
    \A s \in Stores : \A i, j \in DOMAIN elements[s] :
        /\ initialized[s]
        /\ elements[s][i].batch = chunks[s].batch
        /\ elements[s][i].n = chunks[s].n
        /\ elements[s][i].model = elements[s][j].model => i = j
=============================================================================
