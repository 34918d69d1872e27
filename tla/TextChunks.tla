----------------------------- MODULE TextChunks ------------------------------
(***************************************************************************)
(* Cutting documents into chunks: ProcessDocuments and                     *)
(* ProcessSingleDocument of ChunkDefault, ChunkSimilarity and ChunkCount,  *)
(* with Chunk::SplitText and Chunk::SplitTextByCount.                      *)
(*                                                                         *)
(* A text is its length and the positions where the matches of the regular *)
(* expression end; a chunk says which document and which stretch of it it  *)
(* holds, the bytes from + 1 to `to`.  ProcessDocuments is an OpenMP loop: *)
(* each document is split on some thread and appended to the result in a   *)
(* critical section, in the order the threads get there.  An exception     *)
(* cannot leave the loop: it ends the process.                             *)
(***************************************************************************)
EXTENDS Integers, Sequences

CONSTANTS
    MaxDocs,   \* bound: documents of a call
    MaxLen,    \* bound: length of a text
    MaxSize,   \* bound: chunk_size, count_threshold and overlap
    Modulus,   \* 2^64, the number of values of size_t
    ModelRows, \* the batch_size that EmbeddingHuggingFaceTransformers uses
    MaxTokens, \* bound: tokens of all the texts given to the tokenizer
    TokenLogits \* the numbers that the model gives for a token

ASSUME TextAssumption ==
    /\ MaxDocs \in Nat /\ MaxLen \in Nat /\ MaxSize \in Nat
    /\ ModelRows \in Nat \ {0} /\ MaxTokens \in Nat /\ TokenLogits \in Nat \ {0}
    /\ Modulus \in Nat /\ Modulus > MaxLen + 2 * MaxSize + 2

VARIABLES
    how,        \* the splitter, its parameters, one document or several; of a
                \* local model, whether tokenizer.json makes the texts equally long
    docs,       \* the documents
    stage,      \* of each document: "todo", "counting", "split" or "added"
    loop,       \* SplitTextByCount in its thread: i and start_idx
    local,      \* its chunks, in the thread that splits it
    documents,  \* the result
    pc          \* of the call

textVars == <<how, docs, stage, loop, local, documents, pc>>

Vendors == {"openai", "huggingface", "cohere"}
Kinds == {"default", "count"} \cup Vendors
size_t(x) == x % Modulus
CeilDiv(a, b) == (a + b - 1) \div b

-----------------------------------------------------------------------------
(***************************************************************************)
(* SplitText.                                                              *)
(***************************************************************************)
\* Mutant of Step.
StepTooLong(overlap, chunk_size) == size_t(chunk_size - overlap + 1)

Step(overlap, chunk_size) == size_t(chunk_size - overlap)

\* substr(start, end - start): an end before start wraps, the rest is taken.
SplitText(d, len, overlap, chunk_size) ==
    LET step == Step(overlap, chunk_size)
        from(i) == (i - 1) * step
        end(i) == size_t(from(i) + chunk_size)
    IN  [i \in 1..CeilDiv(len, step) |->
            [doc |-> d, from |-> from(i),
             to |-> IF end(i) >= len \/ end(i) < from(i) THEN len ELSE end(i)]]

-----------------------------------------------------------------------------
Ends(len) == {e \in UNION {[1..m -> 1..len] : m \in 0..len} :
                 \A i, j \in DOMAIN e : i < j => e[i] < e[j]}
Texts(kind) == {t \in [len : 0..MaxLen, ends : UNION {Ends(n) : n \in 0..MaxLen}] :
                   t.ends \in IF kind = "count" THEN Ends(t.len) ELSE {<<>>}}

\* The constructors refuse an overlap that is not below chunk_size; ChunkCount's
\* refuses nothing.
Splitters ==
    {h \in [kind : Kinds, overlap : -1..MaxSize, size : -1..MaxSize, single : BOOLEAN,
            padded : BOOLEAN] :
        /\ h.kind = "count" \/ h.overlap < h.size
        /\ h.padded => h.kind = "huggingface"}

TextInit ==
    /\ how \in Splitters
    /\ docs \in UNION {[1..n -> Texts(how.kind)] : n \in 1..MaxDocs}
    /\ how.single => Len(docs) = 1
    /\ stage = [d \in DOMAIN docs |-> "todo"]
    /\ loop = [d \in DOMAIN docs |-> [i |-> 0, start |-> 0]]
    /\ local = [d \in DOMAIN docs |-> <<>>]
    /\ documents = <<>>
    /\ pc = "chunking"

\* An exception of the loop's body, or of ProcessSingleDocument.
Fail ==
    /\ pc' = IF how.single THEN "threw" ELSE "terminated"
    /\ UNCHANGED <<how, docs, stage, loop, local, documents>>

Undefined ==
    /\ pc' = "undefined"
    /\ UNCHANGED <<how, docs, stage, loop, local, documents>>

Trap ==
    /\ pc' = "trapped"
    /\ UNCHANGED <<how, docs, stage, loop, local, documents>>

Keep(d, chunks) ==
    /\ local' = [local EXCEPT ![d] = chunks]
    /\ stage' = [stage EXCEPT ![d] = "split"]
    /\ UNCHANGED <<how, docs, loop, documents, pc>>

Todo(d) == pc = "chunking" /\ stage[d] = "todo"

SplitBySize(d) ==
    /\ Todo(d)
    /\ how.kind = "default"
    /\ Keep(d, SplitText(d, docs[d].len, how.overlap, how.size))

(***************************************************************************)
(* SplitTextByCount.  FindAndConsume has cut the matches off `text`: what  *)
(* is left is the tail behind the last match, and it is the tail that the  *)
(* loop takes its chunks from, at positions computed for the whole input.  *)
(***************************************************************************)
SplitByCount(d) ==
    /\ Todo(d)
    /\ how.kind = "count"
    /\ stage' = [stage EXCEPT ![d] = "counting"]
    /\ UNCHANGED <<how, docs, loop, local, documents, pc>>

\* One turn of the loop.  With a threshold of 0 it reads matches[-1]; substr
\* throws when it is to start behind the end.
CountTurn(d) ==
    LET matches == docs[d].ends
        base == matches[Len(matches)]
        tail == docs[d].len - base
        start_idx == loop[d].start
        j == size_t(loop[d].i + how.size)
        end_idx == IF j < Len(matches) THEN matches[j] ELSE tail + 1
    IN
    /\ stage[d] = "counting" /\ pc = "chunking"
    /\ loop[d].i \in 0..(Len(matches) - 1)
    /\ \/ j = 0 /\ Undefined
       \/ j # 0 /\ start_idx > tail /\ Fail
       \/ /\ j # 0 /\ start_idx <= tail
          /\ local' = [local EXCEPT ![d] = Append(@,
                [doc |-> d, from |-> base + start_idx,
                 to |-> base + (IF end_idx \in start_idx..tail THEN end_idx ELSE tail)])]
          /\ loop' = [loop EXCEPT ![d] = [i |-> @.i + how.size,
                start |-> IF end_idx > size_t(how.overlap) THEN end_idx - how.overlap ELSE 0]]
          /\ UNCHANGED <<how, docs, stage, documents, pc>>

CountEnds(d) ==
    /\ stage[d] = "counting" /\ pc = "chunking"
    /\ loop[d].i \notin 0..(Len(docs[d].ends) - 1)
    /\ stage' = [stage EXCEPT ![d] = "split"]
    /\ UNCHANGED <<how, docs, loop, local, documents, pc>>

\* Mutant of Rows: start_idx <= chunks.size().
RowsOneBatchMore(n) ==
    CASE how.kind = "huggingface" -> {n * (n \div ModelRows + 1)}
      [] how.kind = "openai" -> 0..n
      [] how.kind = "cohere" -> {0}

\* The number of embeddings of n chunks: EmbeddingModelBatch encodes them all
\* in every batch, EmbeddingOpeanAI skips an answer without a vector, and
\* nothing serves the vendor cohere.
Rows(n) ==
    CASE how.kind = "huggingface" -> {n * CeilDiv(n, ModelRows)}
      [] how.kind = "openai" -> 0..n
      [] how.kind = "cohere" -> {0}

(***************************************************************************)
(* EncodeBatch: ii[i] is the number of tokens of the texts 1..i, whose ids *)
(* EmbeddingModelBatch writes one behind the other.  The input has a row   *)
(* for each text, with as many ids as the first has; the tensor is refused *)
(* if there are not so many.  The division by the number of ids traps if   *)
(* there is none.                                                          *)
(***************************************************************************)
Encodings(n) == {ii \in [1..n -> 0..MaxTokens] : \A i \in 1..(n - 1) : ii[i] <= ii[i + 1]}
Before(ii, i) == IF i = 1 THEN 0 ELSE ii[i - 1]
Even(ii) == \A i \in DOMAIN ii : ii[i] = i * ii[1]
FillsInput(ii) == Len(ii) * ii[1] <= ii[Len(ii)]
NumLabels(ii) == (Len(ii) * ii[1] * TokenLogits) \div ii[Len(ii)]

\* toTensor reads as many numbers of each row as the first has.
ShortRow(ii) ==
    /\ ii[Len(ii)] > 0 /\ FillsInput(ii) /\ NumLabels(ii) > 0
    /\ \E i \in DOMAIN ii : ii[i] - Before(ii, i) < ii[1]

Orders(n) == {p \in [1..n -> 1..n] : \A i, j \in 1..n : p[i] = p[j] => i = j}

\* ChunkSimilarity sorts the embeddings and takes the chunks with their indices.
\* toTensor reads the first embedding.  What is kept is not told by the vectors:
\* any order of the chunks.
SplitBySimilarity(d) ==
    LET chunks == SplitText(d, docs[d].len, how.overlap, how.size) IN
    /\ Todo(d)
    /\ how.kind \in Vendors
    /\ \/ \E r \in Rows(Len(chunks)) :
             IF r = 0 \/ r > Len(chunks)
               THEN Undefined
               ELSE \E p \in Orders(r) : Keep(d, [i \in 1..r |-> chunks[p[i]]])
       \/ /\ how.kind = "huggingface" /\ chunks # <<>>
          /\ \E ii \in Encodings(Len(chunks)) :
                /\ how.padded => Even(ii)
                /\ \/ ii[Len(chunks)] = 0 /\ Trap
                   \/ ShortRow(ii) /\ Undefined
       \/ how.kind # "cohere" /\ Fail

\* Mutant of AddChunks: one chunk at a time.
AddChunk(d) ==
    /\ pc = "chunking"
    /\ stage[d] = "split"
    /\ documents' = documents \o SubSeq(local[d], 1, 1)
    /\ stage' = [stage EXCEPT ![d] = IF Len(local[d]) <= 1 THEN "added" ELSE @]
    /\ local' = [local EXCEPT ![d] = IF Len(@) <= 1 THEN @ ELSE Tail(@)]
    /\ UNCHANGED <<how, docs, loop, pc>>

\* The critical section.
AddChunks(d) ==
    /\ pc = "chunking"
    /\ stage[d] = "split"
    /\ documents' = documents \o local[d]
    /\ stage' = [stage EXCEPT ![d] = "added"]
    /\ UNCHANGED <<how, docs, loop, local, pc>>

Return ==
    /\ pc = "chunking"
    /\ \A d \in DOMAIN docs : stage[d] = "added"
    /\ pc' = "chunked"
    /\ UNCHANGED <<how, docs, stage, loop, local, documents>>

TextStep ==
    \/ \E d \in DOMAIN docs :
          \/ SplitBySize(d) \/ SplitByCount(d) \/ CountTurn(d) \/ CountEnds(d)
          \/ SplitBySimilarity(d) \/ AddChunks(d)
    \/ Return

-----------------------------------------------------------------------------
Chunk == [doc : 1..MaxDocs, from : 0..MaxLen, to : 0..MaxLen]

TextTypeOK ==
    /\ how \in Splitters
    /\ docs \in Seq(Texts(how.kind)) /\ Len(docs) \in 1..MaxDocs
    /\ stage \in [DOMAIN docs -> {"todo", "counting", "split", "added"}]
    /\ loop \in [DOMAIN docs -> [i : Int, start : Nat]]
    /\ local \in [DOMAIN docs -> Seq(Chunk)]
    /\ documents \in Seq(Chunk)

Covers(chunks, d) ==
    \A p \in 1..docs[d].len : \E i \in DOMAIN chunks :
        chunks[i].doc = d /\ chunks[i].from < p /\ p <= chunks[i].to

(***************************************************************************)
(* With an overlap that is not negative SplitText loses nothing: no chunk  *)
(* is empty or longer than chunk_size, every byte is in one, and two       *)
(* neighbours share `overlap` bytes, or as many as the text has left.      *)
(***************************************************************************)
ChunksCoverText ==
    how.kind = "default" /\ how.overlap >= 0 =>
        \A d \in DOMAIN docs : stage[d] # "todo" =>
            LET c == local[d] IN
            /\ Covers(c, d)
            /\ \A i \in DOMAIN c : c[i].from < c[i].to /\ c[i].to - c[i].from <= how.size
            /\ \A i \in 1..(Len(c) - 1) :
                  c[i].to - c[i + 1].from =
                      IF docs[d].len - c[i + 1].from < how.overlap
                        THEN docs[d].len - c[i + 1].from ELSE how.overlap

(***************************************************************************)
(* Whatever order the OpenMP threads end in, the chunks of a document stay *)
(* together and in their order, and none is lost or doubled.               *)
(***************************************************************************)
DocumentsStayWhole ==
    /\ \A d \in DOMAIN docs : stage[d] = "added" =>
          \E at \in 0..(Len(documents) - Len(local[d])) :
             /\ \A i \in 1..Len(local[d]) : documents[at + i] = local[d][i]
             /\ \A k \in DOMAIN documents : documents[k].doc = d => k - at \in 1..Len(local[d])
    /\ \A k \in DOMAIN documents :
          documents[k].doc \in DOMAIN docs /\ stage[documents[k].doc] = "added"

(***************************************************************************)
(* Memory is read out of bounds only by a ChunkCount with a threshold of 0 *)
(* and by a ChunkSimilarity without any vector or, with the local model,   *)
(* for an empty text, for one of more chunks than a batch of the model,    *)
(* and for one of more than two chunks if they are not equally long to the *)
(* tokenizer.  (Of two, a shorter second is refused as an input.)          *)
(***************************************************************************)
OutOfBoundsOnlyBy ==
    pc = "undefined" =>
        \/ how.kind = "count" /\ how.size = 0
        \/ how.kind \in {"openai", "cohere"}
        \/ /\ how.kind = "huggingface"
           /\ \E d \in DOMAIN docs :
                 \/ docs[d].len = 0
                 \/ docs[d].len > ModelRows * (how.size - how.overlap)
                 \/ ~how.padded /\ docs[d].len > 2 * (how.size - how.overlap)

(***************************************************************************)
(* SplitTextByCount splits the text: one with a match is in its chunks, if *)
(* the threshold and the overlap make sense.                               *)
(***************************************************************************)
CountKeepsText ==
    how.kind = "count" /\ how.size >= 1 /\ how.overlap >= 0 =>
        \A d \in DOMAIN docs :
            stage[d] \in {"split", "added"} /\ docs[d].ends # <<>> => Covers(local[d], d)
=============================================================================
