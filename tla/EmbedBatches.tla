---------------------------- MODULE EmbedBatches -----------------------------
(***************************************************************************)
(* From documents to vectors: the chunks that TextChunks returns are given *)
(* to GenerateEmbeddings of EmbeddingOpenAI or of EmbeddingModel, which    *)
(* work in batches.  A vector is the set of the documents from whose texts *)
(* it was computed: of the document's own, if all is well.                 *)
(***************************************************************************)
EXTENDS TextChunks

CONSTANTS
    MaxBatch,  \* bound: batch_size
    MaxTexts   \* bound: documents of a call of GenerateEmbeddings

ASSUME BatchAssumption == MaxBatch \in Nat /\ MaxTexts \in Nat

VARIABLES
    batch,      \* batch_size
    start_idx,  \* where the next batch starts
    ii,         \* EmbeddingModelBatch: ii behind each of the texts
    rows,       \* and its results
    vectors     \* the embedding of each document of the result

callVars == <<batch, start_idx, ii, rows, vectors>>
vars == <<textVars, callVars>>

Min(a, b) == IF a <= b THEN a ELSE b
total == Len(documents)
NoVectors == [d \in DOMAIN documents |-> {}]

Init ==
    /\ TextInit
    /\ batch = 0 /\ start_idx = 0 /\ ii = <<>> /\ rows = <<>> /\ vectors = <<>>

\* The user has the chunks embedded.  Only EmbeddingOpenAI refuses an empty list.
GenerateEmbeddings ==
    /\ pc = "chunked"
    /\ total <= MaxTexts
    /\ \/ pc' = (IF documents = <<>> THEN "refused" ELSE "openai") /\ ii' = <<>>
       \/ pc' = "model" /\ ii' \in Encodings(total)
    /\ batch' \in 0..MaxBatch
    /\ start_idx' = 0
    /\ rows' = <<>>
    /\ vectors' = NoVectors
    /\ UNCHANGED <<how, docs, stage, loop, local, documents>>

Throw ==
    /\ pc' = "refused"
    /\ UNCHANGED <<how, docs, stage, loop, local, documents, callVars>>

Empty(d) == documents[d].from = documents[d].to

\* Mutant of OpenAIBatch: doc_index without the start of the batch.
OpenAIBatchFromZero ==
    LET end_idx == Min(start_idx + batch, total)
        batch_texts == [b \in 1..(end_idx - start_idx) |-> start_idx + b]
    IN
    /\ pc = "openai"
    /\ start_idx < total
    /\ batch_texts # <<>>
    /\ \A b \in DOMAIN batch_texts : ~Empty(batch_texts[b])
    /\ vectors' = [d \in DOMAIN vectors |->
                      IF d \in DOMAIN batch_texts THEN {batch_texts[d]} ELSE vectors[d]]
    /\ start_idx' = start_idx + batch
    /\ UNCHANGED <<textVars, batch, ii, rows>>

\* A batch that the service answers with one row for each text, in their order.
OpenAIBatch ==
    LET end_idx == Min(start_idx + batch, total)
        batch_texts == [b \in 1..(end_idx - start_idx) |-> start_idx + b]
    IN
    /\ pc = "openai"
    /\ start_idx < total
    /\ batch_texts # <<>>
    /\ \A b \in DOMAIN batch_texts : ~Empty(batch_texts[b])
    /\ vectors' = [d \in DOMAIN vectors |->
                      IF d - start_idx \in DOMAIN batch_texts
                        THEN {batch_texts[d - start_idx]} ELSE vectors[d]]
    /\ start_idx' = start_idx + batch
    /\ UNCHANGED <<textVars, batch, ii, rows>>

\* An empty text, no answer, an error, no data (all there can be for an empty
\* batch), too few rows, a row without a vector.
OpenAIFails ==
    /\ pc = "openai"
    /\ start_idx < total
    /\ Throw

(***************************************************************************)
(* The model gives TokenLogits numbers for each id of a row of its input,  *)
(* from the ids of that row.  From these the code takes as many for each   *)
(* text as the text has ids times numLabels, one text behind the other.    *)
(***************************************************************************)
\* Of two stretches, from the one number to the other: they share something.
Meet(from, to, start, end) == from < to /\ start < end /\ from < end /\ start < to

InInput(r, e) == Meet(Before(ii, e), ii[e], (r - 1) * ii[1], r * ii[1])
InOutput(r, d) ==
    Meet(Before(ii, d) * NumLabels(ii), ii[d] * NumLabels(ii),
         (r - 1) * (ii[1] * TokenLogits), r * (ii[1] * TokenLogits))
Row(d) == {e \in 1..total : \E r \in 1..total : InOutput(r, d) /\ InInput(r, e)}

\* encode_batch holds all the chunks, not the batch's.
ModelBatchTurn ==
    /\ pc = "model"
    /\ start_idx < total
    /\ batch > 0
    /\ ii[total] > 0 /\ FillsInput(ii)
    /\ rows' = rows \o [d \in 1..total |-> Row(d)]
    /\ start_idx' = start_idx + batch
    /\ UNCHANGED <<textVars, batch, ii, vectors>>

\* With a batch_size of 0 the loop does not advance: results grows until the
\* memory ends.
ModelExhausts ==
    /\ pc = "model"
    /\ start_idx < total
    /\ batch = 0
    /\ Throw

\* outputSize / total_size, when no text has a token.
ModelTraps ==
    /\ pc = "model"
    /\ start_idx < total
    /\ batch > 0
    /\ ii[total] = 0
    /\ pc' = "trapped"
    /\ UNCHANGED <<how, docs, stage, loop, local, documents, callVars>>

\* The model cannot be loaded or run, or the ids do not fill its input.
ModelFails ==
    /\ pc = "model"
    /\ Throw

\* Mutant of ModelEnds: without the comparison of the sizes.
ModelEndsUnchecked ==
    /\ pc = "model"
    /\ start_idx >= total
    /\ vectors' = rows
    /\ pc' = "embedded"
    /\ UNCHANGED <<how, docs, stage, loop, local, documents, batch, start_idx, ii, rows>>

\* EmbeddingModel::GenerateEmbeddings has the rows.
ModelEnds ==
    /\ pc = "model"
    /\ start_idx >= total
    /\ IF Len(rows) # total
         THEN Throw
         ELSE /\ vectors' = [d \in DOMAIN documents |-> rows[d]]
              /\ pc' = "embedded"
              /\ UNCHANGED <<how, docs, stage, loop, local, documents, batch, start_idx, ii, rows>>

OpenAIEnds ==
    /\ pc = "openai"
    /\ start_idx >= total
    /\ pc' = "embedded"
    /\ UNCHANGED <<how, docs, stage, loop, local, documents, callVars>>

EmbedStep ==
    \/ GenerateEmbeddings
    \/ OpenAIBatch \/ OpenAIFails \/ OpenAIEnds
    \/ ModelBatchTurn \/ ModelTraps \/ ModelExhausts \/ ModelFails \/ ModelEnds

Next ==
    \/ TextStep /\ UNCHANGED callVars
    \/ EmbedStep

Spec == Init /\ [][Next]_vars

-----------------------------------------------------------------------------
Labels == {"chunking", "chunked", "threw", "terminated", "undefined", "trapped",
           "openai", "model", "refused", "embedded"}

TypeOK ==
    /\ TextTypeOK
    /\ pc \in Labels
    /\ batch \in 0..MaxBatch
    /\ start_idx \in 0..(total + MaxBatch)
    /\ ii \in Seq(0..MaxTokens)
    /\ rows \in Seq(SUBSET (1..total))
    /\ vectors = <<>> \/ vectors \in [DOMAIN documents -> SUBSET (1..total)]

(***************************************************************************)
(* Documents that come back from GenerateEmbeddings each have the vector   *)
(* of their own text, from whichever batch; from EmbeddingModel they have  *)
(* it exactly if the tokenizer made all the texts equally long.            *)
(***************************************************************************)
OwnVector ==
    pc = "embedded" =>
        (vectors = [d \in DOMAIN documents |-> {d}] <=> rows = <<>> \/ Even(ii))

(***************************************************************************)
(* EmbeddingModel can only serve what fits into one batch: with more it    *)
(* has each text's vector once for every batch, and refuses.               *)
(***************************************************************************)
ModelServesOneBatch ==
    pc = "embedded" /\ rows # <<>> => total <= batch
=============================================================================
