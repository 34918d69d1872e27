----------------------------- MODULE ChunkQuery ------------------------------
(***************************************************************************)
(* A ChunkQuery object over the stores of ChunkDefault.  It holds a raw    *)
(* pointer to an element of a store (m_vdb), spans over that element's     *)
(* flatVD (m_chunk_embedding), pointers to the store and to its chunk list *)
(* (m_chunks, m_chunks_list, always set together), and the embedding of a  *)
(* question (m_emb_query).                                                 *)
(*                                                                         *)
(* Every member function is one operator from the object's state to the    *)
(* set of its possible outcomes, since they call one another: an outcome   *)
(* is a new state and the way the call ended, "returned", "threw" (the     *)
(* state keeps what was assigned before) or "undefined": it has read       *)
(* memory that was given back.  Nothing is said of what follows that.      *)
(*                                                                         *)
(* A call that checks its arguments and throws before any assignment (a    *)
(* question of less than 5 bytes, a threshold out of range) is a stutter   *)
(* and left out, and so are the getters.  Positions count from 1.          *)
(***************************************************************************)
EXTENDS ChunkDefault

CONSTANTS
    Texts,    \* questions that are long enough for Query
    NoText, NoModel, NoStore, NoPos

\* The null pointers and the empty model name are none of the things they stand for.
ASSUME SentinelAssumption == NoModel \notin Models /\ NoStore \notin Stores

VARIABLES
    q,        \* the object
    last      \* how the last call ended

vars == <<storeVars, q, last>>

NoEmb == [text |-> NoText, model |-> NoModel]
Embedding(text, m) == [text |-> text, model |-> m]
NoVdb == [store |-> NoStore, buffer |-> 0, pos |-> 0]
NoSpans == [flat |-> 0, batch |-> 0, n |-> 0, model |-> NoModel]
NoHits == [scored |-> 0, listed |-> 0, asked |-> NoModel, model |-> NoModel]

Fresh(text) ==
    [built |-> TRUE,
     query |-> text,      \* m_query
     emb |-> NoEmb,       \* m_emb_query: the text embedded, and by which model
     vdb |-> NoVdb,       \* m_vdb
     spans |-> NoSpans,   \* m_chunk_embedding
     chunks |-> NoStore,  \* m_chunks, m_chunks_list
     version |-> 0,       \* history: the store's version when they were set
     hits |-> NoHits]     \* m_retrieve_list: whose rows were scored, whose
                          \* texts are listed, and the models compared
NotBuilt == [Fresh(NoText) EXCEPT !.built = FALSE]

Returned(p) == [q |-> p, end |-> "returned"]
Threw(p) == [q |-> p, end |-> "threw"]
Undefined(p) == [q |-> p, end |-> "undefined"]

\* The element that m_vdb points to is there; so is the flatVD of the spans.
Readable(v) ==
    /\ alive[v.store]
    /\ v.buffer = buffer[v.store]
    /\ v.pos \in DOMAIN elements[v.store]
SpansReadable(p) == \E s \in Stores : \E i \in DOMAIN elements[s] : elements[s][i].flat = p.spans.flat
ModelOf(v) == elements[v.store][v.pos].model

\* Whether Chunk::Embeddings gets an answer; never for an empty text, which
\* GenerateEmbeddings refuses in each of the three attempts.
Answers(text) == IF text = NoText THEN {FALSE} ELSE BOOLEAN

\* Mutants of Prepared: the spans are added to old ones that stay in front;
\* the embedding of the question is left.
PreparedBehind(p, s, pos) ==
    LET e == elements[s][pos] IN
    [p EXCEPT
        !.vdb = [store |-> s, buffer |-> buffer[s], pos |-> pos],
        !.spans = IF @ = NoSpans THEN [flat |-> e.flat, batch |-> e.batch, n |-> e.n, model |-> e.model] ELSE @,
        !.chunks = s,
        !.version = version[s],
        !.emb = NoEmb]
PreparedKeepsQuestion(p, s, pos) ==
    LET e == elements[s][pos] IN
    [p EXCEPT
        !.vdb = [store |-> s, buffer |-> buffer[s], pos |-> pos],
        !.spans = [flat |-> e.flat, batch |-> e.batch, n |-> e.n, model |-> e.model],
        !.chunks = s,
        !.version = version[s]]

\* What setChunks assigns before it embeds m_query.
Prepared(p, s, pos) ==
    LET e == elements[s][pos] IN
    [p EXCEPT
        !.vdb = [store |-> s, buffer |-> buffer[s], pos |-> pos],
        !.spans = [flat |-> e.flat, batch |-> e.batch, n |-> e.n, model |-> e.model],
        !.chunks = s,
        !.version = version[s],
        !.emb = NoEmb]

\* setChunks(s, pos).  When m_vdb points to an element of another model, the
\* question is embedded once before anything else, and that may fail.
SetChunks(p, s, pos) ==
    LET prepared == Prepared(p, s, pos)
        otherModel == p.vdb # NoVdb /\ ModelOf(p.vdb) # elements[s][pos].model
    IN
    IF ~alive[s] THEN {Undefined(p)}
    ELSE IF ~initialized[s] \/ pos \notin DOMAIN elements[s] THEN {Threw(p)}
    ELSE IF p.vdb # NoVdb /\ ~Readable(p.vdb) THEN {Undefined(p)}
    ELSE (IF otherModel /\ p.query # NoText THEN {Threw([p EXCEPT !.emb = NoEmb])} ELSE {})
         \cup {IF answer THEN Returned([prepared EXCEPT !.emb = Embedding(p.query, elements[s][pos].model)])
                         ELSE Threw(prepared) : answer \in Answers(p.query)}

\* The optional argument `pos` of the calls: setChunks on the store given or
\* else on the one the object has.  Without either, the call goes on.
Reconfigure(p, temp, pos) ==
    LET s == IF temp # NoStore THEN temp ELSE p.chunks IN
    IF pos = NoPos \/ s = NoStore THEN {Returned(p)} ELSE SetChunks(p, s, pos)

\* One step of a call after another, unless the first has ended the call.
Then(outcomes, next(_)) ==
    UNION {IF o.end = "returned" THEN next(o.q) ELSE {o} : o \in outcomes}

\* Embed a text for the element that m_vdb points to, and keep the result.
Embed(p, text) ==
    IF p.vdb = NoVdb THEN {Returned(p)}
    ELSE IF ~Readable(p.vdb) THEN {Undefined(p)}
    ELSE {IF answer THEN Returned([p EXCEPT !.emb = Embedding(text, ModelOf(p.vdb))])
                    ELSE Threw(p) : answer \in Answers(text)}

\* Query(string): setChunks still works with the previous m_query.
QueryText(p, text, temp, pos) ==
    Then(Reconfigure(p, temp, pos),
         LAMBDA r : Embed([r EXCEPT !.emb = NoEmb, !.query = text], text))

\* Query(Document): sets m_query only when a position is given, and keeps the
\* document's own embedding (by model m) if it is by the right model.
QueryDocument(p, text, m, temp, pos) ==
    Then(Reconfigure(IF pos # NoPos THEN [p EXCEPT !.query = text] ELSE p, temp, pos),
         LAMBDA r :
            IF r.vdb # NoVdb /\ Readable(r.vdb) /\ m = ModelOf(r.vdb)
            THEN {Returned([r EXCEPT !.emb = Embedding(text, m)])}
            ELSE Embed(IF r.vdb # NoVdb THEN [r EXCEPT !.emb = NoEmb] ELSE r, text))

\* The scan of Retrieve, with or without a row over the threshold.
Scan(p) ==
    IF ~alive[p.chunks] \/ ~SpansReadable(p) \/ chunks[p.chunks].n < p.spans.n THEN {Undefined(p)}
    ELSE {Returned([p EXCEPT !.hits = h]) :
            h \in {NoHits, [scored |-> p.spans.batch, listed |-> chunks[p.chunks].batch,
                            asked |-> p.emb.model, model |-> p.spans.model]}}

\* Mutant of Retrieve: does not ask whether there is an embedded question.
RetrieveUnasked(p, temp, pos) ==
    IF p.vdb = NoVdb \/ ~Readable(p.vdb) THEN {Undefined(p)}
    ELSE Then(Reconfigure(p, temp, pos), Scan)

\* Retrieve looks at *m_vdb before it reconfigures.
Retrieve(p, temp, pos) ==
    IF p.emb = NoEmb THEN {Threw(p)}
    ELSE IF ~Readable(p.vdb) THEN {Undefined(p)}
    ELSE Then(Reconfigure(p, temp, pos), Scan)

\* The constructor moves its arguments away before it tests them, so that it
\* never comes to a Query.  An exception of setChunks leaves no object.
Construct(p, text, temp, pos) ==
    {IF o.end = "threw" THEN Threw(p) ELSE o : o \in Reconfigure(Fresh(text), temp, pos)}
-----------------------------------------------------------------------------
Init ==
    /\ StoreInit
    /\ q = NotBuilt
    /\ last = "returned"

\* The interpreter calls one function of the object.
Call(outcomes) ==
    /\ last # "undefined"
    /\ \E o \in outcomes : q' = o.q /\ last' = o.end
    /\ UNCHANGED storeVars

\* An argument is an object the interpreter still has.
Given == {s \in Stores : alive[s]} \cup {NoStore}
Positions == {NoPos} \cup 1..2

Member ==
    \E temp \in Given, pos \in Positions :
        \/ /\ ~q.built
           /\ \E text \in Texts \cup {NoText} : Call(Construct(q, text, temp, pos))
        \/ /\ q.built
           /\ temp # NoStore
           /\ pos # NoPos
           /\ Call(SetChunks(q, temp, pos))
        \/ /\ q.built
           /\ \E text \in Texts : Call(QueryText(q, text, temp, pos))
        \/ /\ q.built
           /\ \E text \in Texts, m \in Models \cup {NoModel} : Call(QueryDocument(q, text, m, temp, pos))
        \/ /\ q.built
           /\ Call(Retrieve(q, temp, pos))

Next ==
    \/ Member
    \/ last # "undefined" /\ StoreStep /\ UNCHANGED <<q, last>>

Spec == Init /\ [][Next]_vars
-----------------------------------------------------------------------------
TypeOK ==
    /\ StoreTypeOK
    /\ last \in {"returned", "threw", "undefined"}
    /\ q.built \in BOOLEAN
    /\ q.query \in Texts \cup {NoText}
    /\ q.emb \in [text : Texts \cup {NoText}, model : Models \cup {NoModel}]
    /\ q.vdb \in [store : Stores \cup {NoStore}, buffer : 0..MaxIds, pos : Nat]
    /\ q.spans \in [flat : 0..MaxIds, batch : 0..MaxIds, n : 0..MaxChunks, model : Models \cup {NoModel}]
    /\ q.chunks \in Stores \cup {NoStore}
    /\ q.hits \in [scored : 0..MaxIds, listed : 0..MaxIds, asked : Models \cup {NoModel}, model : Models \cup {NoModel}]

\* Since setChunks, the store has gone, was cleared, or has moved its elements.
Stale == q.vdb # NoVdb /\ (~alive[q.vdb.store] \/ version[q.vdb.store] # q.version)

(***************************************************************************)
(* What setChunks has prepared, also when it threw afterwards, is of one   *)
(* piece for as long as the store has not been cleared, deleted or grown   *)
(* past its capacity: m_vdb points to an element, the spans are over that  *)
(* element's rows, the chunk list has the text of each row, and the        *)
(* embedded question is by the element's model.                            *)
(***************************************************************************)
UsableUntilStale ==
    q.vdb # NoVdb /\ ~Stale =>
        LET e == elements[q.vdb.store][q.vdb.pos] IN
        /\ Readable(q.vdb)
        /\ q.chunks = q.vdb.store
        /\ q.spans = [flat |-> e.flat, batch |-> e.batch, n |-> e.n, model |-> e.model]
        /\ q.spans.batch = chunks[q.chunks].batch
        /\ q.spans.n = chunks[q.chunks].n
        /\ q.emb # NoEmb => q.emb.model = e.model

(***************************************************************************)
(* A call reads memory that was given back only when the object was        *)
(* configured and its store has gone, was cleared or has grown since: no   *)
(* order of calls, failed ones included, brings that about on a store that *)
(* is left alone.                                                          *)
(***************************************************************************)
UndefinedOnlyWhenStale == last = "undefined" => Stale

(***************************************************************************)
(* The hits of Retrieve pair every score with the text it is of: the rows  *)
(* scored and the texts listed are of one batch, and the question and the  *)
(* rows were embedded by one model.  No failed setChunks or Query leaves   *)
(* the object with parts of two configurations.                            *)
(***************************************************************************)
HitsComparable == q.hits.scored = q.hits.listed /\ q.hits.asked = q.hits.model

(***************************************************************************)
(* binding.cpp:691: setChunks "Configures the chunk structure and prepares *)
(* spans for retrieval": for an object that was built without chunks and a *)
(* position the store has, it can succeed.                                 *)
(***************************************************************************)
SetChunksConfigures ==
    \A s \in Stores, pos \in Positions \ {NoPos} :
        q.built /\ q.vdb = NoVdb /\ alive[s] /\ pos \in DOMAIN elements[s] =>
            \E o \in SetChunks(q, s, pos) : o.end = "returned"
=============================================================================
