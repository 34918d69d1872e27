----------------------------- MODULE QueryProofs -----------------------------
(***************************************************************************)
(* Proofs about ChunkQuery and the stores of ChunkDefault: what holds of   *)
(* an object's pointers, spans and embedded question after any sequence of *)
(* calls of it and of the stores, failed calls included, for any number of *)
(* stores, models and chunks.                                              *)
(***************************************************************************)
EXTENDS ChunkQuery, TLAPS

-----------------------------------------------------------------------------
(***************************************************************************)
(* The inductive invariant: first the stores ...                           *)
(***************************************************************************)

\* The chunks of an initialised store are of a batch, and only it has some.
Filled ==
    \A s \in Stores :
        /\ initialized[s] => chunks[s].batch \in 1..MaxIds
        /\ ~initialized[s] => chunks[s] = NoChunks

\* No two elements have the same flatVD, and no later one will.
FlatsDiffer ==
    \A s, t \in Stores : \A i \in DOMAIN elements[s] : \A j \in DOMAIN elements[t] :
        /\ elements[s][i].flat <= ids
        /\ elements[s][i].flat = elements[t][j].flat => s = t /\ i = j

StoresOK == StoreTypeOK /\ EmbeddingsMatchChunks /\ Filled /\ FlatsDiffer

(***************************************************************************)
(* ... then the object p.                                                  *)
(***************************************************************************)
Questions == [text : Texts \cup {NoText}, model : Models \cup {NoModel}]
Pointers == [store : Stores \cup {NoStore}, buffer : 0..MaxIds, pos : Nat]
SpanLists == [flat : 0..MaxIds, batch : 0..MaxIds, n : 0..MaxChunks, model : Models \cup {NoModel}]
HitLists == [scored : 0..MaxIds, listed : 0..MaxIds, asked : Models \cup {NoModel}, model : Models \cup {NoModel}]
Objects ==
    [built : BOOLEAN, query : Texts \cup {NoText}, emb : Questions, vdb : Pointers,
     spans : SpanLists, chunks : Stores \cup {NoStore}, version : Nat, hits : HitLists]

StaleNow(p) == p.vdb # NoVdb /\ (~alive[p.vdb.store] \/ version[p.vdb.store] # p.version)

\* The pointers are set together, or not at all; then there is no question.
Configured(p) ==
    /\ p.vdb = NoVdb => p.chunks = NoStore /\ p.spans = NoSpans /\ p.emb = NoEmb
    /\ p.vdb # NoVdb =>
          /\ p.vdb.store \in Stores
          /\ p.chunks = p.vdb.store
          /\ p.version <= version[p.vdb.store]
          /\ p.spans.flat \in 1..ids

SpansOf(e) == [flat |-> e.flat, batch |-> e.batch, n |-> e.n, model |-> e.model]

\* Until it is stale, m_vdb points to the element the spans are over.
Whole(p) ==
    p.vdb # NoVdb /\ ~StaleNow(p) =>
        /\ Readable(p.vdb)
        /\ p.spans = SpansOf(elements[p.vdb.store][p.vdb.pos])

\* Also when it is stale, only that element can own the memory of the spans.
Owner(p) ==
    \A s \in Stores : \A i \in DOMAIN elements[s] :
        elements[s][i].flat = p.spans.flat =>
            s = p.vdb.store /\ i = p.vdb.pos /\ p.spans = SpansOf(elements[s][i])

\* As long as the spans can be read, the question is by their model.
AskedByModel(p) == p.emb # NoEmb /\ SpansReadable(p) => p.emb.model = p.spans.model

Comparable(p) == p.hits.scored = p.hits.listed /\ p.hits.asked = p.hits.model

Good(p) ==
    /\ p \in Objects
    /\ Configured(p) /\ Whole(p) /\ Owner(p) /\ AskedByModel(p) /\ Comparable(p)

IInv ==
    /\ StoresOK
    /\ Good(q)
    /\ last \in {"returned", "threw", "undefined"}
    /\ last = "undefined" => StaleNow(q)

\* What a call may end in.
Fine(o) ==
    /\ Good(o.q)
    /\ o.end \in {"returned", "threw", "undefined"}
    /\ o.end = "undefined" => StaleNow(o.q)

-----------------------------------------------------------------------------
LEMMA Elements ==
    ASSUME StoresOK, NEW s \in Stores, NEW i \in DOMAIN elements[s]
    PROVE  /\ elements[s][i] \in Element
           /\ i \in Nat
           /\ elements[s][i].model \in Models /\ elements[s][i].model # NoModel
           /\ elements[s][i].batch \in 1..MaxIds /\ elements[s][i].n \in 1..MaxChunks
           /\ elements[s][i].flat \in 1..MaxIds /\ elements[s][i].flat \in 1..ids
           /\ elements[s][i].batch = chunks[s].batch /\ elements[s][i].n = chunks[s].n
<1>1. elements[s] \in Seq(Element)
  BY DEF StoresOK, StoreTypeOK
<1>2. elements[s][i] \in Element /\ i \in Nat
  BY <1>1
<1>3. ids \in Nat /\ elements[s][i].flat <= ids
  BY StoreAssumption DEF StoresOK, StoreTypeOK, FlatsDiffer
<1>4. elements[s][i].batch = chunks[s].batch /\ elements[s][i].n = chunks[s].n
  BY DEF StoresOK, EmbeddingsMatchChunks
<1> QED
  BY <1>2, <1>3, <1>4, SentinelAssumption, StoreAssumption DEF Element

LEMMA SpansOfType ==
    ASSUME StoresOK, NEW s \in Stores, NEW i \in DOMAIN elements[s]
    PROVE  SpansOf(elements[s][i]) \in SpanLists
BY Elements, StoreAssumption DEF SpansOf, SpanLists

\* An object that is not stale has memory to read.
LEMMA UnreadableIsStale ==
    ASSUME NEW p, Good(p), p.vdb # NoVdb, ~Readable(p.vdb)
    PROVE  StaleNow(p)
BY DEF Good, Whole

\* A question by the model of the element that m_vdb points to.
LEMMA AskedOfElement ==
    ASSUME StoresOK, NEW p, Good(p), p.vdb # NoVdb, Readable(p.vdb), SpansReadable(p)
    PROVE  ModelOf(p.vdb) = p.spans.model
<1>1. PICK s \in Stores : \E i \in DOMAIN elements[s] : elements[s][i].flat = p.spans.flat
  BY DEF SpansReadable
<1>2. PICK i \in DOMAIN elements[s] : elements[s][i].flat = p.spans.flat
  BY <1>1
<1>3. s = p.vdb.store /\ i = p.vdb.pos /\ p.spans = SpansOf(elements[s][i])
  BY <1>2 DEF Good, Owner
<1> QED
  BY <1>3 DEF ModelOf, SpansOf

\* Another question leaves the rest of the object as it is.
LEMMA WithQuestion ==
    ASSUME NEW p, Good(p), NEW e \in Questions, NEW text \in Texts \cup {NoText},
           p.vdb = NoVdb => e = NoEmb,
           e # NoEmb /\ SpansReadable(p) => e.model = p.spans.model
    PROVE  /\ Good([p EXCEPT !.emb = e]) /\ [p EXCEPT !.emb = e].vdb = p.vdb
           /\ Good([p EXCEPT !.emb = e, !.query = text])
           /\ [p EXCEPT !.emb = e, !.query = text].vdb = p.vdb
<1>1. ASSUME NEW r \in {[p EXCEPT !.emb = e], [p EXCEPT !.emb = e, !.query = text]}
      PROVE  Good(r) /\ r.vdb = p.vdb
  <2>1. /\ r \in Objects /\ r.emb = e /\ r.vdb = p.vdb /\ r.spans = p.spans
        /\ r.chunks = p.chunks /\ r.version = p.version /\ r.hits = p.hits
    BY <1>1 DEF Good, Objects
  <2>2. Configured(r) /\ Whole(r) /\ Owner(r) /\ Comparable(r)
    BY <2>1 DEF Good, Configured, Whole, StaleNow, Owner, Comparable
  <2>3. AskedByModel(r)
    BY <2>1 DEF AskedByModel, SpansReadable
  <2> QED
    BY <2>1, <2>2, <2>3 DEF Good
<1> QED
  BY <1>1

\* Another m_query too.
LEMMA WithQuery ==
    ASSUME NEW p, Good(p), NEW text \in Texts \cup {NoText}
    PROVE  Good([p EXCEPT !.query = text]) /\ [p EXCEPT !.query = text].vdb = p.vdb
           /\ [p EXCEPT !.query = text].chunks = p.chunks
<1> DEFINE r == [p EXCEPT !.query = text]
<1>1. /\ r \in Objects /\ r.emb = p.emb /\ r.vdb = p.vdb /\ r.spans = p.spans
      /\ r.chunks = p.chunks /\ r.version = p.version /\ r.hits = p.hits
  BY DEF Good, Objects
<1> HIDE DEF r
<1>2. Good(r)
  BY <1>1 DEF Good, Configured, Whole, StaleNow, Owner, Comparable, AskedByModel, SpansReadable
<1> QED
  BY <1>1, <1>2 DEF r

LEMMA NoEmbIsQuestion == NoEmb \in Questions
BY DEF NoEmb, Questions

-----------------------------------------------------------------------------
(***************************************************************************)
(* The member functions.                                                   *)
(***************************************************************************)
LEMMA PreparedGood ==
    ASSUME StoresOK, NEW p, Good(p), NEW s \in Stores, alive[s],
           NEW pos \in DOMAIN elements[s]
    PROVE  /\ Good(Prepared(p, s, pos)) /\ Prepared(p, s, pos).vdb # NoVdb
           /\ Prepared(p, s, pos).spans.model = elements[s][pos].model
<1> DEFINE r == Prepared(p, s, pos)
           e == elements[s][pos]
           v == [store |-> s, buffer |-> buffer[s], pos |-> pos]
<1>1. /\ r = [p EXCEPT !.vdb = v, !.spans = SpansOf(e), !.chunks = s,
                       !.version = version[s], !.emb = NoEmb]
  BY DEF Prepared, SpansOf
<1>2. /\ v \in Pointers /\ SpansOf(e) \in SpanLists /\ version[s] \in Nat /\ NoEmb \in Questions
      /\ buffer[s] \in 0..MaxIds /\ e.flat \in 1..ids /\ e.flat \in 1..MaxIds
  BY SpansOfType, Elements, NoEmbIsQuestion DEF Pointers, StoresOK, StoreTypeOK
<1> HIDE DEF r, e, v
<1>3. r \in Objects
  BY <1>1, <1>2 DEF Good, Objects
<1>4. /\ r.vdb = v /\ r.spans = SpansOf(e) /\ r.chunks = s /\ r.version = version[s]
      /\ r.emb = NoEmb /\ r.hits = p.hits
  BY <1>1, <1>2 DEF Good, Objects
<1>5. v.store = s /\ v.buffer = buffer[s] /\ v.pos = pos /\ v # NoVdb
  BY SentinelAssumption DEF v, NoVdb
<1>6. SpansOf(e).flat = e.flat /\ SpansOf(e).model = e.model
  BY DEF SpansOf
<1>7. Configured(r) /\ Comparable(r) /\ AskedByModel(r)
  BY <1>2, <1>4, <1>5, <1>6 DEF Configured, Comparable, AskedByModel, Good
<1>8. Whole(r)
  BY <1>4, <1>5 DEF Whole, Readable, e
<1>9. Owner(r)
  BY <1>4, <1>5, <1>6 DEF Owner, e, StoresOK, FlatsDiffer
<1> QED
  BY <1>3, <1>4, <1>5, <1>6, <1>7, <1>8, <1>9 DEF Good, r, e

LEMMA SetChunksFine ==
    ASSUME StoresOK, NEW p, Good(p), NEW s \in Stores,
           alive[s] \/ p.chunks = s, NEW pos, NEW o \in SetChunks(p, s, pos)
    PROVE  /\ Fine(o)
           /\ o.end = "returned" => o.q.vdb # NoVdb /\ o.q.emb # NoEmb
<1> DEFINE m == elements[s][pos].model
           prepared == Prepared(p, s, pos)
           asked == [prepared EXCEPT !.emb = Embedding(p.query, m)]
<1>1. CASE ~alive[s]
  <2>1. o = Undefined(p) /\ p.chunks = s
    BY <1>1 DEF SetChunks
  <2>2. StaleNow(p)
    BY <1>1, <2>1, SentinelAssumption DEF Good, Configured, StaleNow
  <2> QED
    BY <2>1, <2>2 DEF Fine, Undefined
<1>2. CASE alive[s] /\ (~initialized[s] \/ pos \notin DOMAIN elements[s])
  BY <1>2 DEF SetChunks, Threw, Fine
<1>3. CASE alive[s] /\ initialized[s] /\ pos \in DOMAIN elements[s] /\ p.vdb # NoVdb /\ ~Readable(p.vdb)
  BY <1>3, UnreadableIsStale DEF SetChunks, Undefined, Fine
<1>4. CASE alive[s] /\ initialized[s] /\ pos \in DOMAIN elements[s] /\ ~(p.vdb # NoVdb /\ ~Readable(p.vdb))
  <2>1. \/ o = Threw([p EXCEPT !.emb = NoEmb])
        \/ o = Threw(prepared)
        \/ o = Returned(asked)
    BY <1>4 DEF SetChunks
  <2>2. CASE o = Threw([p EXCEPT !.emb = NoEmb])
    <3>1. Good([p EXCEPT !.emb = NoEmb])
      BY WithQuestion, NoEmbIsQuestion
    <3> QED
      BY <2>2, <3>1 DEF Threw, Fine
  <2>3. /\ Good(prepared) /\ prepared.vdb # NoVdb /\ prepared.spans.model = m
    BY <1>4, PreparedGood
  <2>4. CASE o = Threw(prepared)
    BY <2>3, <2>4 DEF Threw, Fine
  <2>5. CASE o = Returned(asked)
    <3>1. /\ Embedding(p.query, m) \in Questions /\ Embedding(p.query, m).model = m
          /\ Embedding(p.query, m) # NoEmb
      BY <1>4, Elements DEF Embedding, Questions, NoEmb, Good, Objects
    <3> HIDE DEF prepared, m
    <3>2. Good(asked) /\ asked.vdb = prepared.vdb
      BY <2>3, <3>1, WithQuestion
    <3>3. asked.emb = Embedding(p.query, m)
      BY <2>3 DEF Good, Objects
    <3> QED
      BY <2>3, <2>5, <3>1, <3>2, <3>3 DEF Returned, Fine
  <2> QED
    BY <2>1, <2>2, <2>4, <2>5
<1> QED
  BY <1>1, <1>2, <1>3, <1>4

LEMMA ReconfigureFine ==
    ASSUME StoresOK, NEW p, Good(p), NEW temp \in Given, NEW pos,
           NEW o \in Reconfigure(p, temp, pos)
    PROVE  /\ Fine(o)
           /\ o.end = "returned" => o.q = p \/ (o.q.vdb # NoVdb /\ o.q.emb # NoEmb)
<1> DEFINE s == IF temp # NoStore THEN temp ELSE p.chunks
<1>1. CASE pos = NoPos \/ s = NoStore
  BY <1>1 DEF Reconfigure, Returned, Fine
<1>2. CASE ~(pos = NoPos \/ s = NoStore)
  <2>1. s \in Stores /\ (alive[s] \/ p.chunks = s)
    BY <1>2 DEF Given, Good, Objects
  <2>2. o \in SetChunks(p, s, pos)
    BY <1>2 DEF Reconfigure
  <2> QED
    BY <2>1, <2>2, SetChunksFine
<1> QED
  BY <1>1, <1>2

LEMMA EmbedFine ==
    ASSUME StoresOK, NEW p, Good(p), NEW text \in Texts \cup {NoText}, NEW o \in Embed(p, text)
    PROVE  Fine(o)
<1>1. CASE p.vdb = NoVdb
  BY <1>1 DEF Embed, Returned, Fine
<1>2. CASE p.vdb # NoVdb /\ ~Readable(p.vdb)
  BY <1>2, UnreadableIsStale DEF Embed, Undefined, Fine
<1>3. CASE p.vdb # NoVdb /\ Readable(p.vdb)
  <2> DEFINE e == Embedding(text, ModelOf(p.vdb))
  <2>1. o = Threw(p) \/ o = Returned([p EXCEPT !.emb = e])
    BY <1>3 DEF Embed
  <2>2. e \in Questions /\ e.model = ModelOf(p.vdb)
    BY <1>3, Elements DEF Good, Configured, Readable, ModelOf, Embedding, Questions
  <2>3. SpansReadable(p) => ModelOf(p.vdb) = p.spans.model
    BY <1>3, AskedOfElement
  <2> HIDE DEF e
  <2>4. Good([p EXCEPT !.emb = e])
    BY <1>3, <2>2, <2>3, WithQuestion
  <2> QED
    BY <2>1, <2>4 DEF Threw, Returned, Fine
<1> QED
  BY <1>1, <1>2, <1>3

LEMMA QueryTextFine ==
    ASSUME StoresOK, NEW p, Good(p), NEW text \in Texts, NEW temp \in Given, NEW pos,
           NEW o \in QueryText(p, text, temp, pos)
    PROVE  Fine(o)
<1>1. PICK f \in Reconfigure(p, temp, pos) :
        IF f.end = "returned" THEN o \in Embed([f.q EXCEPT !.emb = NoEmb, !.query = text], text)
                              ELSE o = f
  BY DEF QueryText, Then
<1>2. Fine(f)
  BY ReconfigureFine
<1>3. Good([f.q EXCEPT !.emb = NoEmb, !.query = text])
  BY <1>2, WithQuestion, NoEmbIsQuestion DEF Fine
<1> QED
  BY <1>1, <1>2, <1>3, EmbedFine

LEMMA QueryDocumentFine ==
    ASSUME StoresOK, NEW p, Good(p), NEW text \in Texts, NEW m \in Models \cup {NoModel},
           NEW temp \in Given, NEW pos, NEW o \in QueryDocument(p, text, m, temp, pos)
    PROVE  Fine(o)
<1> DEFINE start == IF pos # NoPos THEN [p EXCEPT !.query = text] ELSE p
<1>1. Good(start)
  BY WithQuery
<1>2. PICK f \in Reconfigure(start, temp, pos) :
        IF f.end # "returned" THEN o = f
        ELSE IF f.q.vdb # NoVdb /\ Readable(f.q.vdb) /\ m = ModelOf(f.q.vdb)
        THEN o = Returned([f.q EXCEPT !.emb = Embedding(text, m)])
        ELSE o \in Embed(IF f.q.vdb # NoVdb THEN [f.q EXCEPT !.emb = NoEmb] ELSE f.q, text)
  BY DEF QueryDocument, Then
<1> HIDE DEF start
<1>3. Fine(f)
  BY <1>1, ReconfigureFine
<1>4. CASE f.end # "returned"
  BY <1>2, <1>3, <1>4
<1>5. CASE f.end = "returned" /\ f.q.vdb # NoVdb /\ Readable(f.q.vdb) /\ m = ModelOf(f.q.vdb)
  <2>1. Embedding(text, m) \in Questions /\ Embedding(text, m).model = m
    BY DEF Embedding, Questions
  <2>2. SpansReadable(f.q) => m = f.q.spans.model
    BY <1>3, <1>5, AskedOfElement DEF Fine
  <2>3. Good([f.q EXCEPT !.emb = Embedding(text, m)])
    BY <1>3, <1>5, <2>1, <2>2, WithQuestion DEF Fine
  <2> QED
    BY <1>2, <1>5, <2>3 DEF Returned, Fine
<1>6. CASE f.end = "returned" /\ ~(f.q.vdb # NoVdb /\ Readable(f.q.vdb) /\ m = ModelOf(f.q.vdb))
  <2>1. Good(IF f.q.vdb # NoVdb THEN [f.q EXCEPT !.emb = NoEmb] ELSE f.q)
    BY <1>3, WithQuestion, NoEmbIsQuestion DEF Fine
  <2> QED
    BY <1>2, <1>6, <2>1, EmbedFine
<1> QED
  BY <1>4, <1>5, <1>6

LEMMA ScanFine ==
    ASSUME StoresOK, NEW p, Good(p), p.vdb # NoVdb, p.emb # NoEmb, NEW o \in Scan(p)
    PROVE  Fine(o)
<1>1. p.vdb.store \in Stores /\ p.chunks = p.vdb.store
  BY DEF Good, Configured
<1>2. CASE ~alive[p.chunks] \/ ~SpansReadable(p) \/ chunks[p.chunks].n < p.spans.n
  <2>1. ASSUME ~StaleNow(p) PROVE FALSE
    <3> DEFINE i == p.vdb.pos
               c == p.vdb.store
    <3>1. /\ alive[c] /\ i \in DOMAIN elements[c]
          /\ p.spans = SpansOf(elements[c][i])
      BY <2>1 DEF Good, Whole, Readable
    <3>2. SpansReadable(p)
      BY <1>1, <3>1 DEF SpansReadable, SpansOf
    <3>3. chunks[c].n = p.spans.n /\ p.spans.n \in 1..MaxChunks
      BY <1>1, <3>1, Elements DEF SpansOf
    <3>4. chunks[c].n >= p.spans.n
      BY <3>3, StoreAssumption
    <3> QED
      BY <1>1, <1>2, <3>1, <3>2, <3>3, <3>4, StoreAssumption
  <2> QED
    BY <1>2, <2>1 DEF Scan, Undefined, Fine
<1>3. CASE alive[p.chunks] /\ SpansReadable(p) /\ ~(chunks[p.chunks].n < p.spans.n)
  <2>1. PICK h \in {NoHits, [scored |-> p.spans.batch, listed |-> chunks[p.chunks].batch,
                             asked |-> p.emb.model, model |-> p.spans.model]} :
          o = Returned([p EXCEPT !.hits = h])
    BY <1>3 DEF Scan
  <2>2. p.spans.batch = chunks[p.chunks].batch
    <3>1. PICK s \in Stores : \E i \in DOMAIN elements[s] : elements[s][i].flat = p.spans.flat
      BY <1>3 DEF SpansReadable
    <3>2. PICK i \in DOMAIN elements[s] : elements[s][i].flat = p.spans.flat
      BY <3>1
    <3>3. s = p.vdb.store /\ p.spans = SpansOf(elements[s][i])
      BY <3>2 DEF Good, Owner
    <3> QED
      BY <1>1, <3>3, Elements DEF SpansOf
  <2>3. h \in HitLists /\ h.scored = h.listed /\ h.asked = h.model
    <3>1. p.emb.model = p.spans.model
      BY <1>3 DEF Good, AskedByModel
    <3>2. p.spans.batch \in 0..MaxIds /\ p.spans.model \in Models \cup {NoModel}
      BY DEF Good, Objects, SpanLists
    <3> QED
      BY <2>1, <2>2, <3>1, <3>2, StoreAssumption DEF HitLists, NoHits
  <2> DEFINE r == [p EXCEPT !.hits = h]
  <2>4. /\ r \in Objects /\ r.emb = p.emb /\ r.vdb = p.vdb /\ r.spans = p.spans
        /\ r.chunks = p.chunks /\ r.version = p.version /\ r.hits = h
    BY <2>3 DEF Good, Objects
  <2> HIDE DEF r
  <2>5. Good(r)
    BY <2>3, <2>4 DEF Good, Configured, Whole, StaleNow, Owner, Comparable, AskedByModel, SpansReadable
  <2> QED
    BY <2>1, <2>5 DEF Returned, Fine, r
<1> QED
  BY <1>2, <1>3

LEMMA RetrieveFine ==
    ASSUME StoresOK, NEW p, Good(p), NEW temp \in Given, NEW pos,
           NEW o \in Retrieve(p, temp, pos)
    PROVE  Fine(o)
<1>1. CASE p.emb = NoEmb
  BY <1>1 DEF Retrieve, Threw, Fine
<1>2. p.emb # NoEmb => p.vdb # NoVdb
  BY DEF Good, Configured
<1>3. CASE p.emb # NoEmb /\ ~Readable(p.vdb)
  BY <1>2, <1>3, UnreadableIsStale DEF Retrieve, Undefined, Fine
<1>4. CASE p.emb # NoEmb /\ Readable(p.vdb)
  <2>1. PICK f \in Reconfigure(p, temp, pos) :
          IF f.end = "returned" THEN o \in Scan(f.q) ELSE o = f
    BY <1>4 DEF Retrieve, Then
  <2>2. Fine(f) /\ (f.end = "returned" => f.q = p \/ (f.q.vdb # NoVdb /\ f.q.emb # NoEmb))
    BY ReconfigureFine
  <2>3. CASE f.end = "returned"
    BY <1>2, <1>4, <2>1, <2>2, <2>3, ScanFine DEF Fine
  <2> QED
    BY <2>1, <2>2, <2>3
<1> QED
  BY <1>1, <1>3, <1>4

LEMMA FreshGood ==
    ASSUME StoresOK, NEW text \in Texts \cup {NoText}
    PROVE  Good(Fresh(text)) /\ Good([Fresh(text) EXCEPT !.built = FALSE])
<1>1. ASSUME NEW r \in {Fresh(text), [Fresh(text) EXCEPT !.built = FALSE]} PROVE Good(r)
  <2>1. /\ NoEmb \in Questions /\ NoVdb \in Pointers /\ NoSpans \in SpanLists /\ NoHits \in HitLists
    BY StoreAssumption DEF NoEmb, Questions, NoVdb, Pointers, NoSpans, SpanLists, NoHits, HitLists
  <2>2. /\ r.emb = NoEmb /\ r.vdb = NoVdb /\ r.spans = NoSpans /\ r.chunks = NoStore
        /\ r.version = 0 /\ r.hits = NoHits /\ r.built \in BOOLEAN /\ r.query = text
        /\ r = [built |-> r.built, query |-> text, emb |-> NoEmb, vdb |-> NoVdb, spans |-> NoSpans,
                chunks |-> NoStore, version |-> 0, hits |-> NoHits]
    <3>1. CASE r = Fresh(text)
      BY <3>1 DEF Fresh
    <3>2. CASE r = [Fresh(text) EXCEPT !.built = FALSE]
      <4>1. r = [built |-> FALSE, query |-> text, emb |-> NoEmb, vdb |-> NoVdb, spans |-> NoSpans,
                 chunks |-> NoStore, version |-> 0, hits |-> NoHits]
        BY <3>2 DEF Fresh
      <4> QED
        BY <4>1
    <3> QED
      BY <1>1, <3>1, <3>2
  <2>3. r \in Objects
    BY <2>1, <2>2 DEF Objects
  <2>4. Owner(r)
    BY <2>2, Elements DEF Owner, NoSpans
  <2> QED
    BY <2>2, <2>3, <2>4 DEF Good, Configured, Whole, AskedByModel, Comparable, NoHits
<1> QED
  BY <1>1

LEMMA ConstructFine ==
    ASSUME StoresOK, NEW p, Good(p), NEW text \in Texts \cup {NoText}, NEW temp \in Given, NEW pos,
           NEW o \in Construct(p, text, temp, pos)
    PROVE  Fine(o)
<1>1. PICK f \in Reconfigure(Fresh(text), temp, pos) :
        o = IF f.end = "threw" THEN Threw(p) ELSE f
  BY DEF Construct
<1>2. Fine(f)
  BY FreshGood, ReconfigureFine
<1> QED
  BY <1>1, <1>2 DEF Threw, Fine

-----------------------------------------------------------------------------
(***************************************************************************)
(* The steps.                                                              *)
(***************************************************************************)
LEMMA Initially == Init => IInv
<1> SUFFICES ASSUME Init PROVE IInv
  OBVIOUS
<1> USE DEF Init, StoreInit
<1>1. StoreTypeOK
  <2>1. elements \in [Stores -> Seq(Element)] /\ \A s \in Stores : Len(elements[s]) = 0
    OBVIOUS
  <2> QED
    BY <2>1, StoreAssumption DEF StoreTypeOK, NoChunks
<1>2. EmbeddingsMatchChunks /\ Filled /\ FlatsDiffer
  BY DEF EmbeddingsMatchChunks, Filled, FlatsDiffer
<1>3. StoresOK
  BY <1>1, <1>2 DEF StoresOK
<1> QED
  BY <1>3, FreshGood DEF IInv, NotBuilt

LEMMA MemberStep ==
    ASSUME IInv, Member
    PROVE  IInv'
<1>1. ASSUME NEW outcomes, Call(outcomes), \A o \in outcomes : Fine(o)
      PROVE  IInv'
  <2>1. PICK o \in outcomes : q' = o.q /\ last' = o.end
    BY <1>1 DEF Call
  <2>2. UNCHANGED storeVars /\ Fine(o)
    BY <1>1, <2>1 DEF Call
  <2> USE <2>2 DEF storeVars
  <2>3. StoresOK'
    BY DEF IInv, StoresOK, StoreTypeOK, EmbeddingsMatchChunks, Filled, FlatsDiffer
  <2>5. Good(q)'
    BY <2>1 DEF Fine, Good, Configured, Whole, StaleNow, Readable, Owner, AskedByModel,
                SpansReadable, Comparable
  <2>6. (last = "undefined" => StaleNow(q))' /\ last' \in {"returned", "threw", "undefined"}
    BY <2>1 DEF Fine, StaleNow
  <2> QED
    BY <2>3, <2>5, <2>6 DEF IInv
<1>2. PICK temp \in Given, pos \in Positions :
        \/ \E text \in Texts \cup {NoText} : Call(Construct(q, text, temp, pos))
        \/ temp # NoStore /\ Call(SetChunks(q, temp, pos))
        \/ \E text \in Texts : Call(QueryText(q, text, temp, pos))
        \/ \E text \in Texts, m \in Models \cup {NoModel} : Call(QueryDocument(q, text, m, temp, pos))
        \/ Call(Retrieve(q, temp, pos))
  BY DEF Member
<1>3. StoresOK /\ Good(q)
  BY DEF IInv
<1>4. \A text \in Texts \cup {NoText} : \A o \in Construct(q, text, temp, pos) : Fine(o)
  BY <1>3, ConstructFine
<1>5. temp # NoStore => \A o \in SetChunks(q, temp, pos) : Fine(o)
  BY <1>3, SetChunksFine DEF Given
<1>6. \A text \in Texts : \A o \in QueryText(q, text, temp, pos) : Fine(o)
  BY <1>3, QueryTextFine
<1>7. \A text \in Texts, m \in Models \cup {NoModel} :
        \A o \in QueryDocument(q, text, m, temp, pos) : Fine(o)
  BY <1>3, QueryDocumentFine
<1>8. \A o \in Retrieve(q, temp, pos) : Fine(o)
  BY <1>3, RetrieveFine
<1> HIDE DEF Call
<1> QED
  BY <1>1, <1>2, <1>4, <1>5, <1>6, <1>7, <1>8

\* A step of the stores gives new elements new memory, and where it moves or
\* removes elements, or deletes the store, it counts a version.
Respects(s) ==
    /\ version'[s] >= version[s]
    /\ alive'[s] /\ version'[s] = version[s] =>
          /\ alive[s] /\ buffer'[s] = buffer[s]
          /\ \A i \in DOMAIN elements[s] :
                i \in DOMAIN elements'[s] /\ elements'[s][i] = elements[s][i]
    /\ \A i \in DOMAIN elements'[s] :
          \/ i \in DOMAIN elements[s] /\ elements'[s][i] = elements[s][i]
          \/ elements'[s][i].flat > ids

LEMMA ObjectKept ==
    ASSUME IInv, UNCHANGED q, \A s \in Stores : Respects(s),
           ids' \in Nat, ids' >= ids, version' \in [Stores -> Nat]
    PROVE  Good(q)'
<1>1. PICK p : p = q /\ p = q'
  OBVIOUS
<1>2. /\ p \in Objects /\ Configured(p) /\ Whole(p) /\ Owner(p) /\ AskedByModel(p) /\ Comparable(p)
      /\ version \in [Stores -> Nat] /\ ids \in Nat
  BY <1>1, StoreAssumption DEF IInv, Good, StoresOK, StoreTypeOK
<1>3. p.version \in Nat /\ p.spans.flat \in 0..MaxIds
  BY <1>2 DEF Objects, SpanLists
<1>4. p.spans.flat <= ids
  BY <1>2, <1>3 DEF Configured, NoSpans
<1>5. Configured(q)'
  BY <1>1, <1>2, <1>3 DEF Configured, Respects
<1>6. p.vdb # NoVdb /\ StaleNow(p) => StaleNow(q)'
  <2>1. SUFFICES ASSUME p.vdb # NoVdb, StaleNow(p), ~StaleNow(q)' PROVE FALSE
    OBVIOUS
  <2> DEFINE s == p.vdb.store
  <2>2. s \in Stores /\ p.version <= version[s]
    BY <1>2, <2>1 DEF Configured
  <2>3. alive'[s] /\ version'[s] = p.version
    BY <1>1, <2>1 DEF StaleNow
  <2>4. version'[s] = version[s]
    BY <1>2, <1>3, <2>2, <2>3 DEF Respects
  <2> QED
    BY <2>1, <2>2, <2>3, <2>4 DEF StaleNow, Respects
<1>7. Whole(q)'
  <2>1. SUFFICES ASSUME p.vdb # NoVdb, ~StaleNow(q)'
                 PROVE  /\ Readable(p.vdb)'
                        /\ p.spans = SpansOf(elements'[p.vdb.store][p.vdb.pos])
    BY <1>1 DEF Whole, Readable
  <2> DEFINE s == p.vdb.store
             i == p.vdb.pos
  <2>2. ~StaleNow(p)
    BY <1>6, <2>1
  <2>3. s \in Stores /\ alive[s] /\ version[s] = p.version /\ alive'[s] /\ version'[s] = p.version
    BY <1>1, <1>2, <2>1, <2>2 DEF Configured, StaleNow
  <2>4. /\ i \in DOMAIN elements[s] /\ p.vdb.buffer = buffer[s]
        /\ p.spans = SpansOf(elements[s][i])
    BY <1>2, <2>1, <2>2 DEF Whole, Readable
  <2>5. i \in DOMAIN elements'[s] /\ elements'[s][i] = elements[s][i] /\ buffer'[s] = buffer[s]
    BY <2>3, <2>4 DEF Respects
  <2> QED
    BY <1>1, <2>3, <2>4, <2>5 DEF Readable
<1>8. \A s \in Stores : \A i \in DOMAIN elements'[s] :
        elements'[s][i].flat = p.spans.flat =>
          i \in DOMAIN elements[s] /\ elements'[s][i] = elements[s][i]
  BY <1>2, <1>3, <1>4 DEF Respects
<1>9. Owner(q)'
  BY <1>1, <1>2, <1>8 DEF Owner
<1>10. AskedByModel(q)'
  <2>1. SpansReadable(q)' => SpansReadable(p)
    BY <1>1, <1>8 DEF SpansReadable
  <2> QED
    BY <1>1, <1>2, <2>1 DEF AskedByModel
<1> QED
  BY <1>1, <1>2, <1>5, <1>7, <1>9, <1>10 DEF Good, Objects, Comparable, Questions, Pointers, SpanLists, HitLists

\* What a step of the stores must show.
LEMMA StoresStep ==
    ASSUME IInv, UNCHANGED <<q, last>>, last # "undefined", StoresOK',
           \A s \in Stores : Respects(s), ids' >= ids
    PROVE  IInv'
<1>1. ids' \in Nat /\ version' \in [Stores -> Nat]
  BY StoreAssumption DEF StoresOK, StoreTypeOK
<1>2. Good(q)'
  BY <1>1, ObjectKept
<1> QED
  BY <1>2 DEF IInv

LEMMA ProcessDocumentsStep ==
    ASSUME IInv, UNCHANGED <<q, last>>, last # "undefined", NEW s \in Stores, ProcessDocuments(s)
    PROVE  IInv'
<1>1. PICK n \in 0..MaxChunks :
        /\ alive[s] /\ ~initialized[s] /\ ids < MaxIds
        /\ chunks' = [chunks EXCEPT ![s] = [batch |-> ids + 1, n |-> n]]
        /\ initialized' = [initialized EXCEPT ![s] = TRUE]
        /\ ids' = ids + 1
        /\ UNCHANGED <<alive, elements, capacity, buffer, version>>
  BY DEF ProcessDocuments
<1>2. StoreTypeOK /\ EmbeddingsMatchChunks /\ Filled /\ FlatsDiffer /\ ids \in Nat /\ ids + 1 \in 0..MaxIds
      /\ ids + 1 \in 1..MaxIds
  BY <1>1, StoreAssumption DEF IInv, StoresOK, StoreTypeOK
<1>3. DOMAIN elements[s] = {}
  BY <1>1, <1>2 DEF EmbeddingsMatchChunks
<1>4. /\ chunks' \in [Stores -> [batch : 0..MaxIds, n : 0..MaxChunks]]
      /\ chunks'[s] = [batch |-> ids + 1, n |-> n]
      /\ \A t \in Stores \ {s} : chunks'[t] = chunks[t]
  <2>1. [batch |-> ids + 1, n |-> n] \in [batch : 0..MaxIds, n : 0..MaxChunks]
    BY <1>2
  <2> QED
    BY <1>1, <1>2, <2>1 DEF StoreTypeOK
<1>5. /\ initialized' \in [Stores -> BOOLEAN] /\ initialized'[s]
      /\ \A t \in Stores \ {s} : initialized'[t] = initialized[t]
  BY <1>1, <1>2 DEF StoreTypeOK
<1>6. StoreTypeOK'
  BY <1>1, <1>2, <1>4, <1>5 DEF StoreTypeOK
<1>7. EmbeddingsMatchChunks'
  BY <1>1, <1>2, <1>3, <1>4, <1>5 DEF EmbeddingsMatchChunks
<1>8. Filled'
  BY <1>2, <1>4, <1>5 DEF Filled
<1>9. FlatsDiffer'
  <2>1. \A t \in Stores : \A i \in DOMAIN elements[t] : elements[t][i].flat <= ids + 1
    BY <1>2, Elements DEF FlatsDiffer, IInv
  <2> QED
    BY <1>1, <1>2, <2>1 DEF FlatsDiffer
<1>10. \A t \in Stores : Respects(t)
  BY <1>1, <1>2 DEF Respects, StoreTypeOK
<1>11. ids' >= ids
  BY <1>1, <1>2
<1> QED
  BY <1>6, <1>7, <1>8, <1>9, <1>10, <1>11, StoresStep DEF StoresOK

LEMMA CreateEmbStep ==
    ASSUME IInv, UNCHANGED <<q, last>>, last # "undefined",
           NEW s \in Stores, NEW m \in Models, CreateEmb(s, m)
    PROVE  IInv'
<1>1. PICK e, l, full : /\ e = [model |-> m, batch |-> chunks[s].batch, n |-> chunks[s].n, flat |-> ids + 1]
                        /\ l = Len(elements[s]) /\ full = (Len(elements[s]) = capacity[s])
  OBVIOUS
<1>2. /\ alive[s] /\ chunks[s].n > 0 /\ ~isModelUsed(s, m) /\ ids + 2 <= MaxIds
      /\ elements' = [elements EXCEPT ![s] = Append(elements[s], e)]
      /\ ids' = (IF full THEN ids + 2 ELSE ids + 1)
      /\ capacity' = [capacity EXCEPT ![s] =
            IF full /\ capacity[s] = 0 THEN 1 ELSE IF full THEN 2 * capacity[s] ELSE capacity[s]]
      /\ buffer' = [buffer EXCEPT ![s] = IF full THEN ids + 2 ELSE buffer[s]]
      /\ version' = [version EXCEPT ![s] = IF full THEN version[s] + 1 ELSE version[s]]
      /\ UNCHANGED <<alive, initialized, chunks>>
  BY <1>1 DEF CreateEmb
<1>3. /\ StoreTypeOK /\ EmbeddingsMatchChunks /\ Filled /\ FlatsDiffer /\ ids \in Nat
      /\ ids + 1 \in 1..MaxIds /\ ids + 2 \in 0..MaxIds /\ ids' \in 0..MaxIds /\ ids' >= ids + 1
      /\ ids' \in Nat
  BY <1>2, StoreAssumption DEF IInv, StoresOK, StoreTypeOK
<1>4. initialized[s] /\ chunks[s].n \in 1..MaxChunks /\ chunks[s].batch \in 1..MaxIds
  BY <1>2, <1>3, StoreAssumption DEF StoreTypeOK, Filled, NoChunks
<1>5. e \in Element /\ e.model = m /\ e.batch = chunks[s].batch /\ e.n = chunks[s].n /\ e.flat = ids + 1
  BY <1>1, <1>3, <1>4 DEF Element
<1>6. /\ elements[s] \in Seq(Element) /\ l \in Nat /\ l <= capacity[s] /\ capacity[s] \in Nat
      /\ buffer[s] \in 0..MaxIds /\ version[s] \in Nat
  BY <1>1, <1>3 DEF StoreTypeOK
<1>7. /\ elements' \in [Stores -> Seq(Element)] /\ elements'[s] = Append(elements[s], e)
      /\ \A t \in Stores \ {s} : elements'[t] = elements[t]
  <2>1. Append(elements[s], e) \in Seq(Element)
    BY <1>5, <1>6
  <2> QED
    BY <1>2, <1>3, <2>1 DEF StoreTypeOK
<1>8. /\ Len(elements'[s]) = l + 1 /\ DOMAIN elements'[s] = DOMAIN elements[s] \cup {l + 1}
      /\ elements'[s][l + 1] = e
      /\ \A i \in DOMAIN elements[s] : elements'[s][i] = elements[s][i] /\ i # l + 1
  BY <1>1, <1>5, <1>6, <1>7
<1>9. /\ capacity' \in [Stores -> Nat] /\ \A t \in Stores \ {s} : capacity'[t] = capacity[t]
      /\ l + 1 <= capacity'[s]
  <2>1. CASE full
    BY <1>1, <1>2, <1>3, <1>6, <2>1 DEF StoreTypeOK
  <2>2. CASE ~full
    BY <1>1, <1>2, <1>3, <1>6, <2>2 DEF StoreTypeOK
  <2> QED
    BY <2>1, <2>2
<1>10. /\ buffer' \in [Stores -> 0..MaxIds] /\ \A t \in Stores \ {s} : buffer'[t] = buffer[t]
       /\ ~full => buffer'[s] = buffer[s]
  BY <1>2, <1>3, <1>6 DEF StoreTypeOK
<1>11. /\ version' \in [Stores -> Nat] /\ \A t \in Stores \ {s} : version'[t] = version[t]
       /\ version'[s] = (IF full THEN version[s] + 1 ELSE version[s])
  BY <1>2, <1>3, <1>6 DEF StoreTypeOK
<1>12. StoreTypeOK'
  <2>1. \A t \in Stores : Len(elements'[t]) <= capacity'[t]
    BY <1>3, <1>7, <1>8, <1>9 DEF StoreTypeOK
  <2> QED
    BY <1>2, <1>3, <1>7, <1>9, <1>10, <1>11, <2>1 DEF StoreTypeOK
<1>13. EmbeddingsMatchChunks'
  <2>1. \A i \in DOMAIN elements[s] : elements[s][i].model # m
    BY <1>2 DEF isModelUsed
  <2>2. ASSUME NEW t \in Stores, NEW i \in DOMAIN elements'[t], NEW j \in DOMAIN elements'[t]
        PROVE  /\ initialized[t]
               /\ elements'[t][i].batch = chunks[t].batch
               /\ elements'[t][i].n = chunks[t].n
               /\ elements'[t][i].model = elements'[t][j].model => i = j
    <3>1. CASE t # s
      BY <1>3, <1>7, <2>2, <3>1 DEF EmbeddingsMatchChunks
    <3>2. CASE t = s
      BY <1>3, <1>4, <1>5, <1>8, <2>1, <2>2, <3>2 DEF EmbeddingsMatchChunks
    <3> QED
      BY <3>1, <3>2
  <2> QED
    BY <1>2, <2>2 DEF EmbeddingsMatchChunks
<1>14. Filled'
  BY <1>2, <1>3 DEF Filled
<1>15. \A t \in Stores : \A i \in DOMAIN elements'[t] :
         \/ i \in DOMAIN elements[t] /\ elements'[t][i] = elements[t][i]
         \/ t = s /\ i = l + 1 /\ elements'[t][i].flat = ids + 1
  BY <1>5, <1>7, <1>8
<1>16. \A t \in Stores : \A i \in DOMAIN elements[t] :
         elements[t][i].flat \in Nat /\ elements[t][i].flat <= ids
  BY <1>3, Elements DEF FlatsDiffer, IInv
<1>17. FlatsDiffer'
  <2>1. ASSUME NEW t \in Stores, NEW u \in Stores,
               NEW i \in DOMAIN elements'[t], NEW j \in DOMAIN elements'[u]
        PROVE  /\ elements'[t][i].flat <= ids'
               /\ elements'[t][i].flat = elements'[u][j].flat => t = u /\ i = j
    BY <1>3, <1>15, <1>16 DEF FlatsDiffer
  <2> QED
    BY <2>1 DEF FlatsDiffer
<1>18. \A t \in Stores : Respects(t)
  <2>1. ASSUME NEW t \in Stores \ {s} PROVE Respects(t)
    BY <1>2, <1>3, <1>7, <1>10, <1>11 DEF Respects, StoreTypeOK
  <2>2. Respects(s)
    <3>1. version'[s] >= version[s] /\ (version'[s] = version[s] => ~full)
      BY <1>1, <1>6, <1>11
    <3>2. \A i \in DOMAIN elements'[s] :
            \/ i \in DOMAIN elements[s] /\ elements'[s][i] = elements[s][i]
            \/ elements'[s][i].flat > ids
      BY <1>3, <1>15
    <3> QED
      BY <1>2, <1>8, <1>10, <3>1, <3>2 DEF Respects
  <2> QED
    BY <2>1, <2>2
<1> QED
  BY <1>3, <1>12, <1>13, <1>14, <1>17, <1>18, StoresStep DEF StoresOK

LEMMA ClearStep ==
    ASSUME IInv, UNCHANGED <<q, last>>, last # "undefined", NEW s \in Stores, Clear(s) \/ Delete(s)
    PROVE  IInv'
<1>1. StoreTypeOK /\ EmbeddingsMatchChunks /\ Filled /\ FlatsDiffer
  BY DEF IInv, StoresOK
<1>2. /\ elements' = [elements EXCEPT ![s] = <<>>]
      /\ version' = [version EXCEPT ![s] = version[s] + 1]
      /\ UNCHANGED <<capacity, buffer, ids>>
  BY DEF Clear, Delete
<1>3. /\ elements' \in [Stores -> Seq(Element)] /\ elements'[s] = <<>>
      /\ \A t \in Stores \ {s} : elements'[t] = elements[t]
  BY <1>1, <1>2 DEF StoreTypeOK
<1>4. /\ version' \in [Stores -> Nat] /\ version'[s] = version[s] + 1 /\ version[s] \in Nat
      /\ \A t \in Stores \ {s} : version'[t] = version[t]
  BY <1>1, <1>2 DEF StoreTypeOK
<1>5. /\ alive' \in [Stores -> BOOLEAN] /\ initialized' \in [Stores -> BOOLEAN]
      /\ chunks' \in [Stores -> [batch : 0..MaxIds, n : 0..MaxChunks]]
      /\ \A t \in Stores \ {s} :
            alive'[t] = alive[t] /\ initialized'[t] = initialized[t] /\ chunks'[t] = chunks[t]
      /\ \/ ~initialized'[s] /\ chunks'[s] = NoChunks
         \/ initialized'[s] = initialized[s] /\ chunks'[s] = chunks[s]
  <2>1. CASE Clear(s)
    <3>1. NoChunks \in [batch : 0..MaxIds, n : 0..MaxChunks]
      BY StoreAssumption DEF NoChunks
    <3> QED
      BY <1>1, <2>1, <3>1 DEF Clear, StoreTypeOK
  <2>2. CASE Delete(s)
    BY <1>1, <2>2 DEF Delete, StoreTypeOK
  <2> QED
    BY <2>1, <2>2
<1>6. StoreTypeOK'
  <2>1. \A t \in Stores : Len(elements'[t]) <= capacity[t]
    <3>1. Len(elements'[s]) = 0 /\ capacity[s] \in Nat
      BY <1>1, <1>3 DEF StoreTypeOK
    <3> QED
      BY <1>1, <1>3, <3>1 DEF StoreTypeOK
  <2> QED
    BY <1>1, <1>2, <1>3, <1>4, <1>5, <2>1 DEF StoreTypeOK
<1>7. EmbeddingsMatchChunks' /\ FlatsDiffer'
  <2>1. \A t \in Stores : \A i \in DOMAIN elements'[t] : t # s
    BY <1>3
  <2>2. \A t \in Stores : \A i \in DOMAIN elements'[t] :
          /\ elements'[t] = elements[t] /\ i \in DOMAIN elements[t]
          /\ initialized'[t] = initialized[t] /\ chunks'[t] = chunks[t]
    BY <1>3, <1>5, <2>1
  <2>3. EmbeddingsMatchChunks'
    BY <1>1, <2>2 DEF EmbeddingsMatchChunks
  <2>4. FlatsDiffer'
    BY <1>1, <1>2, <2>2 DEF FlatsDiffer
  <2> QED
    BY <2>3, <2>4
<1>8. Filled'
  BY <1>1, <1>5 DEF Filled
<1>9. \A t \in Stores : Respects(t)
  <2>1. DOMAIN elements'[s] = {}
    BY <1>3
  <2>2. \A t \in Stores : version[t] \in Nat
    BY <1>1 DEF StoreTypeOK
  <2> QED
    BY <1>2, <1>3, <1>4, <1>5, <2>1, <2>2 DEF Respects
<1>10. ids' >= ids
  BY <1>1, <1>2, StoreAssumption DEF StoreTypeOK
<1> QED
  BY <1>6, <1>7, <1>8, <1>9, <1>10, StoresStep DEF StoresOK

LEMMA NextStep == IInv /\ [Next]_vars => IInv'
<1> SUFFICES ASSUME IInv, [Next]_vars PROVE IInv'
  OBVIOUS
<1>1. CASE Member
  BY <1>1, MemberStep
<1>2. CASE last # "undefined" /\ StoreStep /\ UNCHANGED <<q, last>>
  BY <1>2, ProcessDocumentsStep, CreateEmbStep, ClearStep DEF StoreStep
<1>3. CASE UNCHANGED vars
  BY <1>3 DEF vars, storeVars, IInv, StoresOK, StoreTypeOK, EmbeddingsMatchChunks, Filled,
     FlatsDiffer, Good, Configured, Whole, StaleNow, Readable, Owner, AskedByModel,
     SpansReadable, Comparable
<1> QED
  BY <1>1, <1>2, <1>3 DEF Next

-----------------------------------------------------------------------------
(***************************************************************************)
(* The theorems.                                                           *)
(***************************************************************************)

\* The invariant holds after any sequence of calls.
THEOREM Inductive == Spec => []IInv
BY Initially, NextStep, PTL DEF Spec

\* Type correctness of the stores and of the object.
THEOREM TypeCorrect == Spec => []TypeOK
<1>1. IInv => TypeOK
  BY DEF IInv, StoresOK, Good, Objects, Questions, Pointers, SpanLists, HitLists, TypeOK
<1> QED
  BY <1>1, Inductive, PTL

\* Row i of every embedding a store has is that of its i-th chunk, and it has
\* one embedding of a model at most, whatever is cleared and filled again.
THEOREM StoresConsistent == Spec => []EmbeddingsMatchChunks
<1>1. IInv => EmbeddingsMatchChunks
  BY DEF IInv, StoresOK
<1> QED
  BY <1>1, Inductive, PTL

\* Until its store is deleted, cleared or grown, a configured object is of one
\* piece, also after calls that threw halfway.
THEOREM ConfiguredOfOnePiece == Spec => []UsableUntilStale
<1>1. IInv => UsableUntilStale
  <2> SUFFICES ASSUME IInv, q.vdb # NoVdb, ~Stale
               PROVE  LET e == elements[q.vdb.store][q.vdb.pos] IN
                      /\ Readable(q.vdb)
                      /\ q.chunks = q.vdb.store
                      /\ q.spans = [flat |-> e.flat, batch |-> e.batch, n |-> e.n, model |-> e.model]
                      /\ q.spans.batch = chunks[q.chunks].batch
                      /\ q.spans.n = chunks[q.chunks].n
                      /\ q.emb # NoEmb => q.emb.model = e.model
    BY DEF UsableUntilStale
  <2> DEFINE s == q.vdb.store
             i == q.vdb.pos
  <2>1. Readable(q.vdb) /\ q.spans = SpansOf(elements[s][i]) /\ s \in Stores /\ q.chunks = s
    BY DEF IInv, Good, Configured, Whole, StaleNow, Stale
  <2>2. i \in DOMAIN elements[s]
    BY <2>1 DEF Readable
  <2>3. elements[s][i].batch = chunks[s].batch /\ elements[s][i].n = chunks[s].n
    BY <2>1, <2>2, Elements DEF IInv
  <2>4. SpansReadable(q)
    BY <2>1, <2>2 DEF SpansReadable, SpansOf
  <2>5. q.emb # NoEmb => q.emb.model = elements[s][i].model
    BY <2>1, <2>4 DEF IInv, Good, AskedByModel, SpansOf
  <2> QED
    BY <2>1, <2>3, <2>5 DEF SpansOf
<1> QED
  BY <1>1, Inductive, PTL

\* No sequence of calls, failed ones included, reads memory that was given back
\* as long as the store is not deleted, cleared or grown after setChunks.
THEOREM OnlyStaleIsUndefined == Spec => []UndefinedOnlyWhenStale
<1>1. IInv => UndefinedOnlyWhenStale
  BY DEF IInv, StaleNow, Stale, UndefinedOnlyWhenStale
<1> QED
  BY <1>1, Inductive, PTL

\* The scores and the texts of the hits are of one batch, and the question and
\* the rows of one model, also for a stale object whose scan could still run.
THEOREM HitsOfOnePiece == Spec => []HitsComparable
<1>1. IInv => HitsComparable
  BY DEF IInv, Good, Comparable, HitsComparable
<1> QED
  BY <1>1, Inductive, PTL
(***************************************************************************)
(* As long as its store is not deleted, cleared or grown, an object with   *)
(* an embedded question answers: Retrieve(0.5) neither throws nor reads    *)
(* what was given back, and what it lists is the store's present batch.    *)
(***************************************************************************)
RetrieveWorks ==
    q.emb # NoEmb /\ ~Stale =>
        \A o \in Retrieve(q, NoStore, NoPos) :
            /\ o.end = "returned"
            /\ o.q.hits # NoHits => o.q.hits.listed = chunks[q.vdb.store].batch

\* No order of calls, failed ones included, leaves an object that has a question
\* and no answer to it.
THEOREM QuestionsAnswered == Spec => []RetrieveWorks
<1>1. IInv => RetrieveWorks
  <2> SUFFICES ASSUME IInv, q.emb # NoEmb, ~Stale, NEW o \in Retrieve(q, NoStore, NoPos)
               PROVE  /\ o.end = "returned"
                      /\ o.q.hits # NoHits => o.q.hits.listed = chunks[q.vdb.store].batch
    BY DEF RetrieveWorks
  <2>1. q.vdb # NoVdb /\ ~StaleNow(q) /\ q \in Objects
    BY DEF IInv, Good, Configured, Stale, StaleNow
  <2>2. PICK s, i : s = q.vdb.store /\ i = q.vdb.pos
    OBVIOUS
  <2>3. /\ Readable(q.vdb) /\ q.chunks = s /\ s \in Stores
        /\ alive[s] /\ i \in DOMAIN elements[s] /\ q.spans = SpansOf(elements[s][i])
    BY <2>1, <2>2 DEF IInv, Good, Configured, Whole, Readable
  <2>4. SpansReadable(q)
    BY <2>3 DEF SpansReadable, SpansOf
  <2>5. ~(chunks[s].n < q.spans.n)
    <3>1. q.spans.n = chunks[s].n /\ q.spans.n \in 1..MaxChunks
      BY <2>3, Elements DEF IInv, SpansOf
    <3> QED
      BY <3>1, StoreAssumption
  <2>6. o \in Scan(q)
    <3>1. Reconfigure(q, NoStore, NoPos) = {Returned(q)}
      BY DEF Reconfigure
    <3>2. Then({Returned(q)}, Scan) = Scan(q)
      BY DEF Then, Returned
    <3> QED
      BY <2>3, <3>1, <3>2 DEF Retrieve
  <2>7. PICK h \in {NoHits, [scored |-> q.spans.batch, listed |-> chunks[s].batch,
                             asked |-> q.emb.model, model |-> q.spans.model]} :
          o = Returned([q EXCEPT !.hits = h])
    BY <2>3, <2>4, <2>5, <2>6 DEF Scan
  <2>8. o.end = "returned" /\ o.q.hits = h
    BY <2>1, <2>7 DEF Returned, Objects
  <2> QED
    BY <2>2, <2>7, <2>8
<1> QED
  BY <1>1, Inductive, PTL
=============================================================================
