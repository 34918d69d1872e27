----------------------------- MODULE TextProofs ------------------------------
(***************************************************************************)
(* Proofs about TextChunks and EmbedBatches: SplitText loses nothing, and  *)
(* exactly when every document that comes back embedded has its own        *)
(* vector, for texts, tokens, chunks and batches of every size.            *)
(***************************************************************************)
EXTENDS EmbedBatches, TLAPS, WellFoundedInduction

-----------------------------------------------------------------------------
\* What is used of sequences.
LEMMA SequenceOf ==
    ASSUME NEW S, NEW s \in Seq(S)
    PROVE  Len(s) \in Nat /\ DOMAIN s = 1..Len(s)
OBVIOUS

LEMMA Appended ==
    ASSUME NEW S, NEW s \in Seq(S), NEW t \in Seq(S)
    PROVE  /\ s \o t \in Seq(S) /\ Len(s \o t) = Len(s) + Len(t)
           /\ \A i \in 1..Len(s) : (s \o t)[i] = s[i]
           /\ Len(s) \in Nat
OBVIOUS

-----------------------------------------------------------------------------
(***************************************************************************)
(* Arithmetic.                                                             *)
(***************************************************************************)

\* A function on 1..n is a sequence of length n.
LEMMA FunctionIsSeq ==
    ASSUME NEW S, NEW n \in Nat, NEW f, f = [i \in 1..n |-> f[i]],
           \A i \in 1..n : f[i] \in S
    PROVE  f \in Seq(S) /\ Len(f) = n
<1>1. f \in [1..n -> S]
  OBVIOUS
<1>2. f \in Seq(S)
  BY <1>1
<1>3. Len(f) = n
  BY <1>1, <1>2
<1> QED
  BY <1>2, <1>3

\* ... its length does not depend on S.
LEMMA FunctionLen ==
    ASSUME NEW n \in Nat, NEW f, f = [i \in 1..n |-> f[i]]
    PROVE  Len(f) = n
BY FunctionIsSeq

\* A size that fits into size_t is itself, -1 is the largest size_t.
LEMMA SizeT ==
    /\ \A x \in Int : size_t(x) \in 0..(Modulus - 1)
    /\ \A x \in 0..(Modulus - 1) : size_t(x) = x
    /\ size_t(-1) = Modulus - 1
<1>1. Modulus \in Nat \ {0}
  BY TextAssumption
<1> QED
  BY <1>1 DEF size_t

\* Multiplication is monotone.
LEMMA TimesMonotone ==
    ASSUME NEW b \in Nat, NEW x \in Int, NEW y \in Int, x <= y
    PROVE  x * b <= y * b
<1>1. (y - x) * b >= 0
  OBVIOUS
<1>2. (y - x) * b = y * b - x * b
  OBVIOUS
<1>3. x * b \in Int /\ y * b \in Int
  OBVIOUS
<1> QED
  BY <1>1, <1>2, <1>3

LEMMA ProductIsNat ==
    ASSUME NEW x \in Nat, NEW y \in Nat
    PROVE  x * y \in Nat
OBVIOUS

\* CeilDiv rounds up.
LEMMA CeilDivBounds ==
    ASSUME NEW a \in Nat, NEW b \in Nat \ {0}
    PROVE  /\ CeilDiv(a, b) \in Nat
           /\ a <= CeilDiv(a, b) * b
           /\ a > 0 => CeilDiv(a, b) > 0
           /\ (CeilDiv(a, b) - 1) * b < a
<1> DEFINE q == CeilDiv(a, b)
<1>1. q \in Int /\ q * b <= a + b - 1 /\ a + b - 1 < q * b + b
  BY DEF CeilDiv
<1>2. q >= 0
  <2>1. a + b - 1 >= 0
    OBVIOUS
  <2>2. SUFFICES ASSUME q <= -1 PROVE FALSE
    BY <1>1
  <2>3. q * b <= (-1) * b
    BY <1>1, <2>2, TimesMonotone
  <2> QED
    BY <1>1, <2>1, <2>3
<1>3. a > 0 => q > 0
  BY <1>1, <1>2
<1>4. (q - 1) * b = q * b - b
  BY <1>1
<1> QED
  BY <1>1, <1>2, <1>3, <1>4

\* ... strictly, and the other way round.
LEMMA TimesStrict ==
    ASSUME NEW b \in Nat \ {0}, NEW x \in Int, NEW y \in Int
    PROVE  x < y <=> x * b < y * b
<1>1. x * b \in Int /\ y * b \in Int /\ (x + 1) * b = x * b + b
  OBVIOUS
<1>2. x < y => (x + 1) * b <= y * b
  BY TimesMonotone
<1>3. y <= x => y * b <= x * b
  BY TimesMonotone
<1> QED
  BY <1>1, <1>2, <1>3

\* The quotient is below, at or not below a number as the dividend is below, at
\* or not below its multiple.
LEMMA Quotient ==
    ASSUME NEW a \in Nat, NEW b \in Nat \ {0}, NEW c \in Nat
    PROVE  /\ a \div b \in Nat
           /\ a = c * b => a \div b = c
           /\ a < c * b => a \div b < c
<1> DEFINE q == a \div b
<1>1. q \in Int /\ q * b <= a /\ a < q * b + b
  OBVIOUS
<1> HIDE DEF q
<1>2. q * b \in Int /\ c * b \in Int /\ (q + 1) * b = q * b + b /\ (-1) * b = -b
  BY <1>1
<1>3. q >= 0
  <2>1. q <= -1 => q * b <= (-1) * b
    BY <1>1, TimesMonotone
  <2> QED
    BY <1>1, <1>2, <2>1
<1>4. (c <= q => c * b <= q * b) /\ (q + 1 <= c => (q + 1) * b <= c * b)
      /\ (c + 1 <= q => (c + 1) * b <= q * b) /\ (c + 1) * b = c * b + b
  BY <1>1, TimesMonotone
<1>5. a < c * b => q < c
  BY <1>1, <1>2, <1>4
<1>6. a = c * b => q = c
  BY <1>1, <1>2, <1>4
<1> QED
  BY <1>1, <1>3, <1>5, <1>6 DEF q

\* A set of numbers that is not empty has a least one.
LEMMA LeastNat ==
    ASSUME NEW T, T \subseteq Nat, T # {}
    PROVE  \E x \in T : \A y \in T : x <= y
<1> DEFINE R == {ss \in Nat \X Nat : ss[1] < ss[2]}
<1>1. IsWellFoundedOn(R, Nat)
  BY NatLessThanWellFounded DEF OpToRel
<1>2. PICK x \in T : \A y \in T : ~(<<y, x>> \in R)
  <2> HIDE DEF R
  <2> QED
    BY <1>1, WFMin
<1>3. \A y \in T : ~(y < x)
  BY <1>2
<1> QED
  BY <1>3

\* Every position of a text of length len is in one of its steps.
LEMMA PointInStep ==
    ASSUME NEW len \in Nat, NEW step \in Nat \ {0}, NEW p \in 1..len
    PROVE  \E i \in 1..CeilDiv(len, step) : (i - 1) * step < p /\ p <= (i - 1) * step + step
<1> DEFINE i == CeilDiv(p, step)
           q == CeilDiv(len, step)
<1>1. i \in Nat /\ i > 0 /\ p <= i * step /\ (i - 1) * step < p
  BY CeilDivBounds
<1>2. q \in Nat /\ len <= q * step
  BY CeilDivBounds
<1> HIDE DEF i, q
<1>3. ASSUME q <= i - 1 PROVE FALSE
  <2>1. q * step <= (i - 1) * step
    BY <1>1, <1>2, <1>3, TimesMonotone
  <2>2. q * step \in Int /\ (i - 1) * step \in Int
    BY <1>1, <1>2
  <2> QED
    BY <1>1, <1>2, <2>1, <2>2
<1>4. i \in 1..q
  BY <1>1, <1>2, <1>3
<1>5. i * step = (i - 1) * step + step
  BY <1>1
<1>6. (i - 1) * step < p /\ p <= (i - 1) * step + step
  BY <1>1, <1>5
<1> QED
  BY <1>4, <1>6 DEF q

-----------------------------------------------------------------------------
(***************************************************************************)
(* SplitText, with parameters that a constructor accepts.                  *)
(***************************************************************************)

\* The i-th chunk is the stretch of text d that starts at (i - 1) * step.
PieceAt(chunk, i, d, step, len) ==
    /\ chunk.doc = d
    /\ chunk.from = (i - 1) * step
    /\ chunk.from \in 0..(len - 1)
    /\ chunk.to \in chunk.from..len

\* The chunks of a text: how many, where each begins, that none is beyond the
\* text; substr never has to throw.
LEMMA SplitTextShape ==
    ASSUME NEW d \in 1..MaxDocs, NEW len \in 0..MaxLen,
           NEW overlap \in -1..MaxSize, NEW size \in -1..MaxSize, overlap < size
    PROVE  /\ size - overlap \in Nat \ {0}
           /\ Step(overlap, size) = size - overlap
           /\ CeilDiv(len, size - overlap) \in Nat
           /\ DOMAIN SplitText(d, len, overlap, size) = 1..CeilDiv(len, size - overlap)
           /\ Len(SplitText(d, len, overlap, size)) = CeilDiv(len, size - overlap)
           /\ \A i \in 1..CeilDiv(len, size - overlap) :
                 PieceAt(SplitText(d, len, overlap, size)[i], i, d, size - overlap, len)
<1> DEFINE step == size - overlap
           c == SplitText(d, len, overlap, size)
           end(i) == size_t((i - 1) * step + size)
           q == CeilDiv(len, step)
<1>1. step \in Nat \ {0} /\ step <= MaxSize + 1
  BY TextAssumption
<1>2. Step(overlap, size) = step
  <2>1. step \in 0..(Modulus - 1)
    BY <1>1, TextAssumption
  <2> QED
    BY <2>1, SizeT DEF Step
<1>3. q \in Nat /\ (q - 1) * step < len
  BY <1>1, CeilDivBounds
<1>4. c = [i \in 1..q |-> [doc |-> d, from |-> (i - 1) * step,
              to |-> IF end(i) >= len \/ end(i) < (i - 1) * step THEN len ELSE end(i)]]
  BY <1>2 DEF SplitText
<1>5. ASSUME NEW i \in 1..q
      PROVE  /\ (i - 1) * step \in 0..(len - 1)
             /\ end(i) \in Nat
  <2>1. (i - 1) * step <= (q - 1) * step
    BY <1>1, <1>3, TimesMonotone
  <2>2. 0 * step <= (i - 1) * step
    BY <1>1, TimesMonotone
  <2>3. (i - 1) * step \in Int /\ (q - 1) * step \in Int /\ 0 * step = 0
    BY <1>1, <1>3
  <2>4. end(i) \in 0..(Modulus - 1)
    BY <2>3, SizeT
  <2> QED
    BY <1>3, <2>1, <2>2, <2>3, <2>4, TextAssumption
<1>6. ASSUME NEW i \in 1..q PROVE PieceAt(c[i], i, d, step, len)
  <2> HIDE DEF end, step, q, c
  <2>1. c[i] = [doc |-> d, from |-> (i - 1) * step,
              to |-> IF end(i) >= len \/ end(i) < (i - 1) * step THEN len ELSE end(i)]
    BY <1>4
  <2>2. c[i].doc = d /\ c[i].from = (i - 1) * step
    BY <2>1
  <2> QED
    BY <2>1, <2>2, <1>5, TextAssumption DEF PieceAt
<1>7. DOMAIN c = 1..q /\ Len(c) = q
  <2> HIDE DEF c, q, step
  <2>1. DOMAIN c = 1..q /\ c = [i \in 1..q |-> c[i]]
    BY <1>4
  <2> QED
    BY <2>1, <1>3, FunctionLen
<1> QED
  BY <1>1, <1>2, <1>3, <1>6, <1>7

\* They are a sequence of chunks.
LEMMA SplitTextType ==
    ASSUME NEW d \in 1..MaxDocs, NEW len \in 0..MaxLen,
           NEW overlap \in -1..MaxSize, NEW size \in -1..MaxSize, overlap < size
    PROVE  SplitText(d, len, overlap, size) \in Seq(Chunk)
<1> DEFINE q == CeilDiv(len, size - overlap)
           c == SplitText(d, len, overlap, size)
<1>1. q \in Nat /\ DOMAIN c = 1..q
  BY SplitTextShape
<1>2. \A i \in 1..q : c[i].doc = d /\ c[i].from \in 0..(len - 1) /\ c[i].to \in c[i].from..len
  BY SplitTextShape DEF PieceAt
<1>3. c = [i \in 1..q |-> [doc |-> c[i].doc, from |-> c[i].from, to |-> c[i].to]]
  BY <1>1 DEF SplitText
<1> HIDE DEF c, q
<1>4. c = [i \in 1..q |-> c[i]] /\ \A i \in 1..q : c[i] \in Chunk
  BY <1>2, <1>3, TextAssumption DEF Chunk
<1>5. c \in Seq(Chunk)
  BY <1>1, <1>4, FunctionIsSeq
<1> QED
  BY <1>5 DEF c

\* With an overlap that is not negative nothing wraps: a chunk ends after
\* chunk_size bytes or with the text.
LEMMA SplitTextEnd ==
    ASSUME NEW d \in 1..MaxDocs, NEW len \in 0..MaxLen,
           NEW overlap \in 0..MaxSize, NEW size \in 0..MaxSize, overlap < size
    PROVE  LET c == SplitText(d, len, overlap, size)
           IN  \A i \in 1..CeilDiv(len, size - overlap) :
                  c[i].to = IF c[i].from + size >= len THEN len ELSE c[i].from + size
<1> DEFINE step == size - overlap
           c == SplitText(d, len, overlap, size)
           q == CeilDiv(len, step)
<1>0. overlap \in -1..MaxSize /\ size \in -1..MaxSize
  BY TextAssumption
<1>a. Step(overlap, size) = step /\ step \in Nat \ {0} /\ q \in Nat /\ DOMAIN c = 1..q
  BY <1>0, SplitTextShape
<1>b. \A i \in 1..q : PieceAt(c[i], i, d, step, len)
  BY <1>0, SplitTextShape
<1> SUFFICES ASSUME NEW i \in 1..q
             PROVE  c[i].to = IF c[i].from + size >= len THEN len ELSE c[i].from + size
  OBVIOUS
<1>1. c[i].from = (i - 1) * step /\ c[i].from \in 0..(len - 1)
  BY <1>b DEF PieceAt
<1>2. size_t((i - 1) * step + size) = (i - 1) * step + size
  <2>1. (i - 1) * step + size \in 0..(Modulus - 1)
    BY <1>1, TextAssumption
  <2> QED
    BY <2>1, SizeT
<1>3. c[i].to = IF (i - 1) * step + size >= len \/ (i - 1) * step + size < (i - 1) * step
                  THEN len ELSE (i - 1) * step + size
  BY <1>a, <1>2 DEF SplitText
<1> QED
  BY <1>1, <1>3

\* What ChunksCoverText asks of the chunks c of a text.
GoodCut(c, len, overlap, size) ==
    /\ \A p \in 1..len : \E i \in DOMAIN c : c[i].from < p /\ p <= c[i].to
    /\ \A i \in DOMAIN c : c[i].from < c[i].to /\ c[i].to - c[i].from <= size
    /\ \A i \in 1..(Len(c) - 1) :
          c[i].to - c[i + 1].from =
              IF len - c[i + 1].from < overlap THEN len - c[i + 1].from ELSE overlap

(***************************************************************************)
(* SplitText covers the text: every byte is in a chunk, no chunk is empty  *)
(* or too long, and neighbours share `overlap` bytes.                      *)
(***************************************************************************)
THEOREM SplitTextCovers ==
    ASSUME NEW d \in 1..MaxDocs, NEW len \in 0..MaxLen,
           NEW overlap \in 0..MaxSize, NEW size \in 0..MaxSize, overlap < size
    PROVE  GoodCut(SplitText(d, len, overlap, size), len, overlap, size)
<1> DEFINE step == size - overlap
           c == SplitText(d, len, overlap, size)
           q == CeilDiv(len, step)
<1>0. overlap \in -1..MaxSize /\ size \in -1..MaxSize /\ len \in Nat
  BY TextAssumption
<1>1. /\ step \in Nat \ {0}
      /\ q \in Nat
      /\ DOMAIN c = 1..q
      /\ Len(c) = q
      /\ \A i \in 1..q : c[i].from = (i - 1) * step /\ c[i].from \in 0..(len - 1)
  <2>1. step \in Nat \ {0} /\ q \in Nat /\ DOMAIN c = 1..q /\ Len(c) = q
    BY <1>0, SplitTextShape
  <2>2. \A i \in 1..q : PieceAt(c[i], i, d, step, len)
    BY <1>0, SplitTextShape
  <2> HIDE DEF step, c, q
  <2> QED
    BY <2>1, <2>2 DEF PieceAt
<1>2. \A i \in 1..q : c[i].to = IF c[i].from + size >= len THEN len ELSE c[i].from + size
  BY SplitTextEnd
<1>3. ASSUME NEW p \in 1..len PROVE \E i \in 1..q : c[i].from < p /\ p <= c[i].to
  <2>1. PICK i \in 1..q : (i - 1) * step < p /\ p <= (i - 1) * step + step
    BY <1>0, <1>1, PointInStep
  <2>2. c[i].from = (i - 1) * step /\ c[i].from \in 0..(len - 1)
    BY <1>1
  <2>3. c[i].to = IF c[i].from + size >= len THEN len ELSE c[i].from + size
    BY <1>2
  <2> HIDE DEF c, q
  <2>4. p <= c[i].from + size
    BY <2>1, <2>2
  <2> QED
    BY <2>1, <2>2, <2>3, <2>4
<1>4. ASSUME NEW i \in 1..q PROVE c[i].from < c[i].to /\ c[i].to - c[i].from <= size
  <2>1. c[i].from \in 0..(len - 1)
    BY <1>1
  <2>2. c[i].to = IF c[i].from + size >= len THEN len ELSE c[i].from + size
    BY <1>2
  <2> HIDE DEF c, q
  <2> QED
    BY <2>1, <2>2, <1>0
<1>5. ASSUME NEW i \in 1..(q - 1)
      PROVE  c[i].to - c[i + 1].from =
                 IF len - c[i + 1].from < overlap THEN len - c[i + 1].from ELSE overlap
  <2>1. i \in 1..q /\ i + 1 \in 1..q
    BY <1>1
  <2>2. (i + 1 - 1) * step = (i - 1) * step + step
    BY <1>1
  <2>3. c[i + 1].from = c[i].from + step
    BY <1>1, <2>1, <2>2
  <2>4. c[i].from \in Int /\ c[i].to = IF c[i].from + size >= len THEN len ELSE c[i].from + size
    BY <1>1, <1>2, <2>1
  <2> HIDE DEF c, q
  <2> QED
    BY <2>3, <2>4
<1> QED
  BY <1>1, <1>3, <1>4, <1>5 DEF GoodCut

-----------------------------------------------------------------------------
(***************************************************************************)
(* What the local model makes of n texts: e[i] tokens have the texts 1..i. *)
(***************************************************************************)
LEMMA EncodingOf ==
    ASSUME NEW n \in Nat \ {0}, NEW e \in Encodings(n)
    PROVE  /\ Len(e) = n /\ DOMAIN e = 1..n
           /\ \A i \in 1..n : /\ e[i] \in Nat
                              /\ Before(e, i) \in Nat
                              /\ Before(e, i) <= e[i]
           /\ \A i \in 1..(n - 1) : Before(e, i + 1) = e[i]
<1>1. e = [i \in 1..n |-> e[i]] /\ \A i \in 1..n : e[i] \in Nat
  BY TextAssumption DEF Encodings
<1>2. Len(e) = n
  BY <1>1, FunctionLen
<1>3. \A i \in 1..(n - 1) : e[i] <= e[i + 1]
  BY DEF Encodings
<1>4. ASSUME NEW i \in 1..n
      PROVE  e[i] \in Nat /\ Before(e, i) \in Nat /\ Before(e, i) <= e[i]
  <2>1. CASE i = 1
    BY <1>1, <2>1 DEF Before
  <2>2. CASE i # 1
    <3>1. i - 1 \in 1..(n - 1) /\ i - 1 \in 1..n /\ (i - 1) + 1 = i
      BY <2>2
    <3> QED
      BY <1>1, <1>3, <2>2, <3>1 DEF Before
  <2> QED
    BY <2>1, <2>2
<1>5. ASSUME NEW i \in 1..(n - 1) PROVE Before(e, i + 1) = e[i]
  BY DEF Before
<1> QED
  BY <1>1, <1>2, <1>4, <1>5

\* A row is only short if there are at least three and the texts are uneven.
LEMMA ShortRowOfMany ==
    ASSUME NEW n \in Nat \ {0}, NEW e \in Encodings(n), ShortRow(e)
    PROVE  n > 2 /\ ~Even(e)
<1>1. /\ Len(e) = n /\ DOMAIN e = 1..n
      /\ \A i \in 1..n : e[i] \in Nat
  BY EncodingOf
<1>2. PICK i \in 1..n : e[i] - Before(e, i) < e[1]
  BY <1>1 DEF ShortRow
<1>3. n * e[1] <= e[n]
  BY <1>1 DEF ShortRow, FillsInput
<1>4. i # 1
  BY <1>1, <1>2 DEF Before
<1>5. Before(e, i) = e[i - 1] /\ i - 1 \in 1..n
  BY <1>4 DEF Before
<1>6. n # 2
  BY <1>1, <1>2, <1>3, <1>4, <1>5
<1>7. ~Even(e)
  <2> SUFFICES ASSUME Even(e) PROVE FALSE
    OBVIOUS
  <2>1. e[i] = i * e[1] /\ e[i - 1] = (i - 1) * e[1]
    BY <1>1, <1>5 DEF Even
  <2>2. i * e[1] = (i - 1) * e[1] + e[1] /\ (i - 1) * e[1] \in Int
    BY <1>1
  <2> QED
    BY <1>1, <1>2, <1>5, <2>1, <2>2
<1> QED
  BY <1>4, <1>6, <1>7

\* If no text is shorter than the first and all together are n times as long,
\* they are all equally long.
LEMMA NoneShorter ==
    ASSUME NEW n \in Nat \ {0}, NEW e \in Encodings(n),
           \A i \in 1..(n - 1) : e[i] + e[1] <= e[i + 1],
           e[n] = n * e[1]
    PROVE  Even(e)
<1> DEFINE f == e[1]
           Low == {i \in 1..n : e[i] < i * f}
           High == {k \in 0..(n - 1) : e[n - k] > (n - k) * f}
<1>1. DOMAIN e = 1..n /\ f \in Nat /\ \A i \in 1..n : e[i] \in Nat
  BY EncodingOf
<1>2. \A i \in 0..n : i * f \in Int /\ (i + 1) * f = i * f + f
  BY <1>1
<1>3. Low = {}
  <2> SUFFICES ASSUME Low # {} PROVE FALSE
    OBVIOUS
  <2>1. PICK i \in Low : \A j \in Low : i <= j
    <3>1. Low \subseteq Nat
      OBVIOUS
    <3> HIDE DEF Low
    <3> QED
      BY <3>1, LeastNat
  <2>2. i \in 1..n /\ e[i] < i * f
    OBVIOUS
  <2>3. i # 1
    BY <1>1, <2>2
  <2>4. i - 1 \in 1..(n - 1) /\ i - 1 \in 1..n /\ (i - 1) + 1 = i
    BY <2>2, <2>3
  <2>5. i - 1 \notin Low
    BY <2>1, <2>4
  <2>6. e[i - 1] >= (i - 1) * f
    BY <1>1, <1>2, <2>4, <2>5
  <2>7. e[i - 1] + f <= e[i]
    BY <2>4
  <2>8. i * f = (i - 1) * f + f /\ (i - 1) * f \in Int
    BY <1>2, <2>4
  <2> HIDE DEF f, Low
  <2> QED
    BY <1>1, <2>2, <2>4, <2>6, <2>7, <2>8
<1>4. High = {}
  <2> SUFFICES ASSUME High # {} PROVE FALSE
    OBVIOUS
  <2>1. PICK k \in High : \A j \in High : k <= j
    <3>1. High \subseteq Nat
      OBVIOUS
    <3> HIDE DEF High
    <3> QED
      BY <3>1, LeastNat
  <2>2. k \in 0..(n - 1) /\ e[n - k] > (n - k) * f
    OBVIOUS
  <2>3. k # 0
    BY <1>1, <2>2
  <2>4. /\ k - 1 \in 0..(n - 1) /\ n - k \in 1..(n - 1) /\ n - k \in 1..n
        /\ n - (k - 1) = (n - k) + 1 /\ (n - k) + 1 \in 1..n
    BY <2>2, <2>3
  <2>5. k - 1 \notin High
    BY <2>1, <2>4
  <2>6. e[(n - k) + 1] <= ((n - k) + 1) * f
    <3>1. ~(e[n - (k - 1)] > (n - (k - 1)) * f)
      BY <2>4, <2>5
    <3>2. e[(n - k) + 1] \in Nat /\ ((n - k) + 1) * f \in Int
      BY <1>1, <1>2, <2>4
    <3> HIDE DEF f, High
    <3> QED
      BY <2>4, <3>1, <3>2
  <2>7. e[n - k] + f <= e[(n - k) + 1]
    BY <2>4
  <2>8. ((n - k) + 1) * f = (n - k) * f + f /\ (n - k) * f \in Int
    BY <1>2, <2>4
  <2> HIDE DEF f, High
  <2> QED
    BY <1>1, <2>2, <2>4, <2>6, <2>7, <2>8
<1>5. ASSUME NEW i \in 1..n PROVE e[i] = i * f
  <2>1. ~(e[i] < i * f)
    BY <1>3
  <2>2. ~(e[i] > i * f)
    <3>1. n - i \in 0..(n - 1) /\ n - (n - i) = i
      OBVIOUS
    <3>2. n - i \notin High
      BY <1>4
    <3>3. ~(e[n - (n - i)] > (n - (n - i)) * f)
      BY <3>1, <3>2
    <3> HIDE DEF f, High
    <3> QED
      BY <3>1, <3>3
  <2>3. e[i] \in Nat /\ i \in 0..n
    BY <1>1
  <2>4. i * f \in Int
    BY <1>2, <2>3
  <2> QED
    BY <2>1, <2>2, <2>3, <2>4
<1> QED
  BY <1>1, <1>5 DEF Even

\* No text ends behind the last.
LEMMA EncodingUpTo ==
    ASSUME NEW n \in Nat \ {0}, NEW e \in Encodings(n), NEW i \in 1..n
    PROVE  e[i] <= e[n]
<1> DEFINE Wrong == {k \in 0..(n - 1) : e[n - k] > e[n]}
<1>1. \A j \in 1..n : e[j] \in Nat
  BY EncodingOf
<1>2. Wrong = {}
  <2> SUFFICES ASSUME Wrong # {} PROVE FALSE
    OBVIOUS
  <2>1. PICK k \in Wrong : \A j \in Wrong : k <= j
    <3>1. Wrong \subseteq Nat
      OBVIOUS
    <3> HIDE DEF Wrong
    <3> QED
      BY <3>1, LeastNat
  <2>2. k \in 0..(n - 1) /\ e[n - k] > e[n]
    OBVIOUS
  <2>3. k # 0
    BY <1>1, <2>2
  <2>4. /\ k - 1 \in 0..(n - 1) /\ n - k \in 1..(n - 1) /\ n - k \in 1..n
        /\ n - (k - 1) = (n - k) + 1 /\ (n - k) + 1 \in 1..n
    BY <2>2, <2>3
  <2>5. ~(e[n - (k - 1)] > e[n])
    BY <2>1, <2>4
  <2>6. e[n - k] <= e[(n - k) + 1]
    BY <2>4 DEF Encodings
  <2> HIDE DEF Wrong
  <2> QED
    BY <1>1, <2>2, <2>4, <2>5, <2>6
<1>3. n - i \in 0..(n - 1) /\ n - (n - i) = i
  OBVIOUS
<1>4. ~(e[n - (n - i)] > e[n])
  BY <1>2, <1>3
<1> QED
  BY <1>1, <1>3, <1>4

\* It is a sequence of numbers of tokens.
LEMMA EncodingType ==
    ASSUME NEW n \in Nat, NEW e \in Encodings(n)
    PROVE  e \in Seq(0..MaxTokens)
<1>1. e = [i \in 1..n |-> e[i]] /\ \A i \in 1..n : e[i] \in 0..MaxTokens
  BY DEF Encodings
<1> QED
  BY <1>1, FunctionIsSeq

\* Of stretches of one length, one behind the other, each meets itself only.
LEMMA SameStretch ==
    ASSUME NEW a \in Nat \ {0}, NEW x \in Int, NEW y \in Int
    PROVE  Meet((x - 1) * a, x * a, (y - 1) * a, y * a) <=> x = y
<1>1. /\ x * a \in Int /\ y * a \in Int
      /\ (x - 1) * a = x * a - a /\ (y - 1) * a = y * a - a
  OBVIOUS
<1>2. (x <= y - 1 => x * a <= (y - 1) * a) /\ (y <= x - 1 => y * a <= (x - 1) * a)
  BY TimesMonotone
<1> QED
  BY <1>1, <1>2 DEF Meet

\* Stretches meet as they do when all is b times as long.
LEMMA MeetScaled ==
    ASSUME NEW b \in Nat \ {0},
           NEW w \in Int, NEW x \in Int, NEW y \in Int, NEW z \in Int
    PROVE  Meet(w * b, x * b, y * b, z * b) <=> Meet(w, x, y, z)
BY TimesStrict DEF Meet

\* If the texts are equally long, each is a row of the input, and of the output.
LEMMA EvenOwn ==
    ASSUME total \in Nat \ {0}, ii \in Encodings(total), ii[total] > 0, Even(ii),
           NEW d \in 1..total
    PROVE  Row(d) = {d}
<1> DEFINE f == ii[1]
           L == NumLabels(ii)
<1>1. /\ Len(ii) = total /\ DOMAIN ii = 1..total
      /\ \A i \in 1..total : ii[i] \in Nat /\ ii[i] = i * f
  BY EncodingOf DEF Even
<1>2. f \in Nat \ {0}
  <2>1. f \in Nat /\ ii[total] = total * f
    BY <1>1
  <2> QED
    BY <2>1
<1>3. L = TokenLogits
  <2>1. total * f \in Nat \ {0} /\ total * f * TokenLogits \in Nat
    BY <1>1, <1>2, TextAssumption, ProductIsNat
  <2>2. total * f * TokenLogits = TokenLogits * (total * f)
    BY <1>2, TextAssumption
  <2>3. (total * f * TokenLogits) \div (total * f) = TokenLogits
    BY <2>1, <2>2, TextAssumption, Quotient
  <2>4. ii[total] = total * f
    BY <1>1
  <2> QED
    BY <1>1, <2>3, <2>4 DEF NumLabels
<1>4. ASSUME NEW i \in 1..total PROVE Before(ii, i) = (i - 1) * f
  <2>1. CASE i = 1
    BY <1>2, <2>1 DEF Before
  <2>2. CASE i # 1
    <3>1. i - 1 \in 1..total
      BY <2>2
    <3> QED
      BY <1>1, <2>2, <3>1 DEF Before
  <2> QED
    BY <2>1, <2>2
<1> HIDE DEF f, L
<1>5. ASSUME NEW r \in 1..total, NEW e \in 1..total
      PROVE  InInput(r, e) <=> r = e
  <2>0. r \in Int /\ e \in Int
    OBVIOUS
  <2>1. Meet((e - 1) * f, e * f, (r - 1) * f, r * f) <=> e = r
    BY <1>2, <2>0, SameStretch
  <2>2. Before(ii, e) = (e - 1) * f /\ ii[e] = e * f
    BY <1>1, <1>4
  <2> QED
    BY <2>1, <2>2 DEF InInput, f
<1>6. ASSUME NEW r \in 1..total
      PROVE  InOutput(r, d) <=> r = d
  <2> DEFINE a == f * TokenLogits
  <2>1. a \in Nat \ {0}
    BY <1>2, TextAssumption
  <2>2. Before(ii, d) = (d - 1) * f /\ ii[d] = d * f
    BY <1>1, <1>4
  <2>3. (d - 1) * f * TokenLogits = (d - 1) * a /\ d * f * TokenLogits = d * a
    BY <1>2, TextAssumption
  <2> HIDE DEF a
  <2>0. r \in Int /\ d \in Int
    OBVIOUS
  <2>4. Meet((d - 1) * a, d * a, (r - 1) * a, r * a) <=> d = r
    BY <2>0, <2>1, SameStretch
  <2> QED
    BY <1>3, <2>2, <2>3, <2>4 DEF InOutput, f, L, a
<1> QED
  BY <1>5, <1>6 DEF Row

\* If they are not, some text gets numbers that are not, or not only, its own.
LEMMA OwnEven ==
    ASSUME total \in Nat \ {0}, ii \in Encodings(total), ii[total] > 0, FillsInput(ii),
           \A d \in 1..total : Row(d) = {d}
    PROVE  Even(ii)
<1> DEFINE f == ii[1]
           L == NumLabels(ii)
<1>1. /\ Len(ii) = total /\ DOMAIN ii = 1..total
      /\ \A i \in 1..total : ii[i] \in Nat /\ Before(ii, i) \in Nat /\ Before(ii, i) <= ii[i]
      /\ \A i \in 1..(total - 1) : Before(ii, i + 1) = ii[i]
  BY EncodingOf
<1>2. \A d \in 1..total : \E r \in 1..total : InOutput(r, d) /\ InInput(r, d)
  BY DEF Row
<1>3. ASSUME NEW r \in 1..total, NEW d \in 1..total, NEW e \in 1..total,
             InOutput(r, d), InInput(r, e)
      PROVE  d = e
  BY <1>3 DEF Row
<1>4. \A d \in 1..total : Before(ii, d) < ii[d]
  BY <1>2 DEF InInput, Meet
<1>5. f \in Nat \ {0}
  <2>1. Before(ii, 1) = 0 /\ f \in Nat /\ 1 \in 1..total
    BY <1>1 DEF Before
  <2> QED
    BY <1>4, <2>1
<1>6. total * f <= ii[total]
  BY <1>1 DEF FillsInput
<1>7. /\ total * f \in Nat /\ total * f * TokenLogits \in Nat
      /\ total * f * TokenLogits = TokenLogits * (total * f)
  BY <1>5, TextAssumption, ProductIsNat
<1>8. L = (total * f * TokenLogits) \div ii[total] /\ ii[total] \in Nat \ {0}
  BY <1>1 DEF NumLabels
<1>9. L \in Nat
  BY <1>7, <1>8, TextAssumption, Quotient
<1>10. CASE total * f < ii[total]
  <2>1. L < TokenLogits
    <3>1. total * f * TokenLogits < ii[total] * TokenLogits
      BY <1>5, <1>7, <1>8, <1>10, TextAssumption, TimesStrict
    <3>2. total * f * TokenLogits < TokenLogits * ii[total]
      BY <1>8, <3>1, TextAssumption
    <3> QED
      BY <1>7, <1>8, <3>2, TextAssumption, Quotient
  <2>2. L > 0
    <3>1. L # 0
      <4> SUFFICES ASSUME L = 0 PROVE FALSE
        OBVIOUS
      <4>1. PICK r \in 1..total : InOutput(r, 1)
        BY <1>2
      <4>2. Before(ii, 1) * 0 < ii[1] * 0
        BY <4>1 DEF InOutput, Meet
      <4> QED
        BY <1>1, <4>2
    <3> QED
      BY <1>9, <3>1
  <2>3. total # 1
    BY <1>5, <1>10
  <2>4. 2 \in 1..total /\ 1 \in 1..total /\ Before(ii, 2) = f /\ Before(ii, 1) = 0 /\ f < ii[2]
    BY <1>1, <1>4, <2>3 DEF Before
  <2>5. InInput(1, 1)
    BY <1>5, <2>4 DEF InInput, Meet
  <2>6. InOutput(1, 2)
    <3> HIDE DEF f, L
    <3>1. f * L < ii[2] * L
      <4>1. L \in Nat \ {0} /\ f \in Int /\ ii[2] \in Int /\ f < ii[2]
        BY <1>1, <1>5, <1>9, <2>2, <2>4
      <4> QED
        BY <4>1, TimesStrict
    <3>2. L * f < TokenLogits * f
      BY <1>5, <1>9, <2>1, TextAssumption, TimesStrict
    <3>3. f * L < f * TokenLogits /\ f * L \in Nat /\ f * TokenLogits \in Nat
      BY <1>5, <1>9, <3>2, TextAssumption, ProductIsNat
    <3>4. ii[2] * L \in Nat
      BY <1>1, <1>9, <2>4, ProductIsNat
    <3>5. (1 - 1) * (f * TokenLogits) = 0 /\ 1 * (f * TokenLogits) = f * TokenLogits
      BY <3>3
    <3>6. Meet(f * L, ii[2] * L, (1 - 1) * (f * TokenLogits), 1 * (f * TokenLogits))
      BY <3>1, <3>3, <3>4, <3>5 DEF Meet
    <3> QED
      BY <2>4, <3>6 DEF InOutput, f, L
  <2>7. 1 = 2
    BY <1>3, <2>4, <2>5, <2>6
  <2> QED
    BY <2>7
<1>11. CASE total * f = ii[total]
  <2>1. L = TokenLogits
    BY <1>7, <1>8, <1>11, TextAssumption, Quotient
  <2>2. ASSUME NEW r \in 1..total, NEW d \in 1..total
        PROVE  InOutput(r, d) <=> InInput(r, d)
    <3> HIDE DEF f, L
    <3>1. /\ Before(ii, d) \in Int /\ ii[d] \in Int
          /\ (r - 1) * f \in Int /\ r * f \in Int
      BY <1>1, <1>5
    <3>2. Meet(Before(ii, d) * TokenLogits, ii[d] * TokenLogits,
               (r - 1) * f * TokenLogits, r * f * TokenLogits)
            <=> Meet(Before(ii, d), ii[d], (r - 1) * f, r * f)
      BY <3>1, TextAssumption, MeetScaled
    <3>3. /\ (r - 1) * f * TokenLogits = (r - 1) * (f * TokenLogits)
          /\ r * f * TokenLogits = r * (f * TokenLogits)
      BY <1>5, TextAssumption
    <3> QED
      BY <2>1, <3>2, <3>3 DEF InOutput, InInput, f, L
  <2>3. ASSUME NEW i \in 1..(total - 1)
        PROVE  ii[i] = CeilDiv(ii[i], f) * f
    <3> DEFINE r == CeilDiv(ii[i], f)
    <3>1. i \in 1..total /\ i + 1 \in 1..total /\ i # i + 1
      OBVIOUS
    <3>2. ii[i] \in Nat /\ ii[i + 1] \in Nat /\ Before(ii, i) \in Nat
          /\ Before(ii, i) < ii[i] /\ Before(ii, i + 1) = ii[i] /\ ii[i] < ii[i + 1]
      BY <1>1, <1>4, <3>1
    <3>3. r \in Nat /\ r > 0 /\ ii[i] <= r * f /\ (r - 1) * f < ii[i]
      <4>1. f \in Nat \ {0} /\ ii[i] \in Nat /\ ii[i] > 0
        BY <1>5, <3>2
      <4> HIDE DEF f
      <4> QED
        BY <4>1, CeilDivBounds
    <3> SUFFICES ASSUME ii[i] < r * f PROVE FALSE
      <4>1. r * f \in Int
        BY <1>5, <3>3
      <4> HIDE DEF r, f
      <4> QED
        BY <3>2, <3>3, <4>1 DEF r, f
    <3> HIDE DEF r, f
    <3>4. r \in 1..total
      <4>1. ASSUME total <= r - 1 PROVE FALSE
        <5>1. total * f <= (r - 1) * f
          BY <1>5, <3>3, <4>1, TimesMonotone
        <5>2. ii[i] <= ii[total]
          BY <3>1, EncodingUpTo
        <5>3. (r - 1) * f \in Int
          BY <1>5, <3>3
        <5> QED
          BY <1>7, <1>8, <1>11, <3>2, <3>3, <5>1, <5>2, <5>3
      <4> QED
        BY <3>3, <4>1
    <3>5. (r - 1) * f \in Int /\ r * f \in Int
      BY <1>5, <3>3
    <3>6. InInput(r, i) /\ InInput(r, i + 1)
      BY <1>5, <3>2, <3>3, <3>5 DEF InInput, Meet, f
    <3>7. InOutput(r, i)
      BY <2>2, <3>1, <3>4, <3>6
    <3> QED
      BY <1>3, <3>1, <3>4, <3>6, <3>7
  <2>4. ASSUME NEW i \in 1..(total - 1) PROVE ii[i] + f <= ii[i + 1]
    <3>1. i \in 1..total /\ i + 1 \in 1..total
      OBVIOUS
    <3>2. ii[i] \in Nat /\ ii[i + 1] \in Nat /\ ii[i] < ii[i + 1]
      BY <1>1, <1>4, <3>1
    <3>3. PICK x \in Nat : ii[i] = x * f
      BY <1>5, <2>3, <3>2, CeilDivBounds
    <3>4. PICK y \in Nat : ii[i + 1] = y * f
      <4>1. CASE i + 1 = total
        BY <1>11, <4>1
      <4>2. CASE i + 1 # total
        <5>1. i + 1 \in 1..(total - 1)
          BY <4>2
        <5> QED
          BY <1>5, <2>3, <3>2, <5>1, CeilDivBounds
      <4> QED
        BY <4>1, <4>2
    <3> HIDE DEF f
    <3>5. x < y
      BY <1>5, <3>2, <3>3, <3>4, TimesStrict
    <3>6. (x + 1) * f <= y * f /\ (x + 1) * f = x * f + f
      BY <1>5, <3>5, TimesMonotone
    <3> QED
      BY <3>3, <3>4, <3>6
  <2> QED
    BY <1>11, <2>4, NoneShorter
<1> QED
  BY <1>6, <1>7, <1>8, <1>10, <1>11

-----------------------------------------------------------------------------
(***************************************************************************)
(* The invariant: what the threads have computed so far, and how far the   *)
(* loops over the batches are.                                             *)
(***************************************************************************)
TextLabels == {"chunking", "chunked", "threw", "terminated", "undefined", "trapped"}

\* A document that is split is what SplitText makes of it.
SplitInv ==
    \A d \in DOMAIN docs :
        /\ how.kind = "default" /\ stage[d] # "todo" =>
              local[d] = SplitText(d, docs[d].len, how.overlap, how.size)
        /\ stage[d] = "counting" => how.kind = "count"
        /\ how.size < 0 => loop[d].i <= 0

\* The model can have been run.
Encoded == total > 0 /\ ii[total] > 0 /\ FillsInput(ii)

\* EmbeddingOpenAI has served the documents before start_idx.  After its first
\* turn EmbeddingModel has a row for every document, after its second too many.
EmbedInv ==
    /\ pc = "chunking" => rows = <<>> /\ vectors = <<>> /\ start_idx = 0 /\ ii = <<>>
    /\ pc = "openai" =>
          /\ rows = <<>>
          /\ vectors \in [1..total -> SUBSET (1..total)]
          /\ \A d \in 1..total : d <= start_idx => vectors[d] = {d}
    /\ pc = "model" =>
          /\ ii \in Encodings(total)
          /\ \/ start_idx = 0 /\ rows = <<>>
             \/ /\ batch > 0 /\ start_idx >= batch
                /\ Encoded /\ Len(rows) >= total
                /\ \A d \in 1..total : rows[d] = Row(d)
                /\ start_idx > batch => Len(rows) > total

IInv ==
    /\ TypeOK /\ SplitInv /\ EmbedInv
    /\ OutOfBoundsOnlyBy /\ OwnVector /\ ModelServesOneBatch

-----------------------------------------------------------------------------
(***************************************************************************)
(* The types of the inputs.                                                *)
(***************************************************************************)
LEMMA EndsType ==
    ASSUME NEW len \in Nat, NEW e \in Ends(len)
    PROVE  e \in Seq(1..len) /\ Len(e) <= len
BY DEF Ends

LEMMA InputTypes ==
    ASSUME TextTypeOK, NEW d \in DOMAIN docs
    PROVE  /\ d \in 1..MaxDocs
           /\ docs[d].len \in 0..MaxLen
           /\ docs[d].ends \in Seq(1..docs[d].len)
           /\ Len(docs[d].ends) \in 0..MaxLen
           /\ how.overlap \in -1..MaxSize
           /\ how.size \in -1..MaxSize
           /\ how.kind # "count" => how.overlap < how.size
<1>1. d \in 1..MaxDocs /\ docs[d] \in Texts(how.kind)
  BY TextAssumption DEF TextTypeOK
<1>2. docs[d].len \in 0..MaxLen
  BY <1>1 DEF Texts
<1>3. docs[d].ends \in Seq(1..docs[d].len) /\ Len(docs[d].ends) \in 0..MaxLen
  <2>1. CASE how.kind = "count"
    <3>1. docs[d].ends \in Ends(docs[d].len)
      BY <1>1, <2>1 DEF Texts
    <3>2. docs[d].ends \in Seq(1..docs[d].len) /\ Len(docs[d].ends) <= docs[d].len
      BY <1>2, <3>1, EndsType
    <3> QED
      BY <1>2, <3>2, TextAssumption
  <2>2. CASE how.kind # "count"
    <3>1. docs[d].ends = <<>>
      BY <1>1, <2>2 DEF Texts
    <3> QED
      BY <3>1, TextAssumption
  <2> QED
    BY <2>1, <2>2
<1>4. how \in Splitters
  BY DEF TextTypeOK
<1>5. /\ how.overlap \in -1..MaxSize
      /\ how.size \in -1..MaxSize
      /\ how.kind # "count" => how.overlap < how.size
  BY <1>4 DEF Splitters
<1> QED
  BY <1>1, <1>2, <1>3, <1>5

\* The number of embeddings is a number.
LEMMA RowsType ==
    ASSUME how.kind \in Vendors, NEW n \in Nat, NEW r \in Rows(n)
    PROVE  r \in Nat
<1>1. CASE how.kind = "huggingface"
  <2>1. CeilDiv(n, ModelRows) \in Nat
    BY TextAssumption, CeilDivBounds
  <2>2. r = n * CeilDiv(n, ModelRows)
    BY <1>1 DEF Rows
  <2> QED
    BY <2>1, <2>2, ProductIsNat
<1>2. CASE how.kind = "openai"
  BY <1>2 DEF Rows
<1>3. CASE how.kind = "cohere"
  BY <1>3 DEF Rows
<1> QED
  BY <1>1, <1>2, <1>3 DEF Vendors

\* The chunks that the similarity puts in order are chunks of the text.
LEMMA OrderType ==
    ASSUME NEW c \in Seq(Chunk), NEW r \in 0..Len(c), NEW p \in Orders(r)
    PROVE  [i \in 1..r |-> c[p[i]]] \in Seq(Chunk)
<1>1. \A i \in 1..r : p[i] \in 1..Len(c)
  BY DEF Orders
<1>2. \A i \in 1..r : c[p[i]] \in Chunk
  BY <1>1
<1> DEFINE f == [i \in 1..r |-> c[p[i]]]
<1>3. r \in Nat /\ f = [i \in 1..r |-> f[i]] /\ \A i \in 1..r : f[i] \in Chunk
  BY <1>2
<1> HIDE DEF f
<1>4. f \in Seq(Chunk)
  BY <1>3, FunctionIsSeq
<1> QED
  BY <1>4 DEF f

\* What the turn adds is within the text.
LEMMA TailBounds ==
    ASSUME NEW len \in 0..MaxLen, NEW base \in 1..len, NEW start \in Nat, start <= len - base
    PROVE  len - base \in 0..MaxLen /\ base + start \in 0..MaxLen
BY TextAssumption

\* One turn of SplitTextByCount stays inside the text.
LEMMA TurnType ==
    ASSUME TextTypeOK, NEW d \in DOMAIN docs, CountTurn(d), pc' = pc
    PROVE  /\ local' \in [DOMAIN docs -> Seq(Chunk)]
           /\ loop' \in [DOMAIN docs -> [i : Int, start : Nat]]
           /\ how.size < 0 /\ loop[d].i <= 0 => loop'[d].i <= 0
           /\ \A e \in DOMAIN docs \ {d} : local'[e] = local[e] /\ loop'[e] = loop[e]
<1> DEFINE matches == docs[d].ends
           base == matches[Len(matches)]
           tail == docs[d].len - base
           start == loop[d].start
           j == size_t(loop[d].i + how.size)
           end_idx == IF j < Len(matches) THEN matches[j] ELSE tail + 1
           chunk == [doc |-> d, from |-> base + start,
                     to |-> base + (IF end_idx \in start..tail THEN end_idx ELSE tail)]
           next == [i |-> loop[d].i + how.size,
                    start |-> IF end_idx > size_t(how.overlap) THEN end_idx - how.overlap ELSE 0]
<1>1. /\ d \in 1..MaxDocs
      /\ docs[d].len \in 0..MaxLen
      /\ matches \in Seq(1..docs[d].len)
      /\ how.overlap \in -1..MaxSize
      /\ how.size \in -1..MaxSize
  BY InputTypes
<1>2. /\ loop[d].i \in 0..(Len(matches) - 1) /\ loop[d].i \in Int
      /\ start \in Nat
      /\ j # 0 /\ start <= tail
      /\ local' = [local EXCEPT ![d] = Append(@, chunk)]
      /\ loop' = [loop EXCEPT ![d] = next]
  BY DEF CountTurn, Undefined, Fail, TextTypeOK
<1>3. Len(matches) \in Nat \ {0} /\ base \in 1..docs[d].len
  <2>1. Len(matches) \in Nat /\ DOMAIN matches = 1..Len(matches)
    BY <1>1, SequenceOf
  <2>2. Len(matches) \in Nat \ {0}
    BY <1>2, <2>1
  <2> HIDE DEF matches
  <2> QED
    BY <1>1, <2>1, <2>2
<1>4. j \in Nat
  <2>0. how.size \in Int
    BY <1>1, TextAssumption
  <2>1. loop[d].i + how.size \in Int
    BY <1>2, <2>0
  <2>2. j \in 0..(Modulus - 1)
    BY <2>1, SizeT
  <2> QED
    BY <2>2, TextAssumption
<1>t. tail = docs[d].len - base /\ tail \in 0..MaxLen /\ base + start \in 0..MaxLen
  <2> HIDE DEF base, start
  <2>1. docs[d].len - base \in 0..MaxLen /\ base + start \in 0..MaxLen
    BY <1>1, <1>2, <1>3, TailBounds
  <2> QED
    BY <2>1
<1>5. end_idx \in Nat /\ end_idx <= MaxLen + 1
  <2>1. CASE j < Len(matches)
    <3>1. j \in 1..Len(matches)
      BY <1>2, <1>3, <1>4, <2>1
    <3>2. matches[j] \in 1..docs[d].len
      BY <1>1, <3>1
    <3>3. end_idx = matches[j]
      BY <2>1
    <3> HIDE DEF end_idx
    <3> QED
      BY <1>1, <3>2, <3>3, TextAssumption
  <2>2. CASE ~(j < Len(matches))
    <3>1. end_idx = tail + 1
      BY <2>2
    <3> HIDE DEF end_idx, tail
    <3> QED
      BY <1>t, <3>1, TextAssumption
  <2> QED
    BY <2>1, <2>2
<1>6. size_t(how.overlap) = IF how.overlap = -1 THEN Modulus - 1 ELSE how.overlap
  <2>1. how.overlap = -1 \/ how.overlap \in 0..(Modulus - 1)
    BY <1>1, TextAssumption
  <2> QED
    BY <2>1, SizeT
<1> HIDE DEF end_idx, j, tail, base, matches
<1>7. chunk \in Chunk
  <2>1. base + start \in 0..MaxLen
    BY <1>t
  <2>2. base + tail \in 0..MaxLen /\ base \in Nat
    <3>1. base \in 1..docs[d].len /\ tail = docs[d].len - base /\ docs[d].len \in 0..MaxLen
      BY <1>1, <1>3, <1>t
    <3>2. base \in Int /\ docs[d].len \in Int
      BY <3>1, TextAssumption
    <3> QED
      BY <3>1, <3>2
  <2> DEFINE to == IF end_idx \in start..tail THEN end_idx ELSE tail
  <2>3. to \in 0..tail /\ tail \in Nat
    BY <1>t, <1>5
  <2> HIDE DEF to
  <2>4. base + to \in 0..MaxLen
    BY <2>2, <2>3, TextAssumption
  <2> QED
    BY <1>1, <2>1, <2>4 DEF Chunk, to
<1>8. next \in [i : Int, start : Nat]
  <2>1. loop[d].i + how.size \in Int
    BY <1>1, <1>2, TextAssumption
  <2>2. (IF end_idx > size_t(how.overlap) THEN end_idx - how.overlap ELSE 0) \in Nat
    BY <1>1, <1>5, <1>6, TextAssumption
  <2> QED
    BY <2>1, <2>2
<1>9. local \in [DOMAIN docs -> Seq(Chunk)] /\ loop \in [DOMAIN docs -> [i : Int, start : Nat]]
  BY DEF TextTypeOK
<1> HIDE DEF chunk
<1>10. Append(local[d], chunk) \in Seq(Chunk)
  BY <1>7, <1>9
<1>11. next.i = loop[d].i + how.size
  OBVIOUS
<1> HIDE DEF next
<1> QED
  BY <1>1, <1>2, <1>8, <1>9, <1>10, <1>11

-----------------------------------------------------------------------------
(***************************************************************************)
(* The invariant holds at the start and is preserved.                      *)
(***************************************************************************)
LEMMA InitInv == Init => IInv
<1> SUFFICES ASSUME Init PROVE IInv
  OBVIOUS
<1>1. PICK n \in 1..MaxDocs : docs \in [1..n -> Texts(how.kind)]
  BY DEF Init, TextInit
<1>2. docs \in Seq(Texts(how.kind)) /\ Len(docs) \in 1..MaxDocs
  BY <1>1, TextAssumption
<1>3. TextTypeOK
  BY <1>2 DEF Init, TextInit, TextTypeOK
<1>4. total = 0 /\ documents = <<>>
  BY DEF Init, TextInit, total
<1>5. TypeOK
  BY <1>3, <1>4, BatchAssumption DEF TypeOK, Init, TextInit, Labels
<1>6. SplitInv
  BY DEF SplitInv, Init, TextInit
<1> QED
  BY <1>5, <1>6 DEF IInv, Init, TextInit, EmbedInv, OutOfBoundsOnlyBy, OwnVector, ModelServesOneBatch

\* A step of the cutting.
LEMMA TextStepKeeps ==
    ASSUME TextTypeOK, SplitInv, TextStep
    PROVE  /\ TextTypeOK' /\ SplitInv'
           /\ pc = "chunking" /\ pc' \in TextLabels
<1> USE DEF TextTypeOK, SplitInv, TextLabels
<1>1. ASSUME Fail \/ Undefined \/ Trap, pc = "chunking"
      PROVE  TextTypeOK' /\ SplitInv' /\ pc = "chunking" /\ pc' \in TextLabels
  BY <1>1 DEF Fail, Undefined, Trap
<1>2. ASSUME NEW d \in DOMAIN docs, NEW c \in Seq(Chunk), Todo(d), Keep(d, c),
             how.kind = "default" => c = SplitText(d, docs[d].len, how.overlap, how.size)
      PROVE  TextTypeOK' /\ SplitInv' /\ pc = "chunking" /\ pc' \in TextLabels
  BY <1>2 DEF Keep, Todo
<1>3. ASSUME NEW d \in DOMAIN docs, SplitBySize(d)
      PROVE  TextTypeOK' /\ SplitInv' /\ pc = "chunking" /\ pc' \in TextLabels
  <2>1. SplitText(d, docs[d].len, how.overlap, how.size) \in Seq(Chunk)
    <3>1. how.kind # "count"
      BY <1>3 DEF SplitBySize
    <3> HIDE DEF TextTypeOK, SplitInv
    <3> QED
      BY <3>1, InputTypes, SplitTextType
  <2> QED
    BY <1>2, <1>3, <2>1 DEF SplitBySize
<1>4. ASSUME NEW d \in DOMAIN docs, SplitByCount(d)
      PROVE  TextTypeOK' /\ SplitInv' /\ pc = "chunking" /\ pc' \in TextLabels
  BY <1>4 DEF SplitByCount, Todo
<1>5. ASSUME NEW d \in DOMAIN docs, CountTurn(d)
      PROVE  TextTypeOK' /\ SplitInv' /\ pc = "chunking" /\ pc' \in TextLabels
  <2>1. CASE Fail \/ Undefined
    BY <1>1, <1>5, <2>1 DEF CountTurn
  <2>2. CASE ~(Fail \/ Undefined)
    <3>1. /\ UNCHANGED <<how, docs, stage, documents, pc>>
          /\ stage[d] = "counting" /\ pc = "chunking"
      BY <1>5, <2>2 DEF CountTurn
    <3>2. /\ local' \in [DOMAIN docs -> Seq(Chunk)]
          /\ loop' \in [DOMAIN docs -> [i : Int, start : Nat]]
          /\ how.size < 0 /\ loop[d].i <= 0 => loop'[d].i <= 0
          /\ \A e \in DOMAIN docs \ {d} : local'[e] = local[e] /\ loop'[e] = loop[e]
      <4> HIDE DEF TextTypeOK, SplitInv
      <4> QED
        BY <1>5, <3>1, TurnType
    <3>3. how.kind = "count"
      BY <3>1
    <3> QED
      BY <3>1, <3>2, <3>3
  <2> QED
    BY <2>1, <2>2
<1>6. ASSUME NEW d \in DOMAIN docs, CountEnds(d)
      PROVE  TextTypeOK' /\ SplitInv' /\ pc = "chunking" /\ pc' \in TextLabels
  BY <1>6 DEF CountEnds
<1>7. ASSUME NEW d \in DOMAIN docs, SplitBySimilarity(d)
      PROVE  TextTypeOK' /\ SplitInv' /\ pc = "chunking" /\ pc' \in TextLabels
  <2> DEFINE c == SplitText(d, docs[d].len, how.overlap, how.size)
  <2>1. how.kind # "count" /\ how.kind # "default"
    BY <1>7 DEF SplitBySimilarity, Vendors
  <2>2. c \in Seq(Chunk)
    <3> HIDE DEF TextTypeOK, SplitInv
    <3> QED
      BY <2>1, InputTypes, SplitTextType
  <2>3. CASE Fail \/ Undefined \/ Trap
    BY <1>1, <1>7, <2>3 DEF SplitBySimilarity, Todo
  <2>4. CASE ~(Fail \/ Undefined \/ Trap)
    <3>1. PICK r \in Rows(Len(c)) :
             ~(r = 0 \/ r > Len(c)) /\ \E p \in Orders(r) : Keep(d, [i \in 1..r |-> c[p[i]]])
      BY <1>7, <2>4 DEF SplitBySimilarity
    <3>2. PICK p \in Orders(r) : Keep(d, [i \in 1..r |-> c[p[i]]])
      BY <3>1
    <3>3. r \in 0..Len(c)
      <4>1. Len(c) \in Nat /\ how.kind \in Vendors
        BY <1>7, <2>2 DEF SplitBySimilarity
      <4>2. r \in Nat
        BY <3>1, <4>1, RowsType
      <4> QED
        BY <3>1, <4>1, <4>2
    <3>4. [i \in 1..r |-> c[p[i]]] \in Seq(Chunk)
      BY <2>2, <3>2, <3>3, OrderType
    <3>5. Todo(d)
      BY <1>7 DEF SplitBySimilarity
    <3> HIDE DEF c
    <3> QED
      BY <1>2, <2>1, <3>2, <3>4, <3>5
  <2> QED
    BY <2>3, <2>4
<1>8. ASSUME NEW d \in DOMAIN docs, AddChunks(d)
      PROVE  TextTypeOK' /\ SplitInv' /\ pc = "chunking" /\ pc' \in TextLabels
  <2>1. local[d] \in Seq(Chunk) /\ documents \in Seq(Chunk)
    OBVIOUS
  <2>2. documents \o local[d] \in Seq(Chunk)
    BY <2>1
  <2> QED
    BY <1>8, <2>2 DEF AddChunks
<1>9. CASE Return
  BY <1>9 DEF Return
<1> QED
  BY <1>3, <1>4, <1>5, <1>6, <1>7, <1>8, <1>9 DEF TextStep

\* More than one batch of the local model is more than ModelRows chunks.
LEMMA ManyRows ==
    ASSUME NEW len \in Nat, NEW step \in Nat \ {0}, NEW n \in Nat, n = CeilDiv(len, step),
           n * CeilDiv(n, ModelRows) = 0 \/ n * CeilDiv(n, ModelRows) > n
    PROVE  len = 0 \/ len > ModelRows * step
<1> DEFINE b == CeilDiv(n, ModelRows)
<1>0. ModelRows \in Nat \ {0}
  BY TextAssumption
<1>1. b \in Nat /\ (n > 0 => b > 0) /\ (b - 1) * ModelRows < n
  BY <1>0, CeilDivBounds
<1>2. (len > 0 => n > 0) /\ (n - 1) * step < len
  BY CeilDivBounds
<1>3. n * b = 0 \/ n * b > n
  OBVIOUS
<1> HIDE DEF b
<1>4. CASE n = 0
  BY <1>2, <1>4
<1>5. CASE n > 0 /\ b = 1
  BY <1>3, <1>5
<1>6. CASE b > 1
  <2>1. 1 * ModelRows <= (b - 1) * ModelRows
    BY <1>0, <1>1, <1>6, TimesMonotone
  <2>2. ModelRows <= n - 1
    BY <1>0, <1>1, <2>1
  <2>3. ModelRows * step <= (n - 1) * step
    BY <1>0, <2>2, TimesMonotone
  <2>4. ModelRows * step \in Int /\ (n - 1) * step \in Int
    BY <1>0
  <2> QED
    BY <1>2, <2>3, <2>4
<1> QED
  BY <1>1, <1>4, <1>5, <1>6

\* A step of the cutting goes out of bounds only for one of these reasons.
LEMMA TextStepBounds ==
    ASSUME TextTypeOK, SplitInv, TextStep
    PROVE  OutOfBoundsOnlyBy'
<1> SUFFICES ASSUME pc' = "undefined" PROVE OutOfBoundsOnlyBy'
  BY DEF OutOfBoundsOnlyBy
<1>1. UNCHANGED <<how, docs>> /\ pc = "chunking"
  BY DEF TextStep, SplitBySize, SplitByCount, CountTurn, CountEnds, SplitBySimilarity,
         AddChunks, Return, Keep, Todo, Fail, Undefined, Trap
<1>2. ASSUME NEW d \in DOMAIN docs, CountTurn(d) PROVE OutOfBoundsOnlyBy'
  <2>1. /\ stage[d] = "counting"
        /\ loop[d].i \in 0..(Len(docs[d].ends) - 1)
        /\ size_t(loop[d].i + how.size) = 0
    BY <1>1, <1>2 DEF CountTurn, Fail
  <2>2. how.kind = "count" /\ (how.size < 0 => loop[d].i <= 0)
    BY <2>1 DEF SplitInv
  <2>3. how.size \in -1..MaxSize /\ Len(docs[d].ends) \in 0..MaxLen
    BY InputTypes
  <2>4. how.size = 0
    <3>1. CASE how.size > 0
      <4>1. loop[d].i + how.size \in 1..(Modulus - 1)
        BY <2>1, <2>3, <3>1, TextAssumption
      <4>2. size_t(loop[d].i + how.size) = loop[d].i + how.size
        BY <4>1, SizeT
      <4> QED
        BY <2>1, <4>1, <4>2
    <3>2. CASE how.size = -1
      <4>1. loop[d].i + how.size = -1
        BY <2>1, <2>2, <2>3, <3>2, TextAssumption
      <4> QED
        BY <2>1, <4>1, SizeT, TextAssumption
    <3> QED
      BY <2>3, <3>1, <3>2, TextAssumption
  <2> QED
    BY <1>1, <2>2, <2>4 DEF OutOfBoundsOnlyBy
<1>3. ASSUME NEW d \in DOMAIN docs, SplitBySimilarity(d) PROVE OutOfBoundsOnlyBy'
  <2> DEFINE c == SplitText(d, docs[d].len, how.overlap, how.size)
             step == how.size - how.overlap
  <2>1. how.kind \in Vendors
    BY <1>3 DEF SplitBySimilarity
  <2>2. CASE how.kind # "huggingface"
    BY <1>1, <2>1, <2>2 DEF OutOfBoundsOnlyBy, Vendors
  <2>3. CASE how.kind = "huggingface"
    <3>1. \/ \E r \in Rows(Len(c)) : r = 0 \/ r > Len(c)
          \/ /\ c # <<>>
             /\ \E e \in Encodings(Len(c)) : (how.padded => Even(e)) /\ ShortRow(e)
      BY <1>1, <1>3 DEF SplitBySimilarity, Fail, Keep, Trap
    <3>3. /\ d \in 1..MaxDocs /\ docs[d].len \in 0..MaxLen
          /\ how.overlap \in -1..MaxSize /\ how.size \in -1..MaxSize /\ how.overlap < how.size
      BY <2>3, InputTypes
    <3>4. /\ step \in Nat \ {0} /\ CeilDiv(docs[d].len, step) \in Nat
          /\ Len(c) = CeilDiv(docs[d].len, step)
      BY <3>3, SplitTextShape
    <3>5. docs[d].len \in Nat
      BY <3>3, TextAssumption
    <3>a. c # <<>> => Len(c) # 0
      BY <3>3, SplitTextType
    <3> HIDE DEF c, step
    <3>6. CASE \E r \in Rows(Len(c)) : r = 0 \/ r > Len(c)
      <4>1. PICK r \in Rows(Len(c)) : r = 0 \/ r > Len(c)
        BY <3>6
      <4>2. r = Len(c) * CeilDiv(Len(c), ModelRows)
        BY <2>3, <4>1 DEF Rows
      <4>3. docs[d].len = 0 \/ docs[d].len > ModelRows * step
        BY <3>4, <3>5, <4>1, <4>2, ManyRows
      <4> QED
        BY <1>1, <2>3, <4>3 DEF OutOfBoundsOnlyBy, step
    <3>7. CASE c # <<>> /\ \E e \in Encodings(Len(c)) : (how.padded => Even(e)) /\ ShortRow(e)
      <4>1. PICK e \in Encodings(Len(c)) : (how.padded => Even(e)) /\ ShortRow(e)
        BY <3>7
      <4>2. Len(c) \in Nat \ {0}
        BY <3>4, <3>7, <3>a
      <4>3. Len(c) > 2 /\ ~Even(e)
        BY <4>1, <4>2, ShortRowOfMany
      <4>4. (Len(c) - 1) * step < docs[d].len
        BY <3>4, <3>5, CeilDivBounds
      <4>5. 2 * step <= (Len(c) - 1) * step
        BY <3>4, <4>2, <4>3, TimesMonotone
      <4>6. 2 * step \in Int /\ (Len(c) - 1) * step \in Int
        BY <3>4, <4>2
      <4>7. docs[d].len > 2 * step
        BY <3>5, <4>4, <4>5, <4>6
      <4>8. ~how.padded
        BY <4>1, <4>3
      <4> QED
        BY <1>1, <2>3, <4>7, <4>8 DEF OutOfBoundsOnlyBy, step
    <3> QED
      BY <3>1, <3>6, <3>7
  <2> QED
    BY <2>2, <2>3
<1> QED
  BY <1>1, <1>2, <1>3
  DEF TextStep, SplitBySize, SplitByCount, CountEnds, AddChunks, Return, Keep

-----------------------------------------------------------------------------
(***************************************************************************)
(* A step of GenerateEmbeddings.                                           *)
(***************************************************************************)
LEMMA EmbedStepKeeps ==
    ASSUME IInv, EmbedStep
    PROVE  IInv'
<1> DEFINE callTypes == /\ batch \in 0..MaxBatch
                        /\ start_idx \in 0..(total + MaxBatch)
                        /\ ii \in Seq(0..MaxTokens)
                        /\ rows \in Seq(SUBSET (1..total))
                        /\ vectors = <<>> \/ vectors \in [DOMAIN documents -> SUBSET (1..total)]
<1>a. /\ TextTypeOK /\ callTypes
      /\ total \in Nat /\ DOMAIN documents = 1..total
      /\ MaxBatch \in Nat
  <2>1. TextTypeOK /\ callTypes
    BY DEF IInv, TypeOK
  <2>2. documents \in Seq(Chunk)
    BY <2>1 DEF TextTypeOK
  <2>3. Len(documents) \in Nat /\ DOMAIN documents = 1..Len(documents)
    BY <2>2, SequenceOf
  <2> QED
    BY <2>1, <2>3, BatchAssumption DEF total
<1>b. UNCHANGED <<how, docs, stage, loop, local, documents>>
  BY DEF EmbedStep, GenerateEmbeddings, OpenAIBatch, OpenAIFails, OpenAIEnds, ModelBatchTurn,
         ModelTraps, ModelExhausts, ModelFails, ModelEnds, Throw, textVars
<1>c. total' = total /\ DOMAIN documents' = DOMAIN documents
  BY <1>b DEF total
<1>d. TextTypeOK' /\ SplitInv'
  BY <1>a, <1>b DEF IInv, TextTypeOK, SplitInv
<1>e. SUFFICES ASSUME TRUE
               PROVE  /\ callTypes' /\ EmbedInv' /\ OwnVector' /\ ModelServesOneBatch'
                      /\ pc' \in Labels \ {"undefined"}
  BY <1>d DEF IInv, TypeOK, OutOfBoundsOnlyBy
<1>1. CASE pc' = "refused" /\ callTypes'
  BY <1>1 DEF EmbedInv, TextLabels, OwnVector, ModelServesOneBatch, Labels
<1>2. CASE GenerateEmbeddings
  <2>1. /\ batch' \in 0..MaxBatch /\ start_idx' = 0 /\ rows' = <<>>
        /\ vectors' = [d \in 1..total |-> {}]
        /\ \/ pc' \in {"refused", "openai"} /\ ii' = <<>>
           \/ pc' = "model" /\ ii' \in Encodings(total)
    BY <1>2, <1>a DEF GenerateEmbeddings, NoVectors
  <2>2. callTypes'
    <3>1. ii' \in Seq(0..MaxTokens)
      <4>1. PICK e : e = ii'
        OBVIOUS
      <4>2. e = <<>> \/ e \in Encodings(total)
        BY <2>1, <4>1
      <4>3. total \in Nat
        BY <1>a
      <4>4. e \in Encodings(total) => e \in Seq(0..MaxTokens)
        BY <4>3, EncodingType
      <4>5. <<>> \in Seq(0..MaxTokens)
        OBVIOUS
      <4>6. e \in Seq(0..MaxTokens)
        BY <4>2, <4>4, <4>5, Zenon
      <4> QED
        BY <4>1, <4>6, Zenon
    <3> QED
      BY <2>1, <3>1, <1>a, <1>c
  <2>3. EmbedInv'
    BY <2>1, <1>a, <1>c DEF EmbedInv, TextLabels
  <2> QED
    BY <2>1, <2>2, <2>3 DEF OwnVector, ModelServesOneBatch, Labels
<1>3. CASE OpenAIFails \/ ModelExhausts \/ ModelFails
  <2>1. pc' = "refused" /\ UNCHANGED callVars
    BY <1>3 DEF OpenAIFails, ModelExhausts, ModelFails, Throw
  <2>2. callTypes'
    BY <2>1, <1>a, <1>b, <1>c DEF callVars
  <2> QED
    BY <1>1, <2>1, <2>2
<1>4. CASE OpenAIBatch
  <2> DEFINE end_idx == Min(start_idx + batch, total)
             batch_texts == [b \in 1..(end_idx - start_idx) |-> start_idx + b]
  <2>1. /\ pc = "openai" /\ pc' = "openai"
        /\ start_idx < total /\ start_idx' = start_idx + batch
        /\ UNCHANGED <<batch, ii, rows>>
        /\ vectors' = [d \in DOMAIN vectors |->
              IF d - start_idx \in DOMAIN batch_texts
                THEN {batch_texts[d - start_idx]} ELSE vectors[d]]
    BY <1>4 DEF OpenAIBatch, textVars
  <2>2. /\ rows = <<>>
        /\ vectors \in [1..total -> SUBSET (1..total)]
        /\ \A d \in 1..total : d <= start_idx => vectors[d] = {d}
    BY <2>1 DEF IInv, EmbedInv
  <2>3. /\ end_idx \in Nat /\ end_idx <= total /\ end_idx <= start_idx + batch
        /\ end_idx = total \/ end_idx = start_idx + batch
    BY <1>a DEF Min
  <2> HIDE DEF end_idx
  <2>4. \A d \in 1..total :
           vectors'[d] = IF d > start_idx /\ d <= end_idx THEN {d} ELSE vectors[d]
    <3> TAKE d \in 1..total
    <3>1. d - start_idx \in DOMAIN batch_texts <=> d > start_idx /\ d <= end_idx
      BY <1>a, <2>3
    <3>2. d - start_idx \in DOMAIN batch_texts => batch_texts[d - start_idx] = d
      BY <1>a, <2>3
    <3> HIDE DEF batch_texts
    <3> QED
      BY <2>1, <2>2, <3>1, <3>2
  <2> HIDE DEF batch_texts
  <2>5. vectors' \in [1..total -> SUBSET (1..total)]
    <3>1. DOMAIN vectors = 1..total
      BY <2>2
    <3>2. vectors' = [d \in 1..total |-> vectors'[d]]
      BY <2>1, <3>1
    <3>3. \A d \in 1..total : vectors'[d] \subseteq 1..total
      BY <2>2, <2>4
    <3> QED
      BY <3>2, <3>3
  <2>6. ASSUME NEW d \in 1..total, d <= start_idx + batch PROVE vectors'[d] = {d}
    <3>1. d <= end_idx
      BY <1>a, <2>3, <2>6
    <3>2. d <= start_idx \/ d > start_idx
      BY <1>a
    <3> QED
      BY <2>2, <2>4, <3>1, <3>2
  <2>7. callTypes'
    <3>1. vectors' \in [DOMAIN documents' -> SUBSET (1..total')]
      BY <1>a, <1>c, <2>5
    <3>2. ii' \in Seq(0..MaxTokens) /\ rows' \in Seq(SUBSET (1..total'))
      BY <1>a, <2>1, <2>2
    <3>3. batch' \in 0..MaxBatch /\ start_idx' \in 0..(total' + MaxBatch)
      BY <1>a, <1>c, <2>1
    <3> QED
      BY <3>1, <3>2, <3>3
  <2> QED
    BY <1>c, <2>1, <2>2, <2>5, <2>6, <2>7
    DEF EmbedInv, TextLabels, OwnVector, ModelServesOneBatch, Labels
<1>5. CASE OpenAIEnds
  <2>1. pc = "openai" /\ pc' = "embedded" /\ start_idx >= total /\ UNCHANGED callVars
    BY <1>5 DEF OpenAIEnds
  <2>2. /\ rows = <<>>
        /\ vectors \in [1..total -> SUBSET (1..total)]
        /\ \A d \in 1..total : vectors[d] = {d}
    BY <1>a, <2>1 DEF IInv, EmbedInv
  <2>3. vectors = [d \in 1..total |-> {d}]
    BY <2>2
  <2>4. callTypes'
    BY <1>a, <1>b, <1>c, <2>1 DEF callVars
  <2> QED
    BY <1>a, <1>c, <2>1, <2>2, <2>3, <2>4
    DEF EmbedInv, TextLabels, OwnVector, ModelServesOneBatch, Labels, callVars
<1>r. UNCHANGED ii => \A d \in 1..total : Row(d)' = Row(d)
  BY <1>c DEF Row, InInput, InOutput
<1>6. CASE ModelBatchTurn
  <2> DEFINE all == [d \in 1..total |-> Row(d)]
  <2>1. /\ pc = "model" /\ pc' = "model" /\ batch > 0
        /\ start_idx < total /\ start_idx' = start_idx + batch
        /\ rows' = rows \o all
        /\ UNCHANGED <<batch, ii, vectors>>
    BY <1>6 DEF ModelBatchTurn, textVars
  <2>2. Encoded' /\ ii' \in Encodings(total)
    <3>1. Encoded
      BY <1>6, <1>a DEF ModelBatchTurn, Encoded
    <3>2. Encoded'
      BY <1>c, <2>1, <3>1 DEF Encoded
    <3> QED
      BY <2>1, <3>2 DEF IInv, EmbedInv
  <2>3. all \in Seq(SUBSET (1..total)) /\ Len(all) = total /\ all = [d \in 1..total |-> all[d]]
    <3>1. \A d \in 1..total : all[d] \in SUBSET (1..total)
      BY DEF Row
    <3>2. all = [d \in 1..total |-> all[d]]
      OBVIOUS
    <3> HIDE DEF all
    <3> QED
      BY <1>a, <3>1, <3>2, FunctionIsSeq
  <2>4. \A d \in 1..total : all[d] = Row(d)'
    BY <1>r, <2>1
  <2> HIDE DEF all
  <2>5. /\ rows' \in Seq(SUBSET (1..total)) /\ Len(rows') = Len(rows) + total
        /\ \A d \in 1..Len(rows) : rows'[d] = rows[d]
        /\ Len(rows) \in Nat
    BY <1>a, <2>1, <2>3, Appended
  <2>6. callTypes'
    BY <1>a, <1>c, <2>1, <2>5
  <2>7. CASE start_idx = 0 /\ rows = <<>>
    <3>1. rows' = all
      BY <2>1, <2>3, <2>7
    <3>2. Len(rows') = total /\ \A d \in 1..total : rows'[d] = Row(d)'
      BY <2>3, <2>4, <3>1
    <3> QED
      BY <1>a, <1>c, <2>1, <2>2, <2>6, <2>7, <3>2
      DEF EmbedInv, TextLabels, OwnVector, ModelServesOneBatch, Labels
  <2>8. CASE ~(start_idx = 0 /\ rows = <<>>)
    <3>1. /\ start_idx >= batch /\ Len(rows) >= total
          /\ \A d \in 1..total : rows[d] = Row(d)
      BY <2>1, <2>8 DEF IInv, EmbedInv
    <3>2. \A d \in 1..total : rows'[d] = Row(d)'
      <4> TAKE d \in 1..total
      <4>1. d \in 1..Len(rows)
        BY <1>a, <2>5, <3>1
      <4> QED
        BY <1>r, <2>1, <2>5, <3>1, <4>1
    <3>3. Len(rows') > total /\ start_idx' >= batch
      BY <1>a, <2>1, <2>5, <3>1
    <3> QED
      BY <1>a, <1>c, <2>1, <2>2, <2>6, <3>2, <3>3
      DEF EmbedInv, TextLabels, OwnVector, ModelServesOneBatch, Labels
  <2> QED
    BY <2>7, <2>8
<1>7. CASE ModelEnds
  <2>1. CASE Len(rows) # total
    <3>1. pc' = "refused" /\ UNCHANGED callVars
      BY <1>7, <2>1 DEF ModelEnds, Throw
    <3>2. callTypes'
      BY <3>1, <1>a, <1>b, <1>c DEF callVars
    <3> QED
      BY <1>1, <3>1, <3>2
  <2>2. CASE Len(rows) = total
    <3>1. /\ pc = "model" /\ pc' = "embedded" /\ start_idx >= total
          /\ vectors' = [d \in 1..total |-> rows[d]]
          /\ UNCHANGED <<batch, start_idx, ii, rows>>
      BY <1>7, <1>a, <2>2 DEF ModelEnds
    <3>2. rows # <<>> => total <= batch
      <4>1. CASE start_idx = 0 /\ rows = <<>>
        BY <4>1
      <4>2. CASE ~(start_idx = 0 /\ rows = <<>>)
        <5>1. start_idx >= batch /\ (start_idx > batch => Len(rows) > total)
          BY <3>1, <4>2 DEF IInv, EmbedInv
        <5> QED
          BY <1>a, <2>2, <3>1, <5>1
      <4> QED
        BY <4>1, <4>2
    <3>3. vectors' = [d \in 1..total |-> {d}] <=> rows = <<>> \/ Even(ii)
      <4>1. CASE start_idx = 0 /\ rows = <<>>
        BY <1>a, <3>1, <4>1
      <4>2. CASE ~(start_idx = 0 /\ rows = <<>>)
        <5>1. Encoded /\ ii \in Encodings(total) /\ \A d \in 1..total : rows[d] = Row(d)
          BY <3>1, <4>2 DEF IInv, EmbedInv
        <5>2. total \in Nat \ {0} /\ ii[total] > 0 /\ FillsInput(ii)
          BY <1>a, <5>1 DEF Encoded
        <5>3. rows # <<>>
          BY <2>2, <5>2
        <5>4. vectors' = [d \in 1..total |-> {d}] <=> \A d \in 1..total : Row(d) = {d}
          BY <3>1, <5>1
        <5>5. Even(ii) => \A d \in 1..total : Row(d) = {d}
          BY <5>1, <5>2, EvenOwn
        <5>6. (\A d \in 1..total : Row(d) = {d}) => Even(ii)
          BY <5>1, <5>2, OwnEven
        <5> QED
          BY <5>3, <5>4, <5>5, <5>6
      <4> QED
        BY <4>1, <4>2
    <3>4. callTypes'
      <4>1. \A d \in 1..total : rows[d] \in SUBSET (1..total)
        <5>1. rows \in Seq(SUBSET (1..total))
          BY <1>a
        <5> QED
          BY <2>2, <5>1
      <4>2. vectors' \in [1..total -> SUBSET (1..total)]
        BY <3>1, <4>1
      <4> QED
        BY <1>a, <1>c, <3>1, <4>2
    <3> QED
      BY <1>a, <1>c, <3>1, <3>2, <3>3, <3>4
      DEF EmbedInv, TextLabels, OwnVector, ModelServesOneBatch, Labels
  <2> QED
    BY <2>1, <2>2
<1>8. CASE ModelTraps
  <2>1. pc = "model" /\ pc' = "trapped" /\ UNCHANGED callVars /\ start_idx < total
    BY <1>8 DEF ModelTraps
  <2>2. callTypes'
    BY <2>1, <1>a, <1>b, <1>c DEF callVars
  <2> QED
    BY <2>1, <2>2 DEF EmbedInv, OwnVector, ModelServesOneBatch, Labels
<1> QED
  BY <1>2, <1>3, <1>4, <1>5, <1>6, <1>7, <1>8 DEF EmbedStep

LEMMA NextKeeps == IInv /\ [Next]_vars => IInv'
<1> SUFFICES ASSUME IInv, [Next]_vars PROVE IInv'
  OBVIOUS
<1>1. ASSUME TextStep, UNCHANGED callVars PROVE IInv'
  <2>1. TextTypeOK' /\ SplitInv' /\ pc = "chunking" /\ pc' \in TextLabels
    BY <1>1, TextStepKeeps DEF IInv, TypeOK
  <2>2. OutOfBoundsOnlyBy'
    BY <1>1, TextStepBounds DEF IInv, TypeOK
  <2>3. /\ rows' = <<>> /\ vectors' = <<>> /\ start_idx' = 0 /\ ii' = <<>>
        /\ batch' = batch
    BY <1>1, <2>1 DEF IInv, EmbedInv, callVars
  <2>4. total' \in Nat
    <3>1. documents' \in Seq(Chunk)
      BY <2>1 DEF TextTypeOK
    <3> QED
      BY <3>1, SequenceOf DEF total
  <2>5. TypeOK'
    <3>1. pc' \in Labels
      BY <2>1 DEF Labels, TextLabels
    <3>2. batch' \in 0..MaxBatch
      <4>1. TypeOK
        BY DEF IInv
      <4>2. batch \in 0..MaxBatch
        BY <4>1 DEF TypeOK
      <4> QED
        BY <2>3, <4>2
    <3>4. start_idx' \in 0..(total' + MaxBatch)
      <4>1. \A t \in Nat : 0 \in 0..(t + MaxBatch)
        BY BatchAssumption
      <4>2. 0 \in 0..(total' + MaxBatch)
        BY <2>4, <4>1
      <4> QED
        BY <2>3, <4>2
    <3>3. rows' \in Seq(SUBSET (1..total')) /\ ii' \in Seq(0..MaxTokens)
      BY <2>3
    <3> QED
      BY <2>1, <2>3, <3>1, <3>2, <3>3, <3>4 DEF TypeOK
  <2>6. EmbedInv' /\ OwnVector' /\ ModelServesOneBatch'
    BY <2>1, <2>3 DEF EmbedInv, OwnVector, ModelServesOneBatch, TextLabels
  <2> QED
    BY <2>1, <2>2, <2>5, <2>6 DEF IInv
<1>2. CASE UNCHANGED vars
  <2>1. UNCHANGED textVars /\ UNCHANGED callVars
    BY <1>2 DEF vars
  <2>2. TypeOK' /\ SplitInv'
    BY <2>1 DEF textVars, callVars, IInv, TypeOK, TextTypeOK, SplitInv, total
  <2>3. EmbedInv'
    <3>1. \A d \in 1..total : Row(d)' = Row(d)
      BY <2>1 DEF textVars, callVars, Row, InInput, InOutput, total
    <3>2. total' = total /\ UNCHANGED <<pc, callVars>>
      BY <2>1 DEF textVars, total
    <3> QED
      BY <3>1, <3>2 DEF IInv, EmbedInv, Encoded, callVars
  <2>4. OutOfBoundsOnlyBy' /\ OwnVector' /\ ModelServesOneBatch'
    BY <2>1 DEF textVars, callVars, IInv, OutOfBoundsOnlyBy, OwnVector, ModelServesOneBatch, total
  <2> QED
    BY <2>2, <2>3, <2>4 DEF IInv
<1> QED
  BY <1>1, <1>2, EmbedStepKeeps DEF Next

LEMMA Invariance == Spec => []IInv
BY InitInv, NextKeeps, PTL DEF Spec

-----------------------------------------------------------------------------
(***************************************************************************)
(* The variables keep their types.                                         *)
(***************************************************************************)
THEOREM TypeCorrect == Spec => []TypeOK
<1>1. IInv => TypeOK
  BY DEF IInv
<1> QED
  BY <1>1, Invariance, PTL

(***************************************************************************)
(* ChunkDefault loses no text of a document, whatever the threads do.      *)
(***************************************************************************)
THEOREM NoTextLost == Spec => []ChunksCoverText
<1>1. IInv => ChunksCoverText
  <2> SUFFICES ASSUME IInv, how.kind = "default", how.overlap >= 0,
                      NEW d \in DOMAIN docs, stage[d] # "todo"
               PROVE  /\ Covers(local[d], d)
                      /\ GoodCut(local[d], docs[d].len, how.overlap, how.size)
    BY DEF ChunksCoverText, GoodCut
  <2> DEFINE c == SplitText(d, docs[d].len, how.overlap, how.size)
  <2>1. local[d] = c
    BY DEF IInv, SplitInv
  <2>2. TextTypeOK
    BY DEF IInv, TypeOK
  <2>3. /\ d \in 1..MaxDocs /\ docs[d].len \in 0..MaxLen
        /\ how.overlap \in -1..MaxSize /\ how.size \in -1..MaxSize /\ how.overlap < how.size
    BY <2>2, InputTypes
  <2>4. how.overlap \in 0..MaxSize /\ how.size \in 0..MaxSize
    BY <2>3, TextAssumption
  <2>5. GoodCut(c, docs[d].len, how.overlap, how.size)
    BY <2>3, <2>4, SplitTextCovers
  <2>6. \A i \in DOMAIN c : c[i].doc = d
    BY <2>3, SplitTextShape DEF PieceAt
  <2> HIDE DEF c
  <2>7. Covers(c, d)
    BY <2>5, <2>6 DEF Covers, GoodCut
  <2> QED
    BY <2>1, <2>5, <2>7
<1> QED
  BY <1>1, Invariance, PTL

(***************************************************************************)
(* Memory is read out of bounds for the reasons OutOfBoundsOnlyBy names    *)
(* only; a row of the local model that is shorter than the first, which    *)
(* toTensor reads beyond its end, takes more than two chunks whose texts   *)
(* are not equally long to the tokenizer.                                  *)
(***************************************************************************)
THEOREM BoundsKept == Spec => []OutOfBoundsOnlyBy
<1>1. IInv => OutOfBoundsOnlyBy
  BY DEF IInv
<1> QED
  BY <1>1, Invariance, PTL

(***************************************************************************)
(* The documents embedded by EmbeddingOpenAI have the vectors of their own *)
(* texts; those embedded by EmbeddingModel, which writes the ids of all    *)
(* texts one behind the other and cuts the output by their lengths, have   *)
(* them if and only if all texts have as many tokens as the first.         *)
(***************************************************************************)
THEOREM EachItsOwn == Spec => []OwnVector
<1>1. IInv => OwnVector
  BY DEF IInv
<1> QED
  BY <1>1, Invariance, PTL

(***************************************************************************)
(* EmbeddingModel never gets further than one batch.                       *)
(***************************************************************************)
THEOREM OneBatch == Spec => []ModelServesOneBatch
<1>1. IInv => ModelServesOneBatch
  BY DEF IInv
<1> QED
  BY <1>1, Invariance, PTL
-----------------------------------------------------------------------------
(***************************************************************************)
(* The chunks of a document stay together.                                 *)
(***************************************************************************)

\* What a thread has cut belongs to the document it is cutting.
OwnChunks == \A d \in DOMAIN docs : \A i \in 1..Len(local[d]) : local[d][i].doc = d

WholeInv == OwnChunks /\ DocumentsStayWhole

\* The chunks of document d are somewhere in the result, and nowhere else.
Together(d) ==
    \E at \in 0..(Len(documents) - Len(local[d])) :
        /\ \A i \in 1..Len(local[d]) : documents[at + i] = local[d][i]
        /\ \A k \in DOMAIN documents : documents[k].doc = d => k - at \in 1..Len(local[d])

OnlyAdded ==
    \A k \in DOMAIN documents :
        documents[k].doc \in DOMAIN docs /\ stage[documents[k].doc] = "added"

LEMMA WholeParts ==
    DocumentsStayWhole <=>
        (\A d \in DOMAIN docs : stage[d] = "added" => Together(d)) /\ OnlyAdded
BY DEF DocumentsStayWhole, Together, OnlyAdded

\* A document that is not in the result yet is being cut, or has been.
Cut(d) ==
    /\ stage[d] # "added" /\ stage' \in [DOMAIN docs -> {"todo", "counting", "split", "added"}]
    /\ stage'[d] # "added"
    /\ \A e \in DOMAIN docs \ {d} : stage'[e] = stage[e] /\ local'[e] = local[e]
    /\ \A i \in 1..Len(local'[d]) : local'[d][i].doc = d
    /\ UNCHANGED <<docs, documents>>

LEMMA CutWhole ==
    ASSUME TextTypeOK, WholeInv, NEW d \in DOMAIN docs, Cut(d)
    PROVE  WholeInv'
<1> USE DEF Cut, WholeInv
<1>1. OwnChunks'
  BY DEF OwnChunks
<1>2. ASSUME NEW e \in DOMAIN docs, stage'[e] = "added"
      PROVE  stage[e] = "added" /\ local'[e] = local[e]
  BY <1>2
<1>3. ASSUME NEW e \in DOMAIN docs, stage'[e] = "added"
      PROVE  Together(e)'
  <2>1. Together(e)
    BY <1>2, <1>3, WholeParts
  <2>2. local'[e] = local[e] /\ documents' = documents
    BY <1>2, <1>3
  <2> QED
    BY <2>1, <2>2 DEF Together
<1>4. OnlyAdded'
  <2>1. OnlyAdded /\ \A e \in DOMAIN docs : stage[e] = "added" => stage'[e] = "added"
    BY WholeParts
  <2> QED
    BY <2>1 DEF OnlyAdded
<1>5. DocumentsStayWhole'
  BY <1>3, <1>4 DEF DocumentsStayWhole, Together, OnlyAdded
<1> QED
  BY <1>1, <1>5

LEMMA AddWhole ==
    ASSUME TextTypeOK, WholeInv, NEW d \in DOMAIN docs, AddChunks(d)
    PROVE  WholeInv'
<1> USE DEF WholeInv
<1>1. /\ stage[d] = "split" /\ stage' = [stage EXCEPT ![d] = "added"]
      /\ UNCHANGED <<docs, local>>
  BY DEF AddChunks
<1>2. PICK c \in Seq(Chunk), all \in Seq(Chunk) :
         c = local[d] /\ all = documents /\ documents' = all \o c
  BY DEF AddChunks, TextTypeOK
<1>3. /\ all \o c \in Seq(Chunk) /\ Len(all \o c) = Len(all) + Len(c)
      /\ Len(all) \in Nat /\ Len(c) \in Nat
      /\ \A i \in 1..Len(all) : (all \o c)[i] = all[i]
      /\ \A i \in 1..Len(c) : (all \o c)[Len(all) + i] = c[i]
      /\ DOMAIN all = 1..Len(all) /\ DOMAIN (all \o c) = 1..(Len(all) + Len(c))
  OBVIOUS
<1>4. \A i \in 1..Len(c) : c[i].doc = d
  BY <1>2 DEF OwnChunks
<1>5. stage \in [DOMAIN docs -> {"todo", "counting", "split", "added"}]
  BY DEF TextTypeOK
<1>6. \A k \in 1..Len(all) : all[k].doc \in DOMAIN docs \ {d}
  BY <1>1, <1>2, <1>3 DEF DocumentsStayWhole
<1>7. stage'[d] = "added" /\ \A e \in DOMAIN docs \ {d} : stage'[e] = stage[e]
  BY <1>1, <1>5
<1>8. OwnChunks'
  BY <1>1 DEF OwnChunks
<1>9. \A k \in DOMAIN documents' :
         documents'[k].doc \in DOMAIN docs' /\ stage'[documents'[k].doc] = "added"
  <2> SUFFICES ASSUME NEW k \in 1..(Len(all) + Len(c))
               PROVE  (all \o c)[k].doc \in DOMAIN docs /\ stage'[(all \o c)[k].doc] = "added"
    BY <1>1, <1>2, <1>3
  <2>1. CASE k <= Len(all)
    <3>1. k \in 1..Len(all) /\ (all \o c)[k] = all[k]
      BY <1>3, <2>1
    <3>2. stage[all[k].doc] = "added" /\ all[k].doc \in DOMAIN docs \ {d}
      BY <1>2, <1>3, <1>6, <3>1 DEF DocumentsStayWhole
    <3> QED
      BY <1>7, <3>1, <3>2
  <2>2. CASE k > Len(all)
    <3>1. PICK i \in 1..Len(c) : k = Len(all) + i
      <4>1. k - Len(all) \in 1..Len(c) /\ k = Len(all) + (k - Len(all))
        BY <1>3, <2>2
      <4> QED
        BY <4>1
    <3> QED
      BY <1>3, <1>4, <1>7, <3>1
  <2> QED
    BY <1>3, <2>1, <2>2
<1>10. ASSUME NEW e \in DOMAIN docs, stage'[e] = "added"
       PROVE  \E at \in 0..(Len(all \o c) - Len(local[e])) : 
                 /\ \A i \in 1..Len(local[e]) : (all \o c)[at + i] = local[e][i]
                 /\ \A k \in 1..(Len(all) + Len(c)) :
                       (all \o c)[k].doc = e => k - at \in 1..Len(local[e])
  <2>1. CASE e = d
    <3>1. Len(all) \in 0..(Len(all \o c) - Len(c))
      BY <1>3
    <3>2. \A k \in 1..(Len(all) + Len(c)) : (all \o c)[k].doc = d => k - Len(all) \in 1..Len(c)
      <4> SUFFICES ASSUME NEW k \in 1..(Len(all) + Len(c)), (all \o c)[k].doc = d
                   PROVE  k - Len(all) \in 1..Len(c)
        OBVIOUS
      <4>1. k \notin 1..Len(all)
        BY <1>3, <1>6
      <4> QED
        BY <1>3, <4>1
    <3> QED
      BY <1>2, <1>3, <2>1, <3>1, <3>2
  <2>2. CASE e # d
    <3>1. PICK at \in 0..(Len(all) - Len(local[e])) :
             /\ \A i \in 1..Len(local[e]) : all[at + i] = local[e][i]
             /\ \A k \in DOMAIN all : all[k].doc = e => k - at \in 1..Len(local[e])
      BY <1>2, <1>7, <1>10, <2>2 DEF DocumentsStayWhole
    <3>2. Len(local[e]) \in Nat
      BY DEF TextTypeOK
    <3>3. at \in 0..(Len(all \o c) - Len(local[e]))
      BY <1>3, <3>2
    <3>4. \A i \in 1..Len(local[e]) : (all \o c)[at + i] = local[e][i]
      <4> SUFFICES ASSUME NEW i \in 1..Len(local[e])
                   PROVE  (all \o c)[at + i] = local[e][i]
        OBVIOUS
      <4>1. at + i \in 1..Len(all)
        BY <1>3, <3>2
      <4> QED
        BY <1>3, <3>1, <4>1
    <3>5. \A k \in 1..(Len(all) + Len(c)) : (all \o c)[k].doc = e => k - at \in 1..Len(local[e])
      <4> SUFFICES ASSUME NEW k \in 1..(Len(all) + Len(c)), (all \o c)[k].doc = e
                   PROVE  k - at \in 1..Len(local[e])
        OBVIOUS
      <4>1. CASE k \in 1..Len(all)
        BY <1>3, <3>1, <4>1
      <4>2. CASE k \notin 1..Len(all)
        <5>1. k - Len(all) \in 1..Len(c) /\ Len(all) + (k - Len(all)) = k
          BY <1>3, <4>2
        <5>2. (all \o c)[k] = c[k - Len(all)]
          BY <1>3, <5>1
        <5> QED
          BY <1>4, <2>2, <5>1, <5>2
      <4> QED
        BY <4>1, <4>2
    <3> QED
      BY <3>3, <3>4, <3>5
  <2> QED
    BY <2>1, <2>2
<1>11. ASSUME NEW e \in DOMAIN docs', stage'[e] = "added"
       PROVE  Together(e)'
  <2>1. documents' = all \o c /\ local' = local /\ docs' = docs
        /\ DOMAIN documents' = 1..(Len(all) + Len(c))
    BY <1>1, <1>2, <1>3
  <2> QED
    BY <1>10, <1>11, <2>1 DEF Together
<1>12. DocumentsStayWhole'
  BY <1>9, <1>11 DEF DocumentsStayWhole, Together
<1> QED
  BY <1>8, <1>12

\* A turn of SplitTextByCount adds a chunk of its document.
LEMMA TurnOwn ==
    ASSUME TextTypeOK, OwnChunks, NEW d \in DOMAIN docs, CountTurn(d), ~(Fail \/ Undefined)
    PROVE  \A i \in 1..Len(local'[d]) : local'[d][i].doc = d
<1>1. PICK chunk : chunk.doc = d /\ local' = [local EXCEPT ![d] = Append(@, chunk)]
  BY DEF CountTurn
<1>2. PICK s \in Seq(Chunk) : s = local[d] /\ \A i \in 1..Len(s) : s[i].doc = d
  BY DEF TextTypeOK, OwnChunks
<1>3. local'[d] = Append(s, chunk)
  BY <1>1, <1>2 DEF TextTypeOK
<1>4. Len(Append(s, chunk)) = Len(s) + 1 /\ Append(s, chunk)[Len(s) + 1] = chunk
      /\ Len(s) \in Nat /\ \A i \in 1..Len(s) : Append(s, chunk)[i] = s[i]
  <2>1. s \in Seq(Chunk \cup {chunk}) /\ chunk \in Chunk \cup {chunk}
    BY <1>2
  <2> QED
    BY <2>1
<1> QED
  BY <1>1, <1>2, <1>3, <1>4

LEMMA TextStepWhole ==
    ASSUME TextTypeOK, TextTypeOK', WholeInv, TextStep
    PROVE  WholeInv'
<1>1. ASSUME UNCHANGED <<docs, stage, local, documents>> PROVE WholeInv'
  BY <1>1 DEF WholeInv, OwnChunks, DocumentsStayWhole
<1>2. ASSUME NEW d \in DOMAIN docs, NEW c \in Seq(Chunk), Todo(d), Keep(d, c),
             \A i \in 1..Len(c) : c[i].doc = d
      PROVE  WholeInv'
  <2>1. Cut(d)
    BY <1>2 DEF Cut, Keep, Todo, TextTypeOK
  <2> QED
    BY <2>1, CutWhole
<1>3. ASSUME NEW d \in DOMAIN docs, how.kind # "count"
      PROVE  LET c == SplitText(d, docs[d].len, how.overlap, how.size)
             IN  c \in Seq(Chunk) /\ \A i \in 1..Len(c) : c[i].doc = d
  <2>1. /\ d \in 1..MaxDocs /\ docs[d].len \in 0..MaxLen
        /\ how.overlap \in -1..MaxSize /\ how.size \in -1..MaxSize /\ how.overlap < how.size
    BY <1>3, InputTypes
  <2> DEFINE c == SplitText(d, docs[d].len, how.overlap, how.size)
             q == CeilDiv(docs[d].len, how.size - how.overlap)
  <2>2. c \in Seq(Chunk)
    BY <2>1, SplitTextType
  <2>3. Len(c) = q
    BY <2>1, SplitTextShape
  <2>4. \A i \in 1..q : c[i].doc = d
    BY <2>1, SplitTextShape DEF PieceAt
  <2> HIDE DEF c, q
  <2>5. c \in Seq(Chunk) /\ \A i \in 1..Len(c) : c[i].doc = d
    BY <2>2, <2>3, <2>4
  <2> QED
    BY <2>5 DEF c
<1>4. ASSUME NEW d \in DOMAIN docs, SplitBySize(d) PROVE WholeInv'
  <2>1. how.kind # "count"
    BY <1>4 DEF SplitBySize
  <2> QED
    BY <1>2, <1>3, <1>4, <2>1 DEF SplitBySize
<1>5. ASSUME NEW d \in DOMAIN docs, SplitByCount(d) \/ CountEnds(d) PROVE WholeInv'
  <2>1. Cut(d)
    BY <1>5 DEF Cut, SplitByCount, CountEnds, Todo, TextTypeOK, WholeInv, OwnChunks
  <2> QED
    BY <2>1, CutWhole
<1>6. ASSUME NEW d \in DOMAIN docs, CountTurn(d) PROVE WholeInv'
  <2>1. CASE Fail \/ Undefined
    BY <1>1, <2>1 DEF Fail, Undefined
  <2>2. CASE ~(Fail \/ Undefined)
    <3>1. /\ UNCHANGED <<docs, stage, documents>> /\ stage[d] = "counting"
          /\ \A e \in DOMAIN docs \ {d} : local'[e] = local[e]
      BY <1>6, <2>2 DEF CountTurn, TextTypeOK
    <3>2. Cut(d)
      BY <1>6, <2>2, <3>1, TurnOwn DEF Cut, TextTypeOK, WholeInv
    <3> QED
      BY <3>2, CutWhole
  <2> QED
    BY <2>1, <2>2
<1>7. ASSUME NEW d \in DOMAIN docs, SplitBySimilarity(d) PROVE WholeInv'
  <2> DEFINE c == SplitText(d, docs[d].len, how.overlap, how.size)
  <2>1. how.kind \in Vendors /\ how.kind # "count" /\ Todo(d)
    BY <1>7 DEF SplitBySimilarity, Vendors
  <2>2. c \in Seq(Chunk) /\ \A i \in 1..Len(c) : c[i].doc = d
    BY <1>3, <2>1
  <2>3. CASE Fail \/ Undefined \/ Trap
    BY <1>1, <2>3 DEF Fail, Undefined, Trap
  <2>4. CASE ~(Fail \/ Undefined \/ Trap)
    <3>1. PICK r \in Rows(Len(c)) :
             ~(r = 0 \/ r > Len(c)) /\ \E p \in Orders(r) : Keep(d, [i \in 1..r |-> c[p[i]]])
      BY <1>7, <2>4 DEF SplitBySimilarity
    <3>2. PICK p \in Orders(r) : Keep(d, [i \in 1..r |-> c[p[i]]])
      BY <3>1
    <3> HIDE DEF c
    <3>3. r \in 0..Len(c)
      <4>1. Len(c) \in Nat
        BY <2>2
      <4>2. r \in Nat
        BY <2>1, <3>1, <4>1, RowsType
      <4> QED
        BY <3>1, <4>1, <4>2
    <3> DEFINE sorted == [i \in 1..r |-> c[p[i]]]
    <3>4. sorted \in Seq(Chunk)
      BY <2>2, <3>2, <3>3, OrderType
    <3>5. Len(sorted) = r
      <4>1. r \in Nat /\ sorted = [i \in 1..r |-> sorted[i]]
        BY <3>3
      <4> HIDE DEF sorted
      <4> QED
        BY <4>1, FunctionLen
    <3>6. \A i \in 1..r : p[i] \in 1..Len(c)
      BY <2>2, <3>3 DEF Orders
    <3>7. \A i \in 1..Len(sorted) : sorted[i].doc = d
      BY <2>2, <3>5, <3>6
    <3> HIDE DEF sorted
    <3> QED
      BY <1>2, <2>1, <3>2, <3>4, <3>7 DEF sorted
  <2> QED
    BY <2>3, <2>4
<1>8. ASSUME NEW d \in DOMAIN docs, AddChunks(d) PROVE WholeInv'
  BY <1>8, AddWhole
<1>9. CASE Return
  BY <1>1, <1>9 DEF Return
<1> QED
  BY <1>4, <1>5, <1>6, <1>7, <1>8, <1>9 DEF TextStep

(***************************************************************************)
(* In whatever order the OpenMP threads end, the chunks of a document come *)
(* back side by side, in their order, each once (ProcessDocuments).        *)
(***************************************************************************)
THEOREM StaysWhole == Spec => []DocumentsStayWhole
<1>1. Init => WholeInv
  BY DEF Init, TextInit, WholeInv, OwnChunks, DocumentsStayWhole
<1>2. IInv /\ IInv' /\ WholeInv /\ [Next]_vars => WholeInv'
  <2> SUFFICES ASSUME IInv, IInv', WholeInv, [Next]_vars PROVE WholeInv'
    OBVIOUS
  <2>1. CASE TextStep
    BY <2>1, TextStepWhole DEF IInv, TypeOK
  <2>2. CASE UNCHANGED <<docs, stage, local, documents>>
    BY <2>2 DEF WholeInv, OwnChunks, DocumentsStayWhole
  <2>3. TextStep \/ UNCHANGED <<docs, stage, local, documents>>
    BY DEF Next, EmbedStep, GenerateEmbeddings, OpenAIBatch, OpenAIFails, OpenAIEnds,
           ModelBatchTurn, ModelTraps, ModelExhausts, ModelFails, ModelEnds, Throw, vars, textVars
  <2> QED
    BY <2>1, <2>2, <2>3
<1>3. WholeInv => DocumentsStayWhole
  BY DEF WholeInv
<1> QED
  BY <1>1, <1>2, <1>3, Invariance, PTL DEF Spec
-----------------------------------------------------------------------------
(***************************************************************************)
(* What SplitTextByCount loses.  The run of CountKeepsText shows a text    *)
(* that is not covered; in fact none is: the chunks are cut from the tail  *)
(* behind the last match, so that no byte up to the end of that match is   *)
(* in any chunk, and a text without a match has no chunk at all.           *)
(***************************************************************************)
CountLosesText ==
    how.kind = "count" => \A d \in DOMAIN docs :
        /\ \A i \in DOMAIN local[d] :
              docs[d].ends # <<>> /\ local[d][i].from >= docs[d].ends[Len(docs[d].ends)]
        /\ docs[d].len > 0 => ~Covers(local[d], d)

BehindMatches(d, chunk) == docs[d].ends # <<>> /\ chunk.from >= docs[d].ends[Len(docs[d].ends)]
TailOnly ==
    how.kind = "count" => \A d \in DOMAIN docs : \A i \in DOMAIN local[d] : BehindMatches(d, local[d][i])

LEMMA TurnTail ==
    ASSUME TextTypeOK, TailOnly, how.kind = "count", NEW d \in DOMAIN docs, CountTurn(d),
           ~(Fail \/ Undefined)
    PROVE  \A i \in DOMAIN local'[d] : BehindMatches(d, local'[d][i])
<1>1. /\ docs[d].len \in 0..MaxLen
      /\ docs[d].ends \in Seq(1..docs[d].len)
  BY InputTypes
<1>2. PICK base : base = docs[d].ends[Len(docs[d].ends)]
  OBVIOUS
<1>3. PICK chunk : /\ chunk.from = base + loop[d].start
                   /\ local' = [local EXCEPT ![d] = Append(@, chunk)]
  BY <1>2 DEF CountTurn
<1>4. loop[d].i \in 0..(Len(docs[d].ends) - 1) /\ loop[d].start \in Nat
  BY DEF CountTurn, TextTypeOK
<1>5. docs[d].ends # <<>> /\ base \in 1..docs[d].len
  <2>1. Len(docs[d].ends) \in Nat /\ DOMAIN docs[d].ends = 1..Len(docs[d].ends)
    BY <1>1, SequenceOf
  <2>2. Len(docs[d].ends) \in DOMAIN docs[d].ends
    BY <1>4, <2>1
  <2> QED
    BY <1>1, <1>2, <2>1, <2>2
<1>6. BehindMatches(d, chunk)
  BY <1>2, <1>3, <1>4, <1>5, TextAssumption DEF BehindMatches
<1>7. PICK s \in Seq(Chunk) : s = local[d] /\ \A i \in DOMAIN s : BehindMatches(d, s[i])
  BY DEF TextTypeOK, TailOnly
<1>8. local'[d] = Append(s, chunk)
  BY <1>3, <1>7 DEF TextTypeOK
<1>9. /\ DOMAIN Append(s, chunk) = DOMAIN s \cup {Len(s) + 1}
      /\ Append(s, chunk)[Len(s) + 1] = chunk
      /\ \A i \in DOMAIN s : Append(s, chunk)[i] = s[i]
  <2>1. s \in Seq(Chunk \cup {chunk}) /\ chunk \in Chunk \cup {chunk}
    BY <1>7
  <2> QED
    BY <2>1
<1> QED
  BY <1>6, <1>7, <1>8, <1>9

LEMMA TailStep == IInv /\ TailOnly /\ [Next]_vars => TailOnly'
<1> SUFFICES ASSUME IInv, TailOnly, [Next]_vars PROVE TailOnly'
  OBVIOUS
<1>1. TextTypeOK
  BY DEF IInv, TypeOK
<1>2. how' = how /\ docs' = docs
  BY DEF Next, TextStep, SplitBySize, SplitByCount, CountTurn, CountEnds, SplitBySimilarity,
         AddChunks, Return, Keep, Fail, Undefined, Trap, EmbedStep, GenerateEmbeddings, OpenAIBatch,
         OpenAIFails, OpenAIEnds, ModelBatchTurn, ModelTraps, ModelExhausts, ModelFails, ModelEnds,
         Throw, vars, textVars
<1>3. ASSUME NEW d \in DOMAIN docs, how.kind = "count", local' = local
      PROVE  \A i \in DOMAIN local'[d] : BehindMatches(d, local'[d][i])
  BY <1>3 DEF TailOnly
<1>4. ASSUME NEW d \in DOMAIN docs, how.kind = "count",
             NEW e \in DOMAIN docs, CountTurn(e), ~(Fail \/ Undefined)
      PROVE  \A i \in DOMAIN local'[d] : BehindMatches(d, local'[d][i])
  <2>1. e # d => local'[d] = local[d]
    BY <1>1, <1>4, TurnType DEF CountTurn
  <2>2. \A i \in DOMAIN local[d] : BehindMatches(d, local[d][i])
    BY <1>4 DEF TailOnly
  <2> QED
    BY <1>1, <1>4, <2>1, <2>2, TurnTail
<1>5. how.kind = "count" =>
        local' = local \/ \E e \in DOMAIN docs : CountTurn(e) /\ ~(Fail \/ Undefined)
  BY DEF Next, TextStep, SplitBySize, SplitByCount, CountTurn, CountEnds, SplitBySimilarity,
         AddChunks, Return, Fail, Undefined, Trap, EmbedStep, GenerateEmbeddings, OpenAIBatch,
         OpenAIFails, OpenAIEnds, ModelBatchTurn, ModelTraps, ModelExhausts, ModelFails, ModelEnds,
         Throw, vars, textVars, Vendors
<1>6. how.kind = "count" => \A d \in DOMAIN docs :
          \A i \in DOMAIN local'[d] : BehindMatches(d, local'[d][i])
  BY <1>3, <1>4, <1>5
<1> QED
  BY <1>2, <1>6 DEF TailOnly, BehindMatches

\* No text is whole in the chunks that ChunkCount makes of it.
THEOREM CountAlwaysLoses == Spec => []CountLosesText
<1>1. Init => TailOnly
  BY DEF Init, TextInit, TailOnly
<1>2. IInv /\ TailOnly => CountLosesText
  <2> SUFFICES ASSUME IInv, TailOnly, how.kind = "count", NEW d \in DOMAIN docs
               PROVE  /\ \A i \in DOMAIN local[d] : BehindMatches(d, local[d][i])
                      /\ docs[d].len > 0 => ~Covers(local[d], d)
    BY DEF CountLosesText, BehindMatches
  <2>1. \A i \in DOMAIN local[d] : BehindMatches(d, local[d][i])
    BY DEF TailOnly
  <2>2. docs[d].len > 0 => ~Covers(local[d], d)
    <3>1. docs[d].len \in 0..MaxLen /\ docs[d].ends \in Seq(1..docs[d].len)
      BY InputTypes DEF IInv, TypeOK
    <3>2. local[d] \in Seq(Chunk)
      BY DEF IInv, TypeOK, TextTypeOK
    <3>3. ASSUME NEW i \in DOMAIN local[d] PROVE ~(local[d][i].from < 1)
      <4>1. BehindMatches(d, local[d][i]) /\ local[d][i] \in Chunk
        BY <2>1, <3>2
      <4>2. docs[d].ends[Len(docs[d].ends)] \in 1..docs[d].len
        BY <3>1, <4>1 DEF BehindMatches
      <4> QED
        BY <4>1, <4>2, <3>1, TextAssumption DEF BehindMatches, Chunk
    <3>4. docs[d].len > 0 => 1 \in 1..docs[d].len
      BY <3>1, TextAssumption
    <3> QED
      BY <3>3, <3>4 DEF Covers
  <2> QED
    BY <2>1, <2>2
<1> QED
  BY <1>1, <1>2, TailStep, Invariance, PTL DEF Spec
=============================================================================
