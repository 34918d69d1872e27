--------------------------- MODULE ContentCleaner ----------------------------
(***************************************************************************)
(* CleanData::ContentCleaner.  A text is a sequence of characters of four  *)
(* kinds: "w" a letter or digit, "s" white space, "p" a punctuation mark,  *)
(* "f" a character that is not ASCII.  CleanContent replaces what the      *)
(* patterns match with a space, one pattern after the other, the default   *)
(* ones first.  ProcessDocument throws for a custom pattern that is no     *)
(* regular expression; ProcessDocuments does the same in an OpenMP loop,   *)
(* which no exception may leave, so that it ends the process.              *)
(***************************************************************************)
EXTENDS OpenMP, SequencesExt, FiniteSets

CONSTANTS
    Lists,      \* the lists of texts to clean
    Customs,    \* the custom patterns: "none", "symbols" for [[:punct:]]+, "bad"
    MaxWorkers  \* the values of max_workers

ASSUME CleanerAssumption ==
    /\ Lists \subseteq Seq(Seq({"w", "s", "p", "f"}))
    /\ MaxWorkers \subseteq Int

VARIABLES
    docs,       \* docs[c]: the texts that c's call is given
    custom,     \* custom[c]: its custom pattern
    documents,  \* documents[c]: its result
    asked,      \* history: asked[c], the values of max_workers that c has asked for
    terminated  \* std::terminate has ended the process

cleaner == <<docs, custom, documents, asked, terminated>>

CleanerInit ==
    /\ docs = [c \in Callers |-> <<>>]
    /\ custom = [c \in Callers |-> "none"]
    /\ documents = [c \in Callers |-> <<>>]
    /\ asked = [c \in Callers |-> {}]
    /\ terminated = FALSE

-----------------------------------------------------------------------------
\* The characters that stay: those of other kinds, and the first one of each run.
Stays(text, kinds) == {i \in DOMAIN text : text[i] \in kinds => i = 1 \/ text[i - 1] \notin kinds}

\* The j-th member of a set of numbers.
Rank(S, i) == Cardinality({k \in S : k <= i})
Nth(S, j) == CHOOSE i \in S : Rank(S, i) = j

\* GlobalReplace(&text, "[kinds]+", " ")
ReplaceRuns(text, kinds) ==
    LET stays == Stays(text, kinds)
        Char(j) == text[Nth(stays, j)]
    IN  [j \in 1..Cardinality(stays) |-> IF Char(j) \in kinds THEN "s" ELSE Char(j)]

\* The text between its first and its last character that is not of these kinds.
Strip(text, kinds) ==
    LET inner == {i \in DOMAIN text : text[i] \notin kinds}
    IN  IF inner = {} THEN <<>> ELSE SubSeq(text, Min(inner), Max(inner))

extraSpaces(text) == ReplaceRuns(text, {"s"})
nonAsciiCharacters(text) == ReplaceRuns(text, {"f"})

\* ^\W+|\W+$, which only matches at the ends of the text, not of its lines.
symbolsBeginningOrEndOfLines(text) ==
    LET W == {"s", "p", "f"}
        Space(there) == IF there THEN <<"s">> ELSE <<>>
    IN  IF text = <<>> THEN <<>>
        ELSE Space(text[1] \in W) \o Strip(text, W) \o
                 Space(text[Len(text)] \in W /\ Strip(text, W) # <<>>)

trim(text) == Strip(text, {"s"})

\* Mutant of CleanContent: the custom patterns first, and no trim.
CleanContentUntrimmed(text, pattern) ==
    LET replaced == IF pattern = "symbols" THEN ReplaceRuns(text, {"p"}) ELSE text
    IN  symbolsBeginningOrEndOfLines(nonAsciiCharacters(extraSpaces(replaced)))

CleanContent(text, pattern) ==
    LET replaced == symbolsBeginningOrEndOfLines(nonAsciiCharacters(extraSpaces(text)))
    IN  trim(IF pattern = "symbols" THEN ReplaceRuns(replaced, {"p"}) ELSE replaced)

-----------------------------------------------------------------------------
\* Mutant of SetThreads: omp_set_num_threads(max_workers).
SetThreadsAsAsked(c, w) == nthreads' = [nthreads EXCEPT ![c] = IF w > 0 THEN w ELSE @]

\* max_threads = omp_get_max_threads(), or max_workers if that is less, for this
\* call and every later region of the thread.
SetThreads(c, w) == nthreads' = [nthreads EXCEPT ![c] = IF w > 0 /\ w < @ THEN w ELSE @]

Call(c, list, pattern) ==
    /\ pc[c] = "idle"
    /\ docs' = [docs EXCEPT ![c] = list]
    /\ custom' = [custom EXCEPT ![c] = pattern]

\* In the calling thread.  A bad pattern throws, and the caller has no document.
ProcessDocument(c) ==
    \E list \in Lists, pattern \in Customs \ {"bad"} :
        /\ Len(list) = 1
        /\ Call(c, list, pattern)
        /\ documents' = [documents EXCEPT ![c] = <<CleanContent(list[1], pattern)>>]
        /\ Goto(c, "cleaned")
        /\ UNCHANGED <<nthreads, team, asked, terminated>>

ProcessDocuments(c) ==
    \E list \in Lists, pattern \in Customs, w \in MaxWorkers :
        /\ Call(c, list, pattern)
        /\ documents' = [documents EXCEPT ![c] = [i \in DOMAIN list |-> <<>>]]
        /\ asked' = [asked EXCEPT ![c] = @ \cup {w}]
        /\ SetThreads(c, w)
        /\ Goto(c, "fork")
        /\ UNCHANGED <<team, terminated>>

ForkCleaning(c) ==
    /\ pc[c] = "fork"
    /\ Fork(c, Len(docs[c]))
    /\ Goto(c, "clean")
    /\ UNCHANGED <<nthreads, cleaner>>

\* documents[i] = ProcessDocument(docs[i], custom_patterns) in member m.
Clean(c, m) ==
    LET i == team[c][m] IN
    /\ pc[c] = "clean"
    /\ Running(c, m, Len(docs[c]))
    /\ \/ custom[c] = "bad" /\ terminated' = TRUE /\ UNCHANGED documents
       \/ custom[c] # "bad" /\ UNCHANGED terminated
          /\ documents' = [documents EXCEPT ![c][i] = CleanContent(docs[c][i], custom[c])]
    /\ Advance(c, m)
    /\ UNCHANGED <<pc, nthreads, docs, custom, asked>>

JoinCleaning(c) ==
    /\ pc[c] = "clean"
    /\ Finished(c, Len(docs[c]))
    /\ Disband(c)
    /\ Goto(c, "cleaned")
    /\ UNCHANGED <<nthreads, cleaner>>

\* The caller takes the result.
TakeDocuments(c) ==
    /\ pc[c] = "cleaned"
    /\ docs' = [docs EXCEPT ![c] = <<>>]
    /\ custom' = [custom EXCEPT ![c] = "none"]
    /\ documents' = [documents EXCEPT ![c] = <<>>]
    /\ Goto(c, "idle")
    /\ UNCHANGED <<nthreads, team, asked, terminated>>

CleanerCall(c) == ProcessDocument(c) \/ ProcessDocuments(c)

CleanerStep(c) ==
    \/ ForkCleaning(c) \/ JoinCleaning(c) \/ TakeDocuments(c)
    \/ \E m \in 1..Len(team[c]) : Clean(c, m)

-----------------------------------------------------------------------------
Adjacent(text, j, k) == \E i \in 1..(Len(text) - 1) : {text[i], text[i + 1]} = {j, k}
Words(text) == Cardinality({i \in DOMAIN text : text[i] = "w"})

(***************************************************************************)
(* A call returns every document cleaned, whichever thread did it: every   *)
(* letter of its own text, nothing that is not ASCII, a letter at both     *)
(* ends, and one space at a time, unless what is replaced after the        *)
(* spaces were, a non-ASCII character or what the custom pattern matches,  *)
(* stood beside a space or another such character (a letter with an accent *)
(* between two spaces leaves three of them).  With a pattern that is no    *)
(* regular expression only a call without documents returns.               *)
(***************************************************************************)
CleanedTexts ==
    \A c \in Callers : pc[c] = "cleaned" =>
        /\ custom[c] = "bad" => docs[c] = <<>>
        /\ \A i \in DOMAIN docs[c] :
              LET text == docs[c][i]
                  clean == documents[c][i]
                  blank == {"s", "f"} \cup (IF custom[c] = "symbols" THEN {"p"} ELSE {})
              IN  /\ Words(clean) = Words(text)
                  /\ "f" \notin ToSet(clean)
                  /\ clean # <<>> => clean[1] = "w" /\ clean[Len(clean)] = "w"
                  /\ Adjacent(clean, "s", "s") => \E j, k \in blank : j # k /\ Adjacent(text, j, k)

(***************************************************************************)
(* The least max_workers that a thread has ever asked for limits every     *)
(* later region of it, of whichever component, to that many threads: the   *)
(* setting outlives the call that made it, and a later call that asks for  *)
(* more does not raise it.                                                 *)
(***************************************************************************)
TeamStaysCapped ==
    \A c \in Callers : \A w \in asked[c] : w > 0 => Len(team[c]) <= w
=============================================================================
