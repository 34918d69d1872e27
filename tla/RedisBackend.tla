---------------------------- MODULE RedisBackend -----------------------------
(***************************************************************************)
(* vdb::Registry and the RedisVectorBackend that it makes, used by the     *)
(* threads of one or more processes over one Redis server.  make holds the *)
(* mutex of its process' registry while the constructor asks for the index *)
(* and creates it; insert checks every document, sends all of them in one  *)
(* non-atomic pipeline and reads the replies; query sends one FT.SEARCH;   *)
(* close takes the connection away, which insert looks at and query does   *)
(* not.                                                                    *)
(*                                                                         *)
(* A backend is named by the thread that has made it and can be used by    *)
(* every thread of its process.  A key prefix is a sequence of letters.    *)
(* The server is external: a command is done, refused, or fails on the way *)
(* there or on the way back, and one that has been sent, an FT.CREATE as   *)
(* well as an HSET, may still be done when its sender has given up or has  *)
(* ended.  A call that uses redis_ after a close ends its process.         *)
(***************************************************************************)
EXTENDS Integers, FiniteSets, SequencesExt

CONSTANTS
    Threads,
    Processes,
    ProcessOf,    \* ProcessOf[t]: the process thread t belongs to
    Configs,      \* the configurations: [dim, index, prefix]
    Inputs,       \* the lists of documents given to insert: [dim, kind]
    Limit,        \* the hits of an FT.SEARCH without LIMIT (10 in Redis)
    MaxHits,      \* bound: the parameter k of query
    MaxCalls,     \* bound: calls of all threads
    MaxInserts    \* bound: calls of insert

NoThread == "no thread"
ConfigType == [dim : Nat, index : STRING, prefix : Seq(Nat)]
DocumentType == [dim : Nat, kind : {"plain", "NaN", "notUTF8"}]

ASSUME BackendAssumption ==
    /\ NoThread \notin Threads /\ IsFiniteSet(Threads)
    /\ ProcessOf \in [Threads -> Processes]
    /\ Configs \subseteq ConfigType
    /\ Inputs \subseteq Seq(DocumentType)
    /\ Limit \in Nat
    /\ MaxHits \in Nat
    /\ MaxCalls \in Nat
    /\ MaxInserts \in Nat

VARIABLES
    registry,  \* registry[p]: the thread that holds mtx_, or NoThread
    backend,   \* backend[t]: what make has returned to t
    pc,        \* pc[t]: where thread t is
    call,      \* call[t]: the parameters of its call
    outcome,   \* outcome[t]: how its call has ended
    calls,     \* the number of calls, for the bound
    dead,      \* the processes that have ended
    index,     \* the server: index[n] is the index of name n
    stored,    \* the server: its documents
    late,      \* the FT.CREATEs the server has not done and nobody waits for
    wire,      \* wire[a]: the HSETs of insert a that the server has not done
    inserts,   \* history: inserts[a], size and status of the a-th insert
    refused    \* history: <<a, i>>, the documents that the server refused

server == <<index, late, stored, wire, inserts, refused>>
vars == <<registry, backend, pc, call, outcome, calls, dead, server>>

NoConfig == [dim |-> 0, index |-> "none", prefix |-> <<>>]
NoBackend == [cfg |-> NoConfig, open |-> FALSE]
NoIndex == [dim |-> 0, prefix |-> <<>>, by |-> NoThread, late |-> FALSE]
NoCall == [fn |-> "none", on |-> NoThread, docs |-> <<>>, cfg |-> NoConfig, saw |-> "none", a |-> 0]
InsertIds == 1..MaxInserts
Names == {c.index : c \in Configs}

Init ==
    /\ registry = [p \in Processes |-> NoThread]
    /\ backend = [t \in Threads |-> NoBackend]
    /\ pc = [t \in Threads |-> "idle"]
    /\ call = [t \in Threads |-> NoCall]
    /\ outcome = [t \in Threads |-> "none"]
    /\ calls = 0
    /\ dead = {}
    /\ index = [n \in Names |-> NoIndex]
    /\ late = {}
    /\ stored = {}
    /\ wire = [a \in InsertIds |-> <<>>]
    /\ inserts = [a \in InsertIds |-> [size |-> 0, status |-> "none"]]
    /\ refused = {}

Alive(t) == ProcessOf[t] \notin dead
Goto(t, label) == pc' = [pc EXCEPT ![t] = label]

\* Thread t begins a call of a function.
Enter(t, fn, parameters) ==
    /\ pc[t] = "idle"
    /\ calls < MaxCalls
    /\ calls' = calls + 1
    /\ call' = [call EXCEPT ![t] = [parameters EXCEPT !.fn = fn]]

\* Thread t is between calls.
Idle(t) ==
    /\ call' = [call EXCEPT ![t] = NoCall]
    /\ outcome' = [outcome EXCEPT ![t] = "none"]
    /\ Goto(t, "idle")

\* The function of the backend ends; the caller goes on at "ended".
End(t, how) ==
    /\ outcome' = [outcome EXCEPT ![t] = how]
    /\ Goto(t, "ended")

\* A null or a destroyed redis_ is used.
Undefined(t) ==
    /\ dead' = dead \cup {ProcessOf[t]}
    /\ UNCHANGED <<pc, outcome>>

\* The backends that thread t can use.
Usable(t) == {b \in Threads : ProcessOf[b] = ProcessOf[t] /\ backend[b] # NoBackend}
Config(t) == backend[call[t].on].cfg
Open(t) == backend[call[t].on].open

-----------------------------------------------------------------------------
(***************************************************************************)
(* Registry::make and the constructor.                                     *)
(***************************************************************************)
Make(t) ==
    /\ backend[t] = NoBackend
    /\ \E c \in Configs : Enter(t, "make", [NoCall EXCEPT !.cfg = c])
    /\ Goto(t, "make")
    /\ UNCHANGED <<registry, backend, outcome, dead, server>>

\* Mutant of LockRegistry: without the scoped_lock.
LockNothing(t) ==
    /\ pc[t] = "make"
    /\ Goto(t, "info")
    /\ UNCHANGED <<registry, backend, call, outcome, calls, dead, server>>

LockRegistry(t) ==
    /\ pc[t] = "make"
    /\ registry[ProcessOf[t]] = NoThread
    /\ registry' = [registry EXCEPT ![ProcessOf[t]] = t]
    /\ Goto(t, "info")
    /\ UNCHANGED <<backend, call, outcome, calls, dead, server>>

\* make ends, and so does its scoped_lock.
Made(t, ok) ==
    /\ registry' = [registry EXCEPT ![ProcessOf[t]] = NoThread]
    /\ Idle(t)
    /\ backend' = IF ok THEN [backend EXCEPT ![t] = [cfg |-> call[t].cfg, open |-> TRUE]] ELSE backend

\* FT.INFO: any index of this name will do; any error means there is none.
FtInfo(t) ==
    LET n == call[t].cfg.index
        Saw(what) == call' = [call EXCEPT ![t].saw = what]
    IN
    /\ pc[t] = "info"
    /\ \/ index[n] # NoIndex /\ Made(t, TRUE)
       \/ /\ Saw("error") \/ (index[n] = NoIndex /\ Saw("absent"))
          /\ Goto(t, "create")
          /\ UNCHANGED <<registry, backend, outcome>>
    /\ UNCHANGED <<calls, dead, server>>

Creates(t) == [cfg |-> call[t].cfg, by |-> t]

\* The server does an FT.CREATE, with or without somebody who waits for it.
Create(m, unawaited) ==
    /\ index[m.cfg.index] = NoIndex
    /\ index' = [index EXCEPT ![m.cfg.index] =
                    [dim |-> m.cfg.dim, prefix |-> m.cfg.prefix, by |-> m.by, late |-> unawaited]]

\* FT.CREATE; an error becomes InvalidConfiguration, also one on the way back
\* and a timeout, after which the command may still be on its way.
FtCreate(t) ==
    /\ pc[t] = "create"
    /\ \/ Create(Creates(t), FALSE) /\ UNCHANGED late /\ \E ok \in BOOLEAN : Made(t, ok)
       \/ UNCHANGED <<index, late>> /\ Made(t, FALSE)
       \/ late' = late \cup {Creates(t)} /\ UNCHANGED index /\ Made(t, FALSE)
    /\ UNCHANGED <<calls, dead, stored, wire, inserts, refused>>

\* The FT.CREATEs whose senders have given up, or have ended with their process.
Unawaited == late \cup {Creates(t) : t \in {u \in Threads : ~Alive(u) /\ pc[u] = "create"}}

\* The server does one of them; it refuses one whose index is there.
CreateLate(m) ==
    /\ Create(m, TRUE)
    /\ late' = late \ {m}
    /\ UNCHANGED <<registry, backend, pc, call, outcome, calls, dead, stored, wire, inserts, refused>>

-----------------------------------------------------------------------------
(***************************************************************************)
(* insert.                                                                 *)
(***************************************************************************)
SetStatus(a, s) == inserts' = [inserts EXCEPT ![a].status = s]

\* insert is called: if (!is_open()) throw BackendClosed
CallInsert(t) ==
    \E b \in Usable(t), docs \in Inputs, a \in InsertIds :
        /\ inserts[a].status = "none"
        /\ \A e \in 1..(a - 1) : inserts[e].status # "none"
        /\ Enter(t, "insert", [NoCall EXCEPT !.on = b, !.docs = docs, !.a = a])
        /\ inserts' = [inserts EXCEPT ![a] = [size |-> Len(docs),
                          status |-> IF backend[b].open THEN "open" ELSE "rejected"]]
        /\ IF backend[b].open THEN Goto(t, "pipeline") /\ UNCHANGED outcome ELSE End(t, "threw")
        /\ UNCHANGED <<registry, backend, dead, index, late, stored, wire, refused>>

\* Mutant of Rejected: no check of the dimension.
RejectedAnyDim(d, c) == d.dim = 0 \/ d.kind = "notUTF8"

\* A document that the loop throws on: DimensionMismatch, or InsertionError for
\* one without an embedding (dim() = 0), or the JSON of text that is not UTF-8.
Rejected(d, c) == d.dim # c.dim \/ d.dim = 0 \/ d.kind = "notUTF8"

Command(d, c, a, i) == [id |-> <<a, i>>, key |-> c.prefix, dim |-> d.dim, kind |-> d.kind, cfg |-> c]

\* Mutant of Commands: counts from 0.
CommandsFromZero(docs, c, a) == [i \in 1..Len(docs) |-> Command(docs[i], c, a, i - 1)]

Commands(docs, c, a) == [i \in 1..Len(docs) |-> Command(docs[i], c, a, i)]

\* Mutant of Build: sends each document as it goes.
BuildSends(t) ==
    LET docs == call[t].docs
        a == call[t].a
        bad == {i \in 1..Len(docs) : Rejected(docs[i], Config(t))}
        sent == IF bad = {} THEN docs
                ELSE SubSeq(docs, 1, (CHOOSE i \in bad : \A j \in bad : i <= j) - 1)
    IN
    /\ pc[t] = "pipeline"
    /\ Open(t)
    /\ wire' = [wire EXCEPT ![a] = Commands(sent, Config(t), a)]
    /\ IF bad # {} THEN SetStatus(a, "rejected") /\ End(t, "threw")
                   ELSE Goto(t, "replies") /\ UNCHANGED <<outcome, inserts>>
    /\ UNCHANGED <<registry, backend, call, calls, dead, index, late, stored, refused>>

\* redis_->pipeline(false), which uses redis_ although a close may have come
\* since the check; the loop over docs; and exec, which sends the pipeline.  A
\* pipeline that an exception leaves behind is not sent.
Build(t) ==
    LET docs == call[t].docs
        a == call[t].a
    IN
    /\ pc[t] = "pipeline"
    /\ \/ ~Open(t) /\ Undefined(t) /\ UNCHANGED <<wire, inserts>>
       \/ /\ Open(t)
          /\ IF \E i \in 1..Len(docs) : Rejected(docs[i], Config(t))
               THEN SetStatus(a, "rejected") /\ End(t, "threw") /\ UNCHANGED wire
               ELSE /\ wire' = [wire EXCEPT ![a] = Commands(docs, Config(t), a)]
                    /\ Goto(t, "replies")
                    /\ UNCHANGED <<outcome, inserts>>
          /\ UNCHANGED dead
    /\ UNCHANGED <<registry, backend, call, calls, index, late, stored, refused>>

\* exec returns when the server has done all commands.  It has the replies of
\* those that were refused, and the code does not look at them.
Replies(t) ==
    /\ pc[t] = "replies"
    /\ wire[call[t].a] = <<>>
    /\ SetStatus(call[t].a, "returned")
    /\ End(t, "ok")
    /\ UNCHANGED <<registry, backend, call, calls, dead, index, late, stored, wire, refused>>

\* exec throws: the connection broke, or the server did not answer in time.
ExecThrows(t) ==
    /\ pc[t] = "replies"
    /\ SetStatus(call[t].a, "failed")
    /\ End(t, "threw")
    /\ UNCHANGED <<registry, backend, call, calls, dead, index, late, stored, wire, refused>>

\* The server does the next HSET of insert a, or refuses it.  When the sender
\* has given up or ended, it may do so late, or never.
Perform(a) ==
    /\ wire[a] # <<>>
    /\ wire' = [wire EXCEPT ![a] = Tail(@)]
    /\ \/ stored' = stored \cup {Head(wire[a])} /\ UNCHANGED refused
       \/ refused' = refused \cup {Head(wire[a]).id} /\ UNCHANGED stored
    /\ UNCHANGED <<registry, backend, pc, call, outcome, calls, dead, index, late, inserts>>

-----------------------------------------------------------------------------
(***************************************************************************)
(* query and close.                                                        *)
(***************************************************************************)
\* query is called.  An embedding of another size throws; otherwise redis_ is
\* used, whether or not the backend is open.
CallQuery(t) ==
    \E b \in Usable(t) :
        /\ Enter(t, "query", [NoCall EXCEPT !.on = b])
        /\ \/ End(t, "threw") /\ UNCHANGED dead
           \/ backend[b].open /\ Goto(t, "answer") /\ UNCHANGED <<outcome, dead>>
           \/ ~backend[b].open /\ Undefined(t)
        /\ UNCHANGED <<registry, backend, server>>

\* The server's rule for what an index covers: keys that begin with its prefix,
\* and vectors of its size.
Covers(n, d) == IsPrefix(index[n].prefix, d.key) /\ d.dim = index[n].dim
Covered(n) == {d \in stored : Covers(n, d)}

\* The answers to FT.SEARCH for the k nearest: any, as distances and what the
\* filter matches (the JSON of the whole document, whatever its field) are left out.
Answers(n, k) ==
    {hits \in SUBSET Covered(n) : Cardinality(hits) <= k /\ Cardinality(hits) <= Limit}

\* FT.SEARCH and parse_search_reply_tree.  The JSON of a document with a NaN in
\* its embedding has a null there, which from_json throws on.
Search(t) ==
    LET n == Config(t).index IN
    /\ pc[t] = "answer"
    /\ \/ End(t, "threw")
       \/ /\ index[n].dim = Config(t).dim
          /\ \E k \in 0..MaxHits : \E hits \in Answers(n, k) :
                End(t, IF \E d \in hits : d.kind = "NaN" THEN "threw" ELSE "ok")
    /\ UNCHANGED <<registry, backend, call, calls, dead, server>>

\* close: redis_.reset(), which destroys what a query on another thread is using.
CallClose(t) ==
    \E b \in Usable(t) :
        /\ Enter(t, "close", [NoCall EXCEPT !.on = b])
        /\ IF \E u \in Threads : pc[u] = "answer" /\ call[u].on = b
             THEN Undefined(t) /\ UNCHANGED backend
             ELSE /\ backend' = [backend EXCEPT ![b].open = FALSE]
                  /\ End(t, "ok")
                  /\ UNCHANGED dead
        /\ UNCHANGED <<registry, server>>

-----------------------------------------------------------------------------
\* A thread chooses what to call.
Call(t) == Alive(t) /\ (Make(t) \/ CallInsert(t) \/ CallQuery(t) \/ CallClose(t))

\* What a thread does inside a call.
Step(t) ==
    /\ Alive(t)
    /\ \/ LockRegistry(t) \/ FtInfo(t) \/ FtCreate(t)
       \/ Build(t) \/ Replies(t) \/ ExecThrows(t) \/ Search(t)
=============================================================================
