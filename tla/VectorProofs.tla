---------------------------- MODULE VectorProofs -----------------------------
(***************************************************************************)
(* Proofs about RedisBackend and MetricsWrapper: within a process nobody   *)
(* loses the creation of an index to a thread that is answered, and what a *)
(* backend stores is covered by an index of its configuration, for any     *)
(* number of threads, processes, configurations and calls.                 *)
(***************************************************************************)
EXTENDS MetricsWrapper, TLAPS

-----------------------------------------------------------------------------
(***************************************************************************)
(* The inductive invariant, one part after the other.                      *)
(***************************************************************************)

\* A configuration, or none yet.
Configuration == Configs \cup {NoConfig}

CallType == [fn : {"none", "make", "insert", "query", "close"}, on : Threads \cup {NoThread},
             docs : Seq(DocumentType), cfg : Configuration,
             saw : {"none", "absent", "error"}, a : InsertIds \cup {0}]

Places == {"idle", "make", "info", "create", "pipeline", "replies", "answer", "ended"}

IndexType == [dim : Nat, prefix : Seq(Nat), by : Threads \cup {NoThread}, late : BOOLEAN]

\* A command to store a document as the backend of its configuration makes it.
CommandType ==
    {d \in [id : InsertIds \X Nat, key : Seq(Nat), dim : Nat,
            kind : {"plain", "NaN", "notUTF8"}, cfg : Configuration] :
        d.key = d.cfg.prefix /\ d.dim = d.cfg.dim}

Shapes ==
    /\ registry \in [Processes -> Threads \cup {NoThread}]
    /\ backend \in [Threads -> [cfg : Configuration, open : BOOLEAN]]
    /\ pc \in [Threads -> Places]
    /\ call \in [Threads -> CallType]
    /\ index \in [Names -> IndexType]
    /\ late \subseteq [cfg : Configs, by : Threads]

\* A thread in a call of the backend has one, and a document and a number for insert.
Calling ==
    /\ \A t \in Threads : pc[t] \in {"make", "info", "create"} => call[t].cfg \in Configs
    /\ \A t \in Threads : pc[t] = "pipeline" => call[t].on \in Threads /\ call[t].a \in InsertIds
    /\ \A t \in Threads : backend[t] # NoBackend => backend[t].cfg \in Configs

\* The constructor runs under the mutex of the registry.
MakesUnderLock ==
    \A t \in Threads : pc[t] \in {"info", "create"} => registry[ProcessOf[t]] = t

\* There is an index for every backend that a constructor has returned.
Indexed == \A t \in Threads : backend[t] # NoBackend => index[backend[t].cfg.index] # NoIndex

CommandsProper ==
    /\ wire \in [InsertIds -> Seq(CommandType)]
    /\ stored \subseteq CommandType

IInv == Shapes /\ Calling /\ MakesUnderLock /\ RacesOutsideLock /\ Indexed /\ CommandsProper

-----------------------------------------------------------------------------
LEMMA NoCallTyped == NoCall \in CallType
<1>1. <<>> \in Seq(DocumentType)
  OBVIOUS
<1>2. NoConfig \in Configuration
  BY DEF Configuration
<1> QED
  BY <1>1, <1>2 DEF NoCall, CallType

LEMMA NoIndexTyped == NoIndex \in IndexType
<1>1. <<>> \in Seq(Nat)
  OBVIOUS
<1> QED
  BY <1>1 DEF NoIndex, IndexType

LEMMA Initially == MetricsInit => IInv
<1> SUFFICES ASSUME MetricsInit PROVE IInv
  OBVIOUS
<1> USE DEF MetricsInit, Init
<1>1. Shapes
  <2>1. NoBackend \in [cfg : Configuration, open : BOOLEAN]
    BY DEF NoBackend, Configuration
  <2> QED
    BY <2>1, NoCallTyped, NoIndexTyped DEF Shapes, Places
<1>2. Calling /\ MakesUnderLock /\ RacesOutsideLock /\ Indexed
  BY DEF Calling, MakesUnderLock, RacesOutsideLock, Indexed
<1>3. CommandsProper
  BY DEF CommandsProper
<1> QED
  BY <1>1, <1>2, <1>3 DEF IInv

\* What no step but those of a constructor and of close changes.
Quiet == UNCHANGED <<registry, backend, index, late>>

\* A thread has entered a call that does not make a backend, or has left one.
LEMMA QuietStep ==
    ASSUME IInv, Quiet, NEW t \in Threads,
           call' \in [Threads -> CallType], pc' \in [Threads -> Places],
           \A u \in Threads \ {t} : pc'[u] = pc[u] /\ call'[u] = call[u],
           pc'[t] \notin {"make", "info", "create"} \/ UNCHANGED <<pc, call>>,
           pc'[t] = "pipeline" => call'[t].on \in Threads /\ call'[t].a \in InsertIds
    PROVE  (Shapes /\ Calling /\ MakesUnderLock /\ RacesOutsideLock /\ Indexed)'
<1> USE DEF IInv, Quiet
<1>1. Shapes'
  BY DEF Shapes
<1>2. Calling'
  BY DEF Calling
<1>3. MakesUnderLock'
  BY DEF MakesUnderLock
<1>4. RacesOutsideLock'
  BY DEF RacesOutsideLock
<1>5. Indexed'
  BY DEF Indexed
<1> QED
  BY <1>1, <1>2, <1>3, <1>4, <1>5

\* ... and when it has no part in the wire or the store either.
LEMMA QuietIInv ==
    ASSUME IInv, Quiet, UNCHANGED <<wire, stored>>, NEW t \in Threads,
           call' \in [Threads -> CallType], pc' \in [Threads -> Places],
           \A u \in Threads \ {t} : pc'[u] = pc[u] /\ call'[u] = call[u],
           pc'[t] \notin {"make", "info", "create"} \/ UNCHANGED <<pc, call>>,
           pc'[t] = "pipeline" => call'[t].on \in Threads /\ call'[t].a \in InsertIds
    PROVE  IInv'
<1>1. (Shapes /\ Calling /\ MakesUnderLock /\ RacesOutsideLock /\ Indexed)'
  BY QuietStep
<1>2. CommandsProper'
  BY DEF IInv, CommandsProper
<1> QED
  BY <1>1, <1>2 DEF IInv

LEMMA Stutter == IInv /\ UNCHANGED vars => IInv'
BY DEF IInv, vars, server, Shapes, Calling, MakesUnderLock, RacesOutsideLock, Indexed, CommandsProper

\* A configuration has the fields that a command takes from it.
LEMMA ConfigShape == \A c \in Configuration : c.dim \in Nat /\ c.prefix \in Seq(Nat)
<1>1. <<>> \in Seq(Nat)
  OBVIOUS
<1>2. NoConfig.dim \in Nat /\ NoConfig.prefix \in Seq(Nat)
  BY <1>1 DEF NoConfig
<1>3. \A c \in Configs : c.dim \in Nat /\ c.prefix \in Seq(Nat)
  BY BackendAssumption DEF ConfigType
<1> QED
  BY <1>2, <1>3 DEF Configuration

-----------------------------------------------------------------------------
(***************************************************************************)
(* The constructor.                                                        *)
(***************************************************************************)
LEMMA MakeStep ==
    ASSUME IInv, NEW t \in Threads, Make(t)
    PROVE  IInv'
<1> USE DEF IInv
<1>1. PICK c \in Configs : call' = [call EXCEPT ![t] = [NoCall EXCEPT !.cfg = c, !.fn = "make"]]
  BY DEF Make, Enter
<1>2. pc' = [pc EXCEPT ![t] = "make"] /\ UNCHANGED <<registry, backend, index, late, wire, stored>>
  BY DEF Make, Goto, server
<1>3. [NoCall EXCEPT !.cfg = c, !.fn = "make"] \in CallType
  BY NoCallTyped DEF CallType, Configuration
<1>4. Shapes'
  BY <1>1, <1>2, <1>3 DEF Shapes, Places
<1>5. call'[t].cfg = c
  BY <1>1, NoCallTyped DEF Shapes, CallType
<1>6. Calling'
  BY <1>1, <1>2, <1>5 DEF Calling, Shapes
<1>7. MakesUnderLock' /\ RacesOutsideLock' /\ Indexed' /\ CommandsProper'
  BY <1>1, <1>2 DEF MakesUnderLock, RacesOutsideLock, Indexed, CommandsProper, Shapes
<1> QED
  BY <1>4, <1>6, <1>7

LEMMA LockRegistryStep ==
    ASSUME IInv, NEW t \in Threads, LockRegistry(t)
    PROVE  IInv'
<1> USE DEF IInv
<1>1. /\ pc[t] = "make" /\ registry[ProcessOf[t]] = NoThread
      /\ registry' = [registry EXCEPT ![ProcessOf[t]] = t]
      /\ pc' = [pc EXCEPT ![t] = "info"]
      /\ UNCHANGED <<backend, call, index, late, wire, stored>>
  BY DEF LockRegistry, Goto, server
<1>2. ProcessOf \in [Threads -> Processes] /\ NoThread \notin Threads
  BY BackendAssumption
<1>3. Shapes'
  BY <1>1, <1>2 DEF Shapes, Places
<1>4. Calling' /\ RacesOutsideLock' /\ Indexed' /\ CommandsProper'
  BY <1>1 DEF Calling, RacesOutsideLock, Indexed, CommandsProper, Shapes
<1>5. MakesUnderLock'
  BY <1>1, <1>2 DEF MakesUnderLock, Shapes
<1> QED
  BY <1>3, <1>4, <1>5

\* The end of make, when an index is there if it has succeeded.
LEMMA MadeStep ==
    ASSUME IInv, NEW t \in Threads, NEW ok \in BOOLEAN, Made(t, ok),
           pc[t] \in {"info", "create"}
    PROVE  /\ registry' \in [Processes -> Threads \cup {NoThread}]
           /\ backend' \in [Threads -> [cfg : Configuration, open : BOOLEAN]]
           /\ pc' \in [Threads -> Places]
           /\ call' \in [Threads -> CallType]
           /\ Calling'
           /\ MakesUnderLock'
           /\ pc' = [pc EXCEPT ![t] = "idle"]
           /\ \A u \in Threads \ {t} : call'[u] = call[u]
           /\ \A u \in Threads : backend'[u] # backend[u] => ok /\ backend'[u].cfg = call[t].cfg
<1> USE DEF IInv
<1>1. /\ registry' = [registry EXCEPT ![ProcessOf[t]] = NoThread]
      /\ call' = [call EXCEPT ![t] = NoCall]
      /\ pc' = [pc EXCEPT ![t] = "idle"]
      /\ backend' = IF ok THEN [backend EXCEPT ![t] = [cfg |-> call[t].cfg, open |-> TRUE]] ELSE backend
  BY DEF Made, Idle, Goto
<1>2. ProcessOf \in [Threads -> Processes] /\ NoThread \notin Threads
  BY BackendAssumption
<1>3. call[t].cfg \in Configs
  BY DEF Calling
<1>4. registry' \in [Processes -> Threads \cup {NoThread}]
  BY <1>1, <1>2 DEF Shapes
<1>5. pc' \in [Threads -> Places] /\ call' \in [Threads -> CallType]
  BY <1>1, NoCallTyped DEF Shapes, Places
<1>6. backend' \in [Threads -> [cfg : Configuration, open : BOOLEAN]]
  BY <1>1, <1>3 DEF Shapes, Configuration
<1>7. \A u \in Threads : backend'[u] # backend[u] => ok /\ backend'[u].cfg = call[t].cfg
  BY <1>1, <1>3 DEF Shapes
<1>8. \A u \in Threads \ {t} : call'[u] = call[u]
  BY <1>1 DEF Shapes
<1>9. Calling'
  BY <1>1, <1>3, <1>7, <1>8 DEF Calling, Shapes
<1>10. MakesUnderLock'
  BY <1>1, <1>2 DEF MakesUnderLock, Shapes
<1> QED
  BY <1>1, <1>4, <1>5, <1>6, <1>7, <1>8, <1>9, <1>10

LEMMA FtInfoStep ==
    ASSUME IInv, NEW t \in Threads, FtInfo(t)
    PROVE  IInv'
<1> USE DEF IInv
<1> DEFINE n == call[t].cfg.index
<1>1. pc[t] = "info" /\ UNCHANGED <<index, late, wire, stored>>
  BY DEF FtInfo, server
<1>2. CASE index[n] # NoIndex /\ Made(t, TRUE)
  <2>1. Shapes' /\ Calling' /\ MakesUnderLock'
    BY <1>1, <1>2, MadeStep DEF Shapes
  <2>2. RacesOutsideLock'
    BY <1>1, <1>2, MadeStep DEF RacesOutsideLock, Shapes
  <2>3. Indexed'
    BY <1>1, <1>2, MadeStep DEF Indexed
  <2>4. CommandsProper'
    BY <1>1 DEF CommandsProper
  <2> QED
    BY <2>1, <2>2, <2>3, <2>4
<1>3. ASSUME NEW what \in {"error", "absent"}, what = "absent" => index[n] = NoIndex,
             call' = [call EXCEPT ![t].saw = what], pc' = [pc EXCEPT ![t] = "create"],
             UNCHANGED <<registry, backend>>
      PROVE  IInv'
  <2>1. Shapes'
    <3>1. [call[t] EXCEPT !.saw = what] \in CallType
      BY DEF Shapes, CallType
    <3> QED
      BY <1>1, <1>3, <3>1 DEF Shapes, Places
  <2>2. call'[t].cfg = call[t].cfg /\ \A u \in Threads \ {t} : call'[u] = call[u]
    BY <1>3 DEF Shapes, CallType
  <2>3. call'[t].saw = what
    BY <1>3 DEF Shapes, CallType
  <2>4. Calling'
    BY <1>1, <1>3, <2>2 DEF Calling, Shapes
  <2>5. MakesUnderLock' /\ Indexed' /\ CommandsProper'
    BY <1>1, <1>3 DEF MakesUnderLock, Indexed, CommandsProper, Shapes
  <2>6. RacesOutsideLock'
    BY <1>1, <1>3, <2>2, <2>3 DEF RacesOutsideLock, Shapes
  <2> QED
    BY <2>1, <2>4, <2>5, <2>6
<1> QED
  BY <1>2, <1>3 DEF FtInfo, Goto

\* The server makes an index that is not there.
LEMMA CreateTyped ==
    ASSUME IInv, NEW m \in [cfg : Configs, by : Threads], NEW unawaited \in BOOLEAN,
           Create(m, unawaited)
    PROVE  /\ m.cfg.index \in Names
           /\ index' \in [Names -> IndexType]
           /\ index'[m.cfg.index] # NoIndex
           /\ index'[m.cfg.index].by = m.by
           /\ unawaited => index'[m.cfg.index].late
           /\ \A n \in Names : n # m.cfg.index => index'[n] = index[n]
           /\ \A n \in Names : index[n] # NoIndex => index'[n] # NoIndex
<1> DEFINE new == [dim |-> m.cfg.dim, prefix |-> m.cfg.prefix, by |-> m.by, late |-> unawaited]
<1>1. m.cfg \in Configs /\ m.by \in Threads /\ m.cfg.index \in Names
  BY DEF Names
<1>2. new \in IndexType
  BY <1>1, ConfigShape DEF IndexType, Configuration
<1>3. new # NoIndex /\ new.by = m.by /\ new.late = unawaited
  BY <1>1, BackendAssumption DEF NoIndex
<1>4. index \in [Names -> IndexType] /\ index' = [index EXCEPT ![m.cfg.index] = new]
  BY DEF IInv, Shapes, Create
<1> HIDE DEF new
<1> QED
  BY <1>1, <1>2, <1>3, <1>4

\* An index stays, and so every backend still has one.
LEMMA IndexedStays ==
    ASSUME IInv, \A n \in Names : index[n] # NoIndex => index'[n] # NoIndex,
           NEW u \in Threads, backend'[u] = backend[u], backend[u] # NoBackend
    PROVE  index'[backend'[u].cfg.index] # NoIndex
<1>1. backend[u].cfg.index \in Names /\ index[backend[u].cfg.index] # NoIndex
  BY DEF IInv, Calling, Names, Indexed
<1> QED
  BY <1>1

LEMMA FtCreateStep ==
    ASSUME IInv, NEW t \in Threads, FtCreate(t)
    PROVE  IInv'
<1> USE DEF IInv
<1> DEFINE c == call[t].cfg
           m == Creates(t)
<1>1. pc[t] = "create" /\ UNCHANGED <<wire, stored>>
  BY DEF FtCreate
<1>2. /\ c \in Configs /\ c.index \in Names
      /\ m \in [cfg : Configs, by : Threads] /\ m.cfg = c /\ m.by = t
  BY <1>1 DEF Calling, Names, Creates
<1>3. CommandsProper'
  BY <1>1 DEF CommandsProper
<1>4. ASSUME Create(m, FALSE), UNCHANGED late, NEW ok \in BOOLEAN, Made(t, ok)
      PROVE  IInv'
  <2> HIDE DEF m
  <2>1. /\ index' \in [Names -> IndexType]
        /\ index'[c.index] # NoIndex /\ index'[c.index].by = t
        /\ \A n \in Names : n # c.index => index'[n] = index[n]
        /\ \A n \in Names : index[n] # NoIndex => index'[n] # NoIndex
    BY <1>2, <1>4, CreateTyped
  <2>2. Shapes' /\ Calling' /\ MakesUnderLock'
    BY <1>1, <1>4, <2>1, MadeStep DEF Shapes
  <2>3. Indexed'
    <3> SUFFICES ASSUME NEW u \in Threads, backend'[u] # NoBackend
                 PROVE  index'[backend'[u].cfg.index] # NoIndex
      BY DEF Indexed
    <3>1. CASE backend'[u] = backend[u]
      BY <2>1, <3>1, IndexedStays
    <3>2. CASE backend'[u] # backend[u]
      BY <1>1, <1>4, <2>1, <3>2, MadeStep
    <3> QED
      BY <3>1, <3>2
  <2>4. RacesOutsideLock'
    <3> SUFFICES ASSUME NEW u \in Threads, pc'[u] = "create", call'[u].saw = "absent",
                        index'[call'[u].cfg.index] # NoIndex
                 PROVE  \/ index'[call'[u].cfg.index].late
                        \/ ProcessOf[index'[call'[u].cfg.index].by] # ProcessOf[u]
      BY DEF RacesOutsideLock
    <3>1. u # t /\ pc[u] = "create" /\ call'[u] = call[u]
      BY <1>1, <1>4, MadeStep DEF Shapes
    <3>2. ProcessOf[u] # ProcessOf[t]
      BY <1>1, <3>1 DEF MakesUnderLock
    <3>3. call[u].cfg.index \in Names
      BY <3>1 DEF Calling, Names
    <3>4. CASE call[u].cfg.index = c.index
      BY <2>1, <3>1, <3>2, <3>4
    <3>5. CASE call[u].cfg.index # c.index
      <4>1. index'[call[u].cfg.index] = index[call[u].cfg.index]
        BY <2>1, <3>3, <3>5
      <4> QED
        BY <3>1, <4>1 DEF RacesOutsideLock
    <3> QED
      BY <3>4, <3>5
  <2> QED
    BY <1>3, <2>2, <2>3, <2>4
<1>5. ASSUME UNCHANGED index, late' \subseteq late \cup {m}, Made(t, FALSE)
      PROVE  IInv'
  <2> HIDE DEF m
  <2>1. Shapes' /\ Calling' /\ MakesUnderLock'
    BY <1>1, <1>2, <1>5, MadeStep DEF Shapes
  <2>2. /\ pc' = [pc EXCEPT ![t] = "idle"]
        /\ \A u \in Threads \ {t} : call'[u] = call[u]
        /\ \A u \in Threads : backend'[u] = backend[u]
    BY <1>1, <1>5, MadeStep
  <2>3. RacesOutsideLock'
    BY <1>5, <2>2 DEF RacesOutsideLock, Shapes
  <2>4. Indexed'
    BY <1>5, <2>2 DEF Indexed
  <2> QED
    BY <1>3, <2>1, <2>3, <2>4
<1> QED
  BY <1>4, <1>5 DEF FtCreate

\* An FT.CREATE that nobody waits for is that of a constructor.
LEMMA UnawaitedTyped == IInv => Unawaited \subseteq [cfg : Configs, by : Threads]
BY DEF IInv, Shapes, Calling, Unawaited, Creates

LEMMA CreateLateStep ==
    ASSUME IInv, NEW m \in Unawaited, CreateLate(m)
    PROVE  IInv'
<1> USE DEF IInv
<1>1. /\ Create(m, TRUE) /\ late' = late \ {m}
      /\ UNCHANGED <<registry, backend, pc, call, wire, stored>>
  BY DEF CreateLate
<1>2. m \in [cfg : Configs, by : Threads]
  BY UnawaitedTyped
<1>3. /\ m.cfg.index \in Names
      /\ index' \in [Names -> IndexType]
      /\ index'[m.cfg.index].late
      /\ \A n \in Names : n # m.cfg.index => index'[n] = index[n]
      /\ \A n \in Names : index[n] # NoIndex => index'[n] # NoIndex
  BY <1>1, <1>2, CreateTyped
<1>4. Shapes' /\ Calling' /\ MakesUnderLock' /\ CommandsProper'
  BY <1>1, <1>3 DEF Shapes, Calling, MakesUnderLock, CommandsProper
<1>5. Indexed'
  BY <1>1, <1>3, IndexedStays DEF Indexed
<1>6. RacesOutsideLock'
  <2> SUFFICES ASSUME NEW u \in Threads, pc[u] = "create", call[u].saw = "absent",
                      index'[call[u].cfg.index] # NoIndex
               PROVE  \/ index'[call[u].cfg.index].late
                      \/ ProcessOf[index'[call[u].cfg.index].by] # ProcessOf[u]
    BY <1>1 DEF RacesOutsideLock
  <2>1. call[u].cfg.index \in Names
    BY DEF Calling, Names
  <2>2. CASE call[u].cfg.index = m.cfg.index
    BY <1>3, <2>2
  <2>3. CASE call[u].cfg.index # m.cfg.index
    <3>1. index'[call[u].cfg.index] = index[call[u].cfg.index]
      BY <1>3, <2>1, <2>3
    <3> QED
      BY <3>1 DEF RacesOutsideLock
  <2> QED
    BY <2>2, <2>3
<1> QED
  BY <1>4, <1>5, <1>6

-----------------------------------------------------------------------------
(***************************************************************************)
(* insert, query and close.                                                *)
(***************************************************************************)

\* How a thread enters a call of a backend.
LEMMA Entered ==
    ASSUME IInv, NEW t \in Threads, NEW fn \in {"insert", "query", "close"},
           NEW p \in CallType, Enter(t, fn, p)
    PROVE  /\ pc[t] = "idle"
           /\ call' \in [Threads -> CallType]
           /\ \A u \in Threads \ {t} : call'[u] = call[u]
           /\ call'[t].on = p.on /\ call'[t].a = p.a
<1> DEFINE entered == [p EXCEPT !.fn = fn]
<1>1. entered \in CallType /\ entered.on = p.on /\ entered.a = p.a
  BY DEF CallType
<1>2. pc[t] = "idle" /\ call' = [call EXCEPT ![t] = entered]
  BY DEF Enter
<1> QED
  BY <1>1, <1>2 DEF IInv, Shapes

\* What query and close are called with.
LEMMA OnTyped ==
    ASSUME NEW b \in Threads
    PROVE  [NoCall EXCEPT !.on = b] \in CallType
BY NoCallTyped DEF CallType

LEMMA CallInsertStep ==
    ASSUME IInv, NEW t \in Threads, CallInsert(t)
    PROVE  IInv'
<1>1. PICK b \in Usable(t), docs \in Inputs, a \in InsertIds :
         /\ Enter(t, "insert", [NoCall EXCEPT !.on = b, !.docs = docs, !.a = a])
         /\ pc' = [pc EXCEPT ![t] = "pipeline"] \/ pc' = [pc EXCEPT ![t] = "ended"]
         /\ UNCHANGED <<registry, backend, index, late, wire, stored>>
  BY DEF CallInsert, Goto, End
<1> DEFINE p == [NoCall EXCEPT !.on = b, !.docs = docs, !.a = a]
<1>2. b \in Threads /\ docs \in Seq(DocumentType)
  BY BackendAssumption DEF Usable
<1>3. p \in CallType /\ p.on = b /\ p.a = a
  BY <1>2, NoCallTyped DEF CallType
<1>4. /\ pc[t] = "idle" /\ call' \in [Threads -> CallType]
      /\ \A u \in Threads \ {t} : call'[u] = call[u]
      /\ call'[t].on = p.on /\ call'[t].a = p.a
  <2> HIDE DEF p
  <2> QED
    BY <1>1, <1>3, Entered DEF p
<1>5. pc' \in [Threads -> Places] /\ pc'[t] \in {"pipeline", "ended"}
      /\ \A u \in Threads \ {t} : pc'[u] = pc[u]
  BY <1>1 DEF IInv, Shapes, Places
<1> HIDE DEF p
<1> QED
  BY <1>1, <1>2, <1>3, <1>4, <1>5, QuietIInv DEF Quiet

LEMMA CallQueryStep ==
    ASSUME IInv, NEW t \in Threads, CallQuery(t)
    PROVE  IInv'
<1>1. PICK b \in Usable(t) :
         /\ Enter(t, "query", [NoCall EXCEPT !.on = b])
         /\ pc' = [pc EXCEPT ![t] = "answer"] \/ pc' = [pc EXCEPT ![t] = "ended"] \/ pc' = pc
         /\ UNCHANGED <<registry, backend, index, late, wire, stored>>
  BY DEF CallQuery, Goto, End, Undefined, server
<1>2. [NoCall EXCEPT !.on = b] \in CallType
  BY OnTyped DEF Usable
<1>3. /\ pc[t] = "idle" /\ call' \in [Threads -> CallType]
      /\ \A u \in Threads \ {t} : call'[u] = call[u]
  BY <1>1, <1>2, Entered
<1>4. pc' \in [Threads -> Places] /\ pc'[t] \in {"answer", "ended", "idle"}
      /\ \A u \in Threads \ {t} : pc'[u] = pc[u]
  BY <1>1, <1>3 DEF IInv, Shapes, Places
<1> QED
  BY <1>1, <1>3, <1>4, QuietIInv DEF Quiet

LEMMA CallCloseStep ==
    ASSUME IInv, NEW t \in Threads, CallClose(t)
    PROVE  IInv'
<1> USE DEF IInv
<1>1. PICK b \in Usable(t) :
         /\ Enter(t, "close", [NoCall EXCEPT !.on = b])
         /\ IF \E u \in Threads : pc[u] = "answer" /\ call[u].on = b
              THEN Undefined(t) /\ UNCHANGED backend
              ELSE backend' = [backend EXCEPT ![b].open = FALSE] /\ End(t, "ok")
         /\ UNCHANGED <<registry, index, late, wire, stored>>
  BY DEF CallClose, server
<1>2. \/ pc' = pc /\ UNCHANGED backend
      \/ /\ pc' = [pc EXCEPT ![t] = "ended"]
         /\ backend' = [backend EXCEPT ![b].open = FALSE]
  BY <1>1 DEF End, Goto, Undefined
<1>3. b \in Threads /\ backend[b] # NoBackend
  BY DEF Usable
<1>4. [NoCall EXCEPT !.on = b] \in CallType
  BY <1>3, OnTyped
<1>5. /\ pc[t] = "idle" /\ call' \in [Threads -> CallType]
      /\ \A u \in Threads \ {t} : call'[u] = call[u]
  BY <1>1, <1>4, Entered
<1>6. pc' \in [Threads -> Places] /\ pc'[t] \in {"ended", "idle"}
      /\ \A u \in Threads \ {t} : pc'[u] = pc[u]
  BY <1>2, <1>5 DEF Shapes, Places
<1>7. /\ backend' \in [Threads -> [cfg : Configuration, open : BOOLEAN]]
      /\ \A u \in Threads : backend'[u].cfg = backend[u].cfg
      /\ \A u \in Threads : backend'[u] # NoBackend => backend[u] # NoBackend
  <2>1. CASE UNCHANGED backend
    BY <2>1 DEF Shapes
  <2>2. CASE backend' = [backend EXCEPT ![b].open = FALSE]
    <3>1. [backend[b] EXCEPT !.open = FALSE] \in [cfg : Configuration, open : BOOLEAN]
          /\ [backend[b] EXCEPT !.open = FALSE].cfg = backend[b].cfg
      BY <1>3 DEF Shapes
    <3> QED
      BY <1>3, <2>2, <3>1 DEF Shapes
  <2> QED
    BY <1>2, <2>1, <2>2
<1>8. Shapes'
  BY <1>1, <1>5, <1>6, <1>7 DEF Shapes
<1>9. Calling'
  BY <1>5, <1>6, <1>7 DEF Calling
<1>10. MakesUnderLock' /\ RacesOutsideLock'
  BY <1>1, <1>5, <1>6 DEF MakesUnderLock, RacesOutsideLock
<1>11. Indexed' /\ CommandsProper'
  BY <1>1, <1>7 DEF Indexed, CommandsProper
<1> QED
  BY <1>8, <1>9, <1>10, <1>11

\* A document that is not refused is sent as one of its backend's configuration.
LEMMA CommandsTyped ==
    ASSUME NEW docs \in Seq(DocumentType), NEW c \in Configuration, NEW a \in InsertIds,
           \A i \in 1..Len(docs) : ~Rejected(docs[i], c)
    PROVE  Commands(docs, c, a) \in Seq(CommandType)
<1>1. Len(docs) \in Nat /\ \A i \in 1..Len(docs) : docs[i] \in DocumentType
  OBVIOUS
<1>2. \A i \in 1..Len(docs) : Command(docs[i], c, a, i) \in CommandType
  BY <1>1, ConfigShape DEF Rejected, Command, CommandType, DocumentType
<1>3. Commands(docs, c, a) \in [1..Len(docs) -> CommandType]
  BY <1>2 DEF Commands
<1> QED
  BY <1>1, <1>3

LEMMA BuildStep ==
    ASSUME IInv, NEW t \in Threads, Build(t)
    PROVE  IInv'
<1> USE DEF IInv
<1> DEFINE docs == call[t].docs
           a == call[t].a
           c == Config(t)
<1>1. /\ pc[t] = "pipeline"
      /\ UNCHANGED <<registry, backend, call, index, late, stored>>
      /\ pc' = pc \/ pc' = [pc EXCEPT ![t] = "ended"] \/ pc' = [pc EXCEPT ![t] = "replies"]
  BY DEF Build, Undefined, End, Goto
<1>2. \/ UNCHANGED wire
      \/ /\ \A i \in 1..Len(docs) : ~Rejected(docs[i], c)
         /\ wire' = [wire EXCEPT ![a] = Commands(docs, c, a)]
  BY DEF Build
<1>3. a \in InsertIds /\ docs \in Seq(DocumentType) /\ call[t].on \in Threads
  BY <1>1 DEF Calling, Shapes, CallType
<1>4. c \in Configuration
  BY <1>3 DEF Config, Shapes
<1>5. CommandsProper'
  <2>1. CASE UNCHANGED wire
    BY <1>1, <2>1 DEF CommandsProper
  <2>2. CASE /\ \A i \in 1..Len(docs) : ~Rejected(docs[i], c)
             /\ wire' = [wire EXCEPT ![a] = Commands(docs, c, a)]
    <3>1. Commands(docs, c, a) \in Seq(CommandType)
      <4> HIDE DEF docs, a, c
      <4> QED
        BY <1>3, <1>4, <2>2, CommandsTyped
    <3> HIDE DEF docs, a, c
    <3> QED
      BY <1>1, <1>3, <2>2, <3>1 DEF CommandsProper
  <2> QED
    BY <1>2, <2>1, <2>2
<1>6. pc' \in [Threads -> Places] /\ call' \in [Threads -> CallType]
      /\ \A u \in Threads \ {t} : pc'[u] = pc[u] /\ call'[u] = call[u]
      /\ (pc'[t] \in {"ended", "replies"} \/ UNCHANGED <<pc, call>>)
  BY <1>1 DEF Shapes, Places
<1>7. (Shapes /\ Calling /\ MakesUnderLock /\ RacesOutsideLock /\ Indexed)'
  BY <1>1, <1>3, <1>6, QuietStep DEF Quiet
<1> QED
  BY <1>5, <1>7

\* A call ends, or goes on between calls.
LEMMA LeaveStep ==
    ASSUME IInv, NEW t \in Threads,
           Replies(t) \/ ExecThrows(t) \/ Search(t) \/ Observe(t)
    PROVE  IInv'
<1>1. /\ UNCHANGED <<registry, backend, index, late, wire, stored>>
      /\ \/ pc' = [pc EXCEPT ![t] = "ended"] /\ UNCHANGED call
         \/ pc' = [pc EXCEPT ![t] = "idle"] /\ call' = [call EXCEPT ![t] = NoCall]
  BY DEF Replies, ExecThrows, Search, Observe, End, Idle, Goto, server
<1>2. /\ pc' \in [Threads -> Places] /\ call' \in [Threads -> CallType]
      /\ \A u \in Threads \ {t} : pc'[u] = pc[u] /\ call'[u] = call[u]
      /\ pc'[t] \in {"ended", "idle"}
  BY <1>1, NoCallTyped DEF IInv, Shapes, Places
<1> QED
  BY <1>1, <1>2, QuietIInv DEF Quiet

LEMMA PerformStep ==
    ASSUME IInv, NEW a \in InsertIds, Perform(a)
    PROVE  IInv'
<1> USE DEF IInv
<1>1. /\ wire[a] # <<>> /\ wire' = [wire EXCEPT ![a] = Tail(@)]
      /\ stored' = stored \cup {Head(wire[a])} \/ UNCHANGED stored
      /\ UNCHANGED <<registry, backend, pc, call, index, late>>
  BY DEF Perform
<1>2. wire[a] \in Seq(CommandType)
  BY DEF CommandsProper
<1>3. Head(wire[a]) \in CommandType /\ Tail(wire[a]) \in Seq(CommandType)
  BY <1>1, <1>2
<1>4. CommandsProper'
  BY <1>1, <1>3 DEF CommandsProper
<1>5. (Shapes /\ Calling /\ MakesUnderLock /\ RacesOutsideLock /\ Indexed)'
  BY <1>1 DEF Shapes, Calling, MakesUnderLock, RacesOutsideLock, Indexed
<1> QED
  BY <1>4, <1>5

-----------------------------------------------------------------------------
(***************************************************************************)
(* The theorems.                                                           *)
(***************************************************************************)
LEMMA NextStep == IInv /\ [Next]_allVars => IInv'
<1> SUFFICES ASSUME IInv, [Next]_allVars PROVE IInv'
  OBVIOUS
<1>1. ASSUME NEW t \in Threads, Call(t) PROVE IInv'
  BY <1>1, MakeStep, CallInsertStep, CallQueryStep, CallCloseStep DEF Call
<1>2. ASSUME NEW t \in Threads, Step(t) PROVE IInv'
  BY <1>2, LockRegistryStep, FtInfoStep, FtCreateStep, BuildStep, LeaveStep DEF Step
<1>3. ASSUME NEW t \in Threads, Observe(t) PROVE IInv'
  BY <1>3, LeaveStep
<1>4. ASSUME NEW t \in Threads, Reset(t) PROVE IInv'
  BY <1>4, Stutter DEF Reset
<1>5. ASSUME NEW a \in InsertIds, Perform(a) PROVE IInv'
  BY <1>5, PerformStep
<1>6. ASSUME NEW m \in Unawaited, CreateLate(m) PROVE IInv'
  BY <1>6, CreateLateStep
<1>7. ASSUME UNCHANGED allVars PROVE IInv'
  BY <1>7, Stutter DEF allVars
<1> QED
  BY <1>1, <1>2, <1>3, <1>4, <1>5, <1>6, <1>7 DEF Next, Invoke

(***************************************************************************)
(* The invariant that the other theorems follow from: a constructor runs   *)
(* under its registry's mutex, a backend has an index, and what is sent or *)
(* stored is as the configuration of its backend wants it.                 *)
(***************************************************************************)
THEOREM Inductive == Spec => []IInv
BY Initially, NextStep, PTL DEF Spec

(***************************************************************************)
(* A constructor that has missed the index and finds it in its way has     *)
(* lost to another process or to an FT.CREATE that was done when its       *)
(* sender had given up (Registry::make, registry.cpp:43; ensure_index,     *)
(* redis_backend.cpp:189).                                                 *)
(***************************************************************************)
THEOREM LockKeepsRacesOut == Spec => []RacesOutsideLock
BY Inductive, PTL DEF IInv

(***************************************************************************)
(* Every backend has an index, and every document that is stored is        *)
(* covered by it unless the index was made for another dimension or prefix *)
(* (ensure_index and insert, redis_backend.cpp:46 and :159).               *)
(***************************************************************************)
THEOREM StoredIsSearchable == Spec => []Searchable
<1>1. IInv => Searchable
  <2> SUFFICES ASSUME IInv, NEW d \in stored,
                      index[d.cfg.index].dim = d.cfg.dim,
                      index[d.cfg.index].prefix = d.cfg.prefix
               PROVE  d \in Covered(d.cfg.index)
    BY DEF Searchable, IInv, Indexed
  <2>1. d.key = d.cfg.prefix /\ d.dim = d.cfg.dim /\ d.key \in Seq(Nat)
    BY DEF IInv, CommandsProper, CommandType
  <2>2. IsPrefix(d.key, d.key)
    <3>1. Len(d.key) \in Nat
      BY <2>1
    <3> QED
      BY <3>1 DEF IsPrefix
  <2> QED
    BY <2>1, <2>2 DEF Covered, Covers
<1> QED
  BY <1>1, Inductive, PTL
=============================================================================
