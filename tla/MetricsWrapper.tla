--------------------------- MODULE MetricsWrapper ----------------------------
(***************************************************************************)
(* vdb::wrappers::MetricsWrapper over the backends of RedisBackend: every  *)
(* insert, query and close of a backend is made through `measure`, which   *)
(* calls the backend without a lock and then counts the call, and whether  *)
(* it threw, in stats_ under mtx_, which snapshot and reset lock as well,  *)
(* so that each is one step.  Times are left out.                          *)
(***************************************************************************)
EXTENDS RedisBackend

VARIABLES
    stats,  \* stats[b][m]: the CallStats of method m of the wrapper of b
    ended   \* history: ended[b][m], the calls that have ended since the reset

metrics == <<stats, ended>>
allVars == <<vars, metrics>>

Methods == {"insert", "query", "close"}
CallStats == [m \in Methods |-> [calls |-> 0, errors |-> 0]]
Outcomes == {"ok", "threw"}
Nothing == [m \in Methods |-> [how \in Outcomes |-> 0]]

MetricsInit ==
    /\ Init
    /\ stats = [b \in Threads |-> CallStats]
    /\ ended = [b \in Threads |-> Nothing]

\* The calls to b's method m that have ended like this and are not yet counted.
Uncounted(b, m, how) ==
    {t \in Threads : pc[t] = "ended" /\ call[t].on = b /\ call[t].fn = m /\ outcome[t] = how}

-----------------------------------------------------------------------------
\* measure calls the backend; a step that ends the call is remembered.
Invoke(t) ==
    /\ Call(t) \/ Step(t)
    /\ ended' = IF pc'[t] = "ended"
                  THEN [ended EXCEPT ![call'[t].on][call'[t].fn][outcome'[t]] = @ + 1]
                  ELSE ended
    /\ UNCHANGED stats

\* Mutant of Observe: the catch clause forgets `ok = false`.
ObserveOk(t) ==
    /\ pc[t] = "ended"
    /\ stats' = [stats EXCEPT ![call[t].on][call[t].fn].calls = @ + 1]
    /\ Idle(t)
    /\ UNCHANGED <<registry, backend, calls, dead, server, ended>>

\* Whether the call returned or threw, measure locks mtx_ and calls observe.
Observe(t) ==
    /\ pc[t] = "ended"
    /\ stats' = [stats EXCEPT ![call[t].on][call[t].fn] =
                    [calls |-> @.calls + 1, errors |-> @.errors + (IF outcome[t] = "ok" THEN 0 ELSE 1)]]
    /\ Idle(t)
    /\ UNCHANGED <<registry, backend, calls, dead, server, ended>>

\* reset()
Reset(t) ==
    \E b \in Usable(t) :
        /\ Alive(t) /\ pc[t] = "idle"
        /\ stats' = [stats EXCEPT ![b] = CallStats]
        /\ ended' = [ended EXCEPT ![b] =
                       [m \in Methods |-> [how \in Outcomes |-> Cardinality(Uncounted(b, m, how))]]]
        /\ UNCHANGED vars

Next ==
    \/ \E t \in Threads : Invoke(t) \/ (Alive(t) /\ Observe(t)) \/ Reset(t)
    \/ \E a \in InsertIds : Perform(a) /\ UNCHANGED metrics
    \/ \E m \in Unawaited : CreateLate(m) /\ UNCHANGED metrics

Spec == MetricsInit /\ [][Next]_allVars

-----------------------------------------------------------------------------
TypeOK ==
    /\ registry \in [Processes -> Threads \cup {NoThread}]
    /\ backend \in [Threads -> [cfg : Configs \cup {NoConfig}, open : BOOLEAN]]
    /\ pc \in [Threads -> {"idle", "make", "info", "create", "pipeline",
                           "replies", "answer", "ended"}]
    /\ outcome \in [Threads -> {"none", "ok", "threw"}]
    /\ dead \subseteq Processes
    /\ late \subseteq [cfg : Configs, by : Threads]
    /\ \A d \in stored :
          d.cfg \in Configs /\ d.id[1] \in InsertIds /\ d.id[2] \in 1..inserts[d.id[1]].size
    /\ stats \in [Threads -> [Methods -> [calls : Nat, errors : Nat]]]

(***************************************************************************)
(* What make's mutex is worth: a constructor that has not found the index  *)
(* and then finds it in the way ("FT.CREATE falhou") has lost to something *)
(* that the mutex cannot keep out, a thread of another process or an       *)
(* FT.CREATE that the server has done after its sender had given up (and   *)
(* let go of the mutex).  Threads of its process that are answered never   *)
(* come between.                                                           *)
(***************************************************************************)
RacesOutsideLock ==
    \A t \in Threads :
        LET found == index[call[t].cfg.index] IN
        pc[t] = "create" /\ call[t].saw = "absent" /\ found # NoIndex =>
            found.late \/ ProcessOf[found.by] # ProcessOf[t]

(***************************************************************************)
(* A document that a backend has stored is covered by the backend's index, *)
(* unless an index of that name was there before with another dimension or *)
(* another prefix, which the constructor does not notice.                  *)
(***************************************************************************)
Searchable ==
    /\ \A t \in Threads : backend[t] # NoBackend => index[backend[t].cfg.index] # NoIndex
    /\ \A d \in stored :
          LET n == d.cfg.index IN
          index[n].dim = d.cfg.dim /\ index[n].prefix = d.cfg.prefix => d \in Covered(n)

(***************************************************************************)
(* "Collects usage statistics (count, errors, latency) ... Fully thread-   *)
(* safe": whenever a snapshot can be taken, stats_ has every call that has *)
(* ended since the reset, whichever way it ended, except those whose       *)
(* threads are about to count them.                                        *)
(***************************************************************************)
StatsExact ==
    \A b \in Threads, m \in Methods :
        LET threw == ended[b][m]["threw"] - Cardinality(Uncounted(b, m, "threw"))
            ok == ended[b][m]["ok"] - Cardinality(Uncounted(b, m, "ok"))
        IN  stats[b][m] = [calls |-> ok + threw, errors |-> threw]

(***************************************************************************)
(* insert keeps what VectorSpec promises: a rejected call stores nothing,  *)
(* now or later; a call that returns has passed on every document.         *)
(***************************************************************************)
Promised == INSTANCE VectorSpec WITH
    Inserts <- InsertIds,
    size <- [a \in InsertIds |-> inserts[a].size],
    status <- [a \in InsertIds |-> inserts[a].status],
    held <- {d.id : d \in stored}
ImplementsVectorSpec == Promised!Spec
=============================================================================
