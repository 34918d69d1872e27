--------------------------- MODULE MetricsProofs -----------------------------
(***************************************************************************)
(* Proofs about insert and about the statistics of MetricsWrapper: what    *)
(* has been stored is what a call of insert was given, insert implements   *)
(* VectorSpec, and the counts are those of the calls that have ended, for  *)
(* any number of threads, processes, documents and calls.                  *)
(***************************************************************************)
EXTENDS VectorProofs, FiniteSetTheorems

-----------------------------------------------------------------------------
(***************************************************************************)
(* The inductive invariant, over that of VectorProofs.                     *)
(***************************************************************************)
Statuses == {"none", "open", "returned", "rejected", "failed"}

\* The documents that have reached the server.
Given == {d.id : d \in stored} \cup refused

\* Nothing of insert a has reached the server, or is on the way there.
Untouched(a) == wire[a] = <<>> /\ \A p \in Given : p[1] # a

\* The first n documents of insert a have reached the server, and no others;
\* the rest is on the wire, in order.
PassedUpTo(a, n) ==
    /\ \A p \in Given : p[1] = a => p[2] \in 1..n
    /\ \A i \in 1..n : <<a, i>> \in Given
    /\ Len(wire[a]) = inserts[a].size - n
    /\ \A i \in 1..Len(wire[a]) : wire[a][i].id = <<a, n + i>>
Passing(a) == \E n \in 0..inserts[a].size : PassedUpTo(a, n)

\* A call of a backend knows the backend, and how it has ended.
Callers ==
    /\ outcome \in [Threads -> {"none", "ok", "threw"}]
    /\ dead \subseteq Processes
    /\ \A t \in Threads : pc[t] \in {"pipeline", "replies"} =>
          /\ call[t].fn = "insert" /\ call[t].a \in InsertIds
          /\ call[t].on \in Threads /\ backend[call[t].on].cfg \in Configs
    /\ \A t \in Threads : pc[t] = "answer" => call[t].fn = "query" /\ call[t].on \in Threads
    /\ \A t \in Threads : pc[t] = "ended" =>
          call[t].fn \in Methods /\ call[t].on \in Threads /\ outcome[t] \in Outcomes

\* Before it is sent an insert has stored nothing, and never when it is rejected.
InsertsInOrder ==
    /\ inserts \in [InsertIds -> [size : Nat, status : Statuses]]
    /\ refused \subseteq InsertIds \X Nat
    /\ \A a \in InsertIds :
          /\ inserts[a].status \in {"none", "rejected"} => Untouched(a)
          /\ inserts[a].status = "open" => Untouched(a) \/ Passing(a)
          /\ inserts[a].status \in {"returned", "failed"} => Passing(a)
          /\ inserts[a].status = "returned" => wire[a] = <<>>

\* An open insert has one thread, which has sent nothing or everything.
Sending(t) == pc[t] \in {"pipeline", "replies"}
OneSenderEach ==
    /\ \A t \in Threads : Sending(t) => inserts[call[t].a].status = "open"
    /\ \A t \in Threads : pc[t] = "pipeline" =>
          Untouched(call[t].a) /\ inserts[call[t].a].size = Len(call[t].docs)
    /\ \A t \in Threads : pc[t] = "replies" => Passing(call[t].a)
    /\ \A t, u \in Threads : Sending(t) /\ Sending(u) /\ t # u => call[t].a # call[u].a

\* What is sent and what is stored come from a backend that has been made.
FromBackends ==
    /\ \A d \in stored : d.cfg \in Configs
    /\ \A a \in InsertIds : \A i \in 1..Len(wire[a]) : wire[a][i].cfg \in Configs

Counters ==
    /\ stats \in [Threads -> [Methods -> [calls : Nat, errors : Nat]]]
    /\ ended \in [Threads -> [Methods -> [Outcomes -> Nat]]]
    /\ StatsExact

Server == InsertsInOrder /\ OneSenderEach /\ FromBackends
MInv == Callers /\ Server /\ Counters

-----------------------------------------------------------------------------
LEMMA MInitially == MetricsInit => MInv
<1> SUFFICES ASSUME MetricsInit PROVE MInv
  OBVIOUS
<1> USE DEF MetricsInit, Init
<1>1. Callers
  BY DEF Callers
<1>2. Given = {}
  BY DEF Given
<1>3. \A a \in InsertIds : Untouched(a) /\ inserts[a].status = "none" /\ wire[a] = <<>>
  BY <1>2 DEF Untouched
<1>4. InsertsInOrder
  <2>1. inserts \in [InsertIds -> [size : Nat, status : Statuses]]
    BY DEF Statuses
  <2> QED
    BY <1>3, <2>1 DEF InsertsInOrder
<1>5. OneSenderEach /\ FromBackends
  BY <1>3 DEF OneSenderEach, Sending, FromBackends
<1>6. Counters
  <2>1. \A b \in Threads : \A m \in Methods : \A how \in Outcomes : Uncounted(b, m, how) = {}
    BY DEF Uncounted
  <2>2. stats \in [Threads -> [Methods -> [calls : Nat, errors : Nat]]]
    BY DEF CallStats
  <2>3. ended \in [Threads -> [Methods -> [Outcomes -> Nat]]]
    BY DEF Nothing
  <2>4. ASSUME NEW b \in Threads, NEW m \in Methods
        PROVE  /\ stats[b][m] = [calls |-> 0, errors |-> 0]
               /\ ended[b][m]["ok"] = 0 /\ ended[b][m]["threw"] = 0
    BY DEF CallStats, Nothing, Outcomes
  <2>5. StatsExact
    <3> SUFFICES ASSUME NEW b \in Threads, NEW m \in Methods
                 PROVE  stats[b][m] = [calls |-> (ended[b][m]["ok"] - Cardinality(Uncounted(b, m, "ok")))
                                                 + (ended[b][m]["threw"] - Cardinality(Uncounted(b, m, "threw"))),
                                       errors |-> ended[b][m]["threw"] - Cardinality(Uncounted(b, m, "threw"))]
      BY DEF StatsExact
    <3>1. Cardinality(Uncounted(b, m, "ok")) = 0 /\ Cardinality(Uncounted(b, m, "threw")) = 0
      BY <2>1, FS_EmptySet DEF Outcomes
    <3> QED
      BY <2>4, <3>1
  <2> QED
    BY <2>2, <2>3, <2>5 DEF Counters
<1> QED
  BY <1>1, <1>4, <1>5, <1>6 DEF MInv, Server

-----------------------------------------------------------------------------
(***************************************************************************)
(* The statistics.                                                         *)
(***************************************************************************)

\* The equation of StatsExact, for one method.
Exact(b, m) ==
    stats[b][m] = [calls |-> (ended[b][m]["ok"] - Cardinality(Uncounted(b, m, "ok")))
                             + (ended[b][m]["threw"] - Cardinality(Uncounted(b, m, "threw"))),
                   errors |-> ended[b][m]["threw"] - Cardinality(Uncounted(b, m, "threw"))]

LEMMA ExactEach == StatsExact <=> \A b \in Threads, m \in Methods : Exact(b, m)
BY DEF StatsExact, Exact

LEMMA UncountedFinite ==
    ASSUME NEW b, NEW m, NEW how
    PROVE  IsFiniteSet(Uncounted(b, m, how)) /\ Cardinality(Uncounted(b, m, how)) \in Nat
<1>1. Uncounted(b, m, how) \subseteq Threads /\ IsFiniteSet(Threads)
  BY BackendAssumption DEF Uncounted
<1> QED
  BY <1>1, FS_Subset, FS_CardinalityType

\* Nothing ends and nothing is counted.
LEMMA CountersKept ==
    ASSUME IInv, Counters, NEW t \in Threads, UNCHANGED metrics,
           \A u \in Threads \ {t} : pc'[u] = pc[u] /\ call'[u] = call[u] /\ outcome'[u] = outcome[u],
           pc[t] # "ended", pc'[t] # "ended"
    PROVE  Counters'
<1>1. \A b, m, how : Uncounted(b, m, how)' = Uncounted(b, m, how)
  BY DEF Uncounted
<1> QED
  BY <1>1 DEF Counters, StatsExact, metrics

\* A call ends.
LEMMA CountersEnded ==
    ASSUME IInv, Counters, NEW t \in Threads, UNCHANGED stats,
           \A u \in Threads \ {t} : pc'[u] = pc[u] /\ call'[u] = call[u] /\ outcome'[u] = outcome[u],
           pc[t] # "ended", pc'[t] = "ended",
           call'[t].on \in Threads, call'[t].fn \in Methods, outcome'[t] \in Outcomes,
           ended' = [ended EXCEPT ![call'[t].on][call'[t].fn][outcome'[t]] = @ + 1]
    PROVE  Counters'
<1>1. PICK on \in Threads, fn \in Methods, end \in Outcomes :
         on = call'[t].on /\ fn = call'[t].fn /\ end = outcome'[t]
  OBVIOUS
<1>2. ended' = [ended EXCEPT ![on][fn][end] = @ + 1]
  BY <1>1
<1>3. ended \in [Threads -> [Methods -> [Outcomes -> Nat]]]
  BY DEF Counters
<1>4. \A b \in Threads, m \in Methods, how \in Outcomes :
         /\ ended[b][m][how] \in Nat
         /\ ended'[b][m][how] = ended[b][m][how] + (IF b = on /\ m = fn /\ how = end THEN 1 ELSE 0)
  BY <1>2, <1>3
<1>5. ended' \in [Threads -> [Methods -> [Outcomes -> Nat]]]
  BY <1>2, <1>3
<1>6. ASSUME NEW b \in Threads, NEW m \in Methods, NEW how \in Outcomes
      PROVE  Cardinality(Uncounted(b, m, how)') =
                Cardinality(Uncounted(b, m, how)) + (IF b = on /\ m = fn /\ how = end THEN 1 ELSE 0)
  <2>1. CASE b = on /\ m = fn /\ how = end
    <3>1. Uncounted(b, m, how)' = Uncounted(b, m, how) \cup {t} /\ t \notin Uncounted(b, m, how)
      BY <1>1, <2>1 DEF Uncounted
    <3>2. PICK S : S = Uncounted(b, m, how)
      OBVIOUS
    <3>3. Uncounted(b, m, how)' = S \cup {t} /\ t \notin S /\ IsFiniteSet(S)
      BY <3>1, <3>2, UncountedFinite
    <3>4. Cardinality(S \cup {t}) = Cardinality(S) + 1
      BY <3>3, FS_AddElement
    <3> QED
      BY <2>1, <3>2, <3>3, <3>4
  <2>2. CASE ~(b = on /\ m = fn /\ how = end)
    <3>1. Uncounted(b, m, how)' = Uncounted(b, m, how)
      BY <1>1, <2>2 DEF Uncounted
    <3> QED
      BY <2>2, <3>1, UncountedFinite
  <2> QED
    BY <2>1, <2>2
<1>7. ASSUME NEW b \in Threads, NEW m \in Methods
      PROVE  Exact(b, m)'
  <2>1. Exact(b, m)
    BY ExactEach DEF Counters
  <2>2. \A how \in Outcomes :
           /\ Cardinality(Uncounted(b, m, how)) \in Nat
           /\ ended'[b][m][how] - Cardinality(Uncounted(b, m, how)') =
                 ended[b][m][how] - Cardinality(Uncounted(b, m, how))
    BY <1>4, <1>6, UncountedFinite
  <2> QED
    BY <2>1, <2>2 DEF Exact, Outcomes
<1>8. StatsExact'
  BY <1>7 DEF StatsExact, Exact
<1> QED
  BY <1>5, <1>8 DEF Counters

\* observe: the call that has ended is counted.
LEMMA CountersObserved ==
    ASSUME IInv, Callers, Counters, NEW t \in Threads, Observe(t)
    PROVE  Counters'
<1>1. PICK on \in Threads, fn \in Methods, end \in Outcomes :
         on = call[t].on /\ fn = call[t].fn /\ end = outcome[t]
  BY DEF Observe, Callers
<1> DEFINE one == IF end = "ok" THEN 0 ELSE 1
<1>2. stats' = [stats EXCEPT ![on][fn] = [calls |-> @.calls + 1, errors |-> @.errors + one]]
  BY <1>1 DEF Observe
<1>3. pc[t] = "ended" /\ UNCHANGED ended /\ pc'[t] = "idle"
      /\ \A u \in Threads \ {t} : pc'[u] = pc[u] /\ call'[u] = call[u] /\ outcome'[u] = outcome[u]
  BY DEF Observe, Idle, Goto, IInv, Shapes, Callers
<1>4. /\ stats \in [Threads -> [Methods -> [calls : Nat, errors : Nat]]]
      /\ ended \in [Threads -> [Methods -> [Outcomes -> Nat]]]
  BY DEF Counters
<1>5. one \in Nat
  OBVIOUS
<1>6. PICK old \in [calls : Nat, errors : Nat] : old = stats[on][fn]
  BY <1>4
<1>7. stats' = [stats EXCEPT ![on][fn] = [calls |-> old.calls + 1, errors |-> old.errors + one]]
  BY <1>2, <1>6
<1>8. [calls |-> old.calls + 1, errors |-> old.errors + one] \in [calls : Nat, errors : Nat]
  BY <1>5
<1>9. stats' \in [Threads -> [Methods -> [calls : Nat, errors : Nat]]]
  BY <1>4, <1>7, <1>8
<1>10. \A b \in Threads, m \in Methods :
         stats'[b][m] = IF b = on /\ m = fn THEN [calls |-> old.calls + 1, errors |-> old.errors + one]
                                            ELSE stats[b][m]
  BY <1>4, <1>7
<1>11. ASSUME NEW b \in Threads, NEW m \in Methods, NEW how \in Outcomes
       PROVE  Cardinality(Uncounted(b, m, how)') =
                Cardinality(Uncounted(b, m, how)) - (IF b = on /\ m = fn /\ how = end THEN 1 ELSE 0)
  <2>1. CASE b = on /\ m = fn /\ how = end
    <3>1. Uncounted(b, m, how)' = Uncounted(b, m, how) \ {t} /\ t \in Uncounted(b, m, how)
      BY <1>1, <1>3, <2>1 DEF Uncounted
    <3>2. PICK S : S = Uncounted(b, m, how)
      OBVIOUS
    <3>3. Uncounted(b, m, how)' = S \ {t} /\ t \in S /\ IsFiniteSet(S)
      BY <3>1, <3>2, UncountedFinite
    <3>4. Cardinality(S \ {t}) = Cardinality(S) - 1
      BY <3>3, FS_RemoveElement
    <3> QED
      BY <2>1, <3>2, <3>3, <3>4
  <2>2. CASE ~(b = on /\ m = fn /\ how = end)
    <3>1. Uncounted(b, m, how)' = Uncounted(b, m, how)
      BY <1>1, <1>3, <2>2 DEF Uncounted
    <3> QED
      BY <2>2, <3>1, UncountedFinite
  <2> QED
    BY <2>1, <2>2
<1>12. ASSUME NEW b \in Threads, NEW m \in Methods
       PROVE  Exact(b, m)'
  <2>1. Exact(b, m)
    BY ExactEach DEF Counters
  <2>2. PICK ok \in Nat, threw \in Nat :
           ok = Cardinality(Uncounted(b, m, "ok")) /\ threw = Cardinality(Uncounted(b, m, "threw"))
    BY UncountedFinite
  <2>3. PICK eok \in Nat, ethrew \in Nat : eok = ended[b][m]["ok"] /\ ethrew = ended[b][m]["threw"]
    BY <1>4 DEF Outcomes
  <2>4. stats[b][m] = [calls |-> (eok - ok) + (ethrew - threw), errors |-> ethrew - threw]
    BY <2>1, <2>2, <2>3 DEF Exact
  <2>5. CASE b = on /\ m = fn
    <3>1. old.calls = (eok - ok) + (ethrew - threw) /\ old.errors = ethrew - threw
      BY <1>6, <2>4, <2>5
    <3>2. /\ Cardinality(Uncounted(b, m, "ok")') = ok - (IF end = "ok" THEN 1 ELSE 0)
          /\ Cardinality(Uncounted(b, m, "threw")') = threw - (IF end = "threw" THEN 1 ELSE 0)
      BY <1>11, <2>2, <2>5 DEF Outcomes
    <3>3. end = "ok" \/ end = "threw"
      BY DEF Outcomes
    <3>4. stats'[b][m] = [calls |-> old.calls + 1, errors |-> old.errors + one]
      BY <1>10, <2>5
    <3>5. ended'[b][m]["ok"] = eok /\ ended'[b][m]["threw"] = ethrew
      BY <1>3, <2>3
    <3>6. old.calls + 1 = (eok - (ok - (IF end = "ok" THEN 1 ELSE 0)))
                          + (ethrew - (threw - (IF end = "threw" THEN 1 ELSE 0)))
      BY <3>1, <3>3
    <3>7. old.errors + one = ethrew - (threw - (IF end = "threw" THEN 1 ELSE 0))
      BY <3>1, <3>3
    <3> HIDE DEF one
    <3> QED
      BY <3>2, <3>4, <3>5, <3>6, <3>7 DEF Exact
  <2>6. CASE ~(b = on /\ m = fn)
    <3>1. /\ Cardinality(Uncounted(b, m, "ok")') = ok
          /\ Cardinality(Uncounted(b, m, "threw")') = threw
      BY <1>11, <2>2, <2>6 DEF Outcomes
    <3>2. stats'[b][m] = stats[b][m]
      BY <1>10, <2>6
    <3> QED
      BY <1>3, <2>3, <2>4, <3>1, <3>2 DEF Exact
  <2> QED
    BY <2>5, <2>6
<1>13. StatsExact'
  BY <1>12 DEF StatsExact, Exact
<1>14. ended' \in [Threads -> [Methods -> [Outcomes -> Nat]]]
  BY <1>3, <1>4
<1> QED
  BY <1>9, <1>13, <1>14 DEF Counters

\* reset: what is left is what has ended and is not counted.
LEMMA CountersReset ==
    ASSUME Counters, NEW t \in Threads, Reset(t)
    PROVE  Counters'
<1>1. PICK b \in Threads :
         /\ stats' = [stats EXCEPT ![b] = CallStats]
         /\ ended' = [ended EXCEPT ![b] =
                        [m \in Methods |-> [how \in Outcomes |-> Cardinality(Uncounted(b, m, how))]]]
         /\ UNCHANGED vars
  BY DEF Reset, Usable
<1>2. \A c, m, how : Uncounted(c, m, how)' = Uncounted(c, m, how)
  BY <1>1 DEF Uncounted, vars
<1>3. /\ stats \in [Threads -> [Methods -> [calls : Nat, errors : Nat]]]
      /\ ended \in [Threads -> [Methods -> [Outcomes -> Nat]]]
  BY DEF Counters
<1>4. CallStats \in [Methods -> [calls : Nat, errors : Nat]]
  BY DEF CallStats
<1>5. [m \in Methods |-> [how \in Outcomes |-> Cardinality(Uncounted(b, m, how))]]
         \in [Methods -> [Outcomes -> Nat]]
  BY UncountedFinite
<1>6. /\ stats' \in [Threads -> [Methods -> [calls : Nat, errors : Nat]]]
      /\ ended' \in [Threads -> [Methods -> [Outcomes -> Nat]]]
  BY <1>1, <1>3, <1>4, <1>5
<1>7. ASSUME NEW c \in Threads, NEW m \in Methods
      PROVE  Exact(c, m)'
  <2>1. CASE c = b
    <3>1. stats'[c][m] = [calls |-> 0, errors |-> 0]
      BY <1>1, <1>3, <2>1 DEF CallStats
    <3>2. \A how \in Outcomes : ended'[c][m][how] = Cardinality(Uncounted(c, m, how))
      BY <1>1, <1>3, <2>1
    <3> QED
      BY <1>2, <3>1, <3>2, UncountedFinite DEF Exact, Outcomes
  <2>2. CASE c # b
    <3>1. stats'[c] = stats[c] /\ ended'[c] = ended[c]
      BY <1>1, <1>3, <2>2
    <3>2. Exact(c, m)
      BY ExactEach DEF Counters
    <3> QED
      BY <1>2, <3>1, <3>2 DEF Exact
  <2> QED
    BY <2>1, <2>2
<1> QED
  BY <1>6, <1>7 DEF Counters, StatsExact, Exact

-----------------------------------------------------------------------------
(***************************************************************************)
(* The calls.                                                              *)
(***************************************************************************)

\* What thread t alone has changed.
OnlyOf(t) ==
    \A u \in Threads \ {t} : pc'[u] = pc[u] /\ call'[u] = call[u] /\ outcome'[u] = outcome[u]

\* No backend is unmade.
BackendsStay == \A b \in Threads : backend[b].cfg \in Configs => backend'[b].cfg \in Configs

\* What holds of insert e depends on its commands and on what has been given of it.
LEMMA InsertKept ==
    ASSUME NEW e \in InsertIds, wire'[e] = wire[e], inserts'[e].size = inserts[e].size,
           \A p : p[1] = e => (p \in Given' <=> p \in Given)
    PROVE  (Untouched(e) => Untouched(e)') /\ (Passing(e) => Passing(e)')
<1>1. Untouched(e) => Untouched(e)'
  BY DEF Untouched
<1>2. ASSUME NEW n \in 0..inserts[e].size, PassedUpTo(e, n)
      PROVE  PassedUpTo(e, n)'
  <2>1. \A i \in 1..n : <<e, i>> \in Given'
    BY <1>2 DEF PassedUpTo
  <2>2. \A p \in Given' : p[1] = e => p[2] \in 1..n
    BY <1>2 DEF PassedUpTo
  <2> QED
    BY <1>2, <2>1, <2>2 DEF PassedUpTo
<1> QED
  BY <1>1, <1>2 DEF Passing

\* A step of a thread that sends nothing.
LEMMA OthersStep ==
    ASSUME IInv, Callers, Server, NEW t \in Threads, OnlyOf(t), BackendsStay,
           UNCHANGED <<stored, wire, inserts, refused>>,
           outcome' \in [Threads -> {"none", "ok", "threw"}], dead' \subseteq Processes,
           ~Sending(t)' \/ (pc'[t] = pc[t] /\ call'[t] = call[t]),
           pc'[t] = "answer" => call'[t].fn = "query" /\ call'[t].on \in Threads,
           pc'[t] = "ended" =>
              call'[t].fn \in Methods /\ call'[t].on \in Threads /\ outcome'[t] \in Outcomes
    PROVE  Callers' /\ Server'
<1>1. Callers'
  BY DEF Callers, OnlyOf, BackendsStay, Sending
<1>2. \A e \in InsertIds : (Untouched(e) => Untouched(e)') /\ (Passing(e) => Passing(e)')
  BY DEF Untouched, Passing, PassedUpTo, Given
<1>3. InsertsInOrder'
  BY <1>2 DEF Server, InsertsInOrder
<1>4. OneSenderEach'
  <2>1. \A u \in Threads : Sending(u)' => Sending(u) /\ pc'[u] = pc[u] /\ call'[u] = call[u]
                                          /\ call[u].a \in InsertIds
    BY DEF OnlyOf, Sending, Callers
  <2> QED
    BY <1>2, <2>1 DEF Server, OneSenderEach, Sending
<1>5. FromBackends'
  BY DEF Server, FromBackends
<1> QED
  BY <1>1, <1>3, <1>4, <1>5 DEF Server

LEMMA ConstructorStep ==
    ASSUME IInv, Callers, Server, NEW t \in Threads,
           Make(t) \/ LockRegistry(t) \/ FtInfo(t) \/ FtCreate(t)
    PROVE  /\ Callers' /\ Server' /\ OnlyOf(t)
           /\ pc[t] # "ended" /\ pc'[t] # "ended"
<1> USE DEF IInv
<1>1. /\ pc[t] \in {"idle", "make", "info", "create"}
      /\ \E to \in {"idle", "make", "info", "create"} : pc' = [pc EXCEPT ![t] = to]
      /\ \E c : call' = [call EXCEPT ![t] = c] \/ call' = call
      /\ outcome' = [outcome EXCEPT ![t] = "none"] \/ outcome' = outcome
      /\ UNCHANGED <<dead, stored, wire, inserts, refused>>
  BY DEF Make, LockRegistry, FtInfo, FtCreate, Made, Idle, Goto, Enter, server
<1>2. pc'[t] \in {"idle", "make", "info", "create"} /\ OnlyOf(t)
  BY <1>1 DEF OnlyOf, Shapes, Callers
<1>3. outcome' \in [Threads -> {"none", "ok", "threw"}] /\ dead' \subseteq Processes
  BY <1>1 DEF Callers
<1>4. backend' = backend \/ backend' = [backend EXCEPT ![t] = [cfg |-> call[t].cfg, open |-> TRUE]]
  BY DEF Make, LockRegistry, FtInfo, FtCreate, Made
<1>5. BackendsStay
  <2>1. backend' # backend => pc[t] \in {"info", "create"}
    BY DEF Make, LockRegistry, FtInfo, FtCreate
  <2>2. backend' # backend => call[t].cfg \in Configs
    BY <2>1 DEF Calling
  <2> QED
    BY <1>4, <2>2 DEF BackendsStay, Shapes
<1>6. ~Sending(t)'
  BY <1>2 DEF Sending
<1>7. Callers' /\ Server'
  BY <1>1, <1>2, <1>3, <1>5, <1>6, OthersStep
<1> QED
  BY <1>1, <1>2, <1>7

\* How a call of a backend is entered, with its function.
LEMMA EnteredCall ==
    ASSUME IInv, NEW t \in Threads, NEW fn \in {"insert", "query", "close"},
           NEW p \in CallType, Enter(t, fn, p)
    PROVE  /\ pc[t] = "idle"
           /\ \A u \in Threads \ {t} : call'[u] = call[u]
           /\ call'[t].fn = fn /\ call'[t].on = p.on /\ call'[t].a = p.a /\ call'[t].docs = p.docs
<1> DEFINE entered == [p EXCEPT !.fn = fn]
<1>1. /\ entered.fn = fn /\ entered.on = p.on /\ entered.a = p.a /\ entered.docs = p.docs
  BY DEF CallType
<1>2. pc[t] = "idle" /\ call' = [call EXCEPT ![t] = entered]
  BY DEF Enter
<1> QED
  BY <1>1, <1>2 DEF IInv, Shapes

LEMMA QueryStep ==
    ASSUME IInv, Callers, Server, NEW t \in Threads, CallQuery(t)
    PROVE  /\ Callers' /\ Server' /\ OnlyOf(t)
           /\ pc[t] # "ended"
<1> USE DEF IInv
<1>1. PICK b \in Usable(t) :
         /\ Enter(t, "query", [NoCall EXCEPT !.on = b])
         /\ \/ End(t, "threw") /\ UNCHANGED dead
            \/ Goto(t, "answer") /\ UNCHANGED <<outcome, dead>>
            \/ Undefined(t)
         /\ UNCHANGED <<backend, stored, wire, inserts, refused>>
  BY DEF CallQuery, server
<1>2. b \in Threads /\ [NoCall EXCEPT !.on = b] \in CallType /\ [NoCall EXCEPT !.on = b].on = b
  BY OnTyped, NoCallTyped DEF Usable, CallType
<1>3. /\ pc[t] = "idle" /\ \A u \in Threads \ {t} : call'[u] = call[u]
      /\ call'[t].fn = "query" /\ call'[t].on = b
  BY <1>1, <1>2, EnteredCall
<1>4. /\ dead' \subseteq Processes
      /\ \/ pc' = pc /\ outcome' = outcome
         \/ pc' = [pc EXCEPT ![t] = "answer"] /\ outcome' = outcome
         \/ pc' = [pc EXCEPT ![t] = "ended"] /\ outcome' = [outcome EXCEPT ![t] = "threw"]
  BY <1>1, BackendAssumption DEF End, Goto, Undefined, Callers
<1>5. /\ OnlyOf(t) /\ outcome' \in [Threads -> {"none", "ok", "threw"}]
      /\ pc'[t] \in {"idle", "answer", "ended"} /\ (pc'[t] = "ended" => outcome'[t] = "threw")
  BY <1>3, <1>4 DEF OnlyOf, Shapes, Callers
<1>6. BackendsStay /\ ~Sending(t)'
  BY <1>1, <1>5 DEF BackendsStay, Sending
<1>7. "query" \in Methods /\ "threw" \in Outcomes
  BY DEF Methods, Outcomes
<1>8. Callers' /\ Server'
  BY <1>1, <1>2, <1>3, <1>4, <1>5, <1>6, <1>7, OthersStep
<1> QED
  BY <1>3, <1>5, <1>8

LEMMA CloseStep ==
    ASSUME IInv, Callers, Server, NEW t \in Threads, CallClose(t)
    PROVE  /\ Callers' /\ Server' /\ OnlyOf(t)
           /\ pc[t] # "ended"
<1> USE DEF IInv
<1>1. PICK b \in Usable(t) :
         /\ Enter(t, "close", [NoCall EXCEPT !.on = b])
         /\ \/ Undefined(t) /\ UNCHANGED backend
            \/ backend' = [backend EXCEPT ![b].open = FALSE] /\ End(t, "ok") /\ UNCHANGED dead
         /\ UNCHANGED <<stored, wire, inserts, refused>>
  BY DEF CallClose, server
<1>2. b \in Threads /\ [NoCall EXCEPT !.on = b] \in CallType /\ [NoCall EXCEPT !.on = b].on = b
  BY OnTyped, NoCallTyped DEF Usable, CallType
<1>3. /\ pc[t] = "idle" /\ \A u \in Threads \ {t} : call'[u] = call[u]
      /\ call'[t].fn = "close" /\ call'[t].on = b
  BY <1>1, <1>2, EnteredCall
<1>4. /\ dead' \subseteq Processes
      /\ \/ pc' = pc /\ outcome' = outcome
         \/ pc' = [pc EXCEPT ![t] = "ended"] /\ outcome' = [outcome EXCEPT ![t] = "ok"]
  BY <1>1, BackendAssumption DEF End, Goto, Undefined, Callers
<1>5. /\ OnlyOf(t) /\ outcome' \in [Threads -> {"none", "ok", "threw"}]
      /\ pc'[t] \in {"idle", "ended"} /\ (pc'[t] = "ended" => outcome'[t] = "ok")
  BY <1>3, <1>4 DEF OnlyOf, Shapes, Callers
<1>6. BackendsStay
  <2>1. CASE UNCHANGED backend
    BY <2>1 DEF BackendsStay
  <2>2. CASE backend' = [backend EXCEPT ![b].open = FALSE]
    <3>1. [backend[b] EXCEPT !.open = FALSE].cfg = backend[b].cfg
      BY <1>2 DEF Shapes
    <3> QED
      BY <1>2, <2>2, <3>1 DEF BackendsStay, Shapes
  <2> QED
    BY <1>1, <2>1, <2>2
<1>7. ~Sending(t)' /\ "close" \in Methods /\ "ok" \in Outcomes
  BY <1>5 DEF Sending, Methods, Outcomes
<1>8. Callers' /\ Server'
  BY <1>1, <1>2, <1>3, <1>4, <1>5, <1>6, <1>7, OthersStep
<1> QED
  BY <1>3, <1>5, <1>8
\* The answer to a query, and the count of a call that has ended.
LEMMA ReturnStep ==
    ASSUME IInv, Callers, Server, NEW t \in Threads, Search(t) \/ Observe(t)
    PROVE  /\ Callers' /\ Server' /\ OnlyOf(t)
           /\ Search(t) => pc[t] # "ended"
<1> USE DEF IInv
<1>1. /\ UNCHANGED <<backend, dead, stored, wire, inserts, refused>>
      /\ \/ /\ pc[t] = "answer" /\ UNCHANGED call /\ pc' = [pc EXCEPT ![t] = "ended"]
            /\ \E how \in Outcomes : outcome' = [outcome EXCEPT ![t] = how]
         \/ /\ pc[t] = "ended" /\ call' = [call EXCEPT ![t] = NoCall]
            /\ pc' = [pc EXCEPT ![t] = "idle"] /\ outcome' = [outcome EXCEPT ![t] = "none"]
  BY DEF Search, Observe, End, Idle, Goto, Outcomes, server
<1>2. /\ OnlyOf(t) /\ pc'[t] \in {"idle", "ended"}
      /\ outcome' \in [Threads -> {"none", "ok", "threw"}]
      /\ pc'[t] = "ended" => pc[t] = "answer" /\ call'[t] = call[t] /\ outcome'[t] \in Outcomes
  BY <1>1 DEF OnlyOf, Shapes, Callers, Outcomes
<1>3. BackendsStay /\ ~Sending(t)' /\ dead' \subseteq Processes
  BY <1>1, <1>2 DEF BackendsStay, Sending, Callers
<1>4. pc[t] = "answer" => call[t].fn \in Methods /\ call[t].on \in Threads
  BY DEF Callers, Methods
<1>5. Callers' /\ Server'
  BY <1>1, <1>2, <1>3, <1>4, OthersStep
<1>6. Search(t) => pc[t] # "ended"
  BY DEF Search
<1> QED
  BY <1>2, <1>5, <1>6

-----------------------------------------------------------------------------
(***************************************************************************)
(* insert and the server.                                                  *)
(***************************************************************************)
LEMMA InsertCallStep ==
    ASSUME IInv, Callers, Server, NEW t \in Threads, CallInsert(t)
    PROVE  /\ Callers' /\ Server' /\ OnlyOf(t)
           /\ pc[t] # "ended"
<1> USE DEF IInv, Server
<1>1. PICK b \in Usable(t), docs \in Inputs, a \in InsertIds :
         /\ inserts[a].status = "none"
         /\ Enter(t, "insert", [NoCall EXCEPT !.on = b, !.docs = docs, !.a = a])
         /\ inserts' = [inserts EXCEPT ![a] = [size |-> Len(docs),
                           status |-> IF backend[b].open THEN "open" ELSE "rejected"]]
         /\ \/ backend[b].open /\ pc' = [pc EXCEPT ![t] = "pipeline"] /\ UNCHANGED outcome
            \/ ~backend[b].open /\ pc' = [pc EXCEPT ![t] = "ended"] /\ outcome' = [outcome EXCEPT ![t] = "threw"]
         /\ UNCHANGED <<backend, dead, stored, wire, refused>>
  BY DEF CallInsert, Goto, End
<1> DEFINE p == [NoCall EXCEPT !.on = b, !.docs = docs, !.a = a]
<1>2. b \in Threads /\ backend[b].cfg \in Configs /\ docs \in Seq(DocumentType)
  BY BackendAssumption DEF Usable, Calling
<1>3. p \in CallType /\ p.on = b /\ p.a = a /\ p.docs = docs
  BY <1>2, NoCallTyped DEF CallType
<1>4. /\ pc[t] = "idle" /\ \A u \in Threads \ {t} : call'[u] = call[u]
      /\ call'[t].fn = "insert" /\ call'[t].on = b /\ call'[t].a = a /\ call'[t].docs = docs
  <2> HIDE DEF p
  <2> QED
    BY <1>1, <1>3, EnteredCall DEF p
<1> HIDE DEF p
<1>5. /\ OnlyOf(t) /\ outcome' \in [Threads -> {"none", "ok", "threw"}]
      /\ pc'[t] \in {"pipeline", "ended"} /\ (pc'[t] = "ended" => outcome'[t] = "threw")
      /\ pc'[t] = "pipeline" => backend[b].open
  BY <1>1, <1>4 DEF OnlyOf, Shapes, Callers
<1>6. Callers'
  BY <1>1, <1>2, <1>4, <1>5 DEF Callers, OnlyOf, Methods, Outcomes
<1>7. /\ inserts' \in [InsertIds -> [size : Nat, status : Statuses]]
      /\ inserts'[a].size = Len(docs)
      /\ inserts'[a].status = IF backend[b].open THEN "open" ELSE "rejected"
      /\ \A e \in InsertIds \ {a} : inserts'[e] = inserts[e]
  <2>1. Len(docs) \in Nat
    BY <1>2
  <2>2. (IF backend[b].open THEN "open" ELSE "rejected") \in Statuses
    BY DEF Statuses
  <2> QED
    BY <1>1, <2>1, <2>2 DEF InsertsInOrder
<1>8. Untouched(a)'
  BY <1>1 DEF InsertsInOrder, Untouched, Given
<1>9. \A e \in InsertIds \ {a} : (Untouched(e) => Untouched(e)') /\ (Passing(e) => Passing(e)')
  BY <1>1, <1>7, InsertKept DEF Given
<1>10. InsertsInOrder'
  BY <1>1, <1>7, <1>8, <1>9 DEF InsertsInOrder
<1>11. OneSenderEach'
  <2>1. \A u \in Threads \ {t} : Sending(u)' =>
            /\ Sending(u) /\ pc'[u] = pc[u] /\ call'[u] = call[u]
            /\ call[u].a \in InsertIds /\ call[u].a # a
    BY <1>1, <1>5 DEF OnlyOf, Sending, Callers, OneSenderEach
  <2>2. Sending(t)' => pc'[t] = "pipeline" /\ inserts'[a].status = "open"
    BY <1>5, <1>7 DEF Sending
  <2>3. \A u \in Threads : Sending(u)' => inserts'[call'[u].a].status = "open"
    BY <1>4, <1>7, <2>1, <2>2 DEF OneSenderEach
  <2>4. \A u \in Threads : pc'[u] = "pipeline" =>
            Untouched(call[u].a)' /\ inserts'[call'[u].a].size = Len(call'[u].docs)
    <3>1. CASE pc'[t] = "pipeline"
      BY <1>4, <1>7, <1>8, <1>9, <2>1 DEF OneSenderEach, Sending
    <3>2. CASE pc'[t] # "pipeline"
      BY <1>7, <1>9, <2>1, <3>2 DEF OneSenderEach, Sending
    <3> QED
      BY <3>1, <3>2
  <2>5. \A u \in Threads : pc'[u] = "replies" => Passing(call[u].a)'
    BY <1>5, <1>9, <2>1 DEF OneSenderEach, Sending
  <2>6. \A u, v \in Threads : Sending(u)' /\ Sending(v)' /\ u # v => call'[u].a # call'[v].a
    BY <1>4, <2>1 DEF OneSenderEach
  <2> QED
    BY <2>3, <2>4, <2>5, <2>6 DEF OneSenderEach
<1>12. FromBackends'
  BY <1>1 DEF FromBackends
<1> QED
  BY <1>4, <1>5, <1>6, <1>10, <1>11, <1>12

\* insert ends: with nothing given when it is rejected.
LEMMA DecidedStep ==
    ASSUME IInv, Callers, Server, NEW t \in Threads, Sending(t), NEW s \in Statuses,
           NEW how \in Outcomes,
           inserts' = [inserts EXCEPT ![call[t].a].status = s],
           pc' = [pc EXCEPT ![t] = "ended"], outcome' = [outcome EXCEPT ![t] = how],
           UNCHANGED <<call, backend, dead, stored, wire, refused>>,
           \/ s = "rejected" /\ Untouched(call[t].a)
           \/ s \in {"returned", "failed"} /\ Passing(call[t].a),
           s = "returned" => wire[call[t].a] = <<>>
    PROVE  Callers' /\ Server' /\ OnlyOf(t)
<1> USE DEF IInv, Server
<1>1. PICK a \in InsertIds : a = call[t].a
  BY DEF Callers, Sending
<1>2. /\ OnlyOf(t) /\ pc'[t] = "ended" /\ outcome'[t] = how
      /\ outcome' \in [Threads -> {"none", "ok", "threw"}]
  BY DEF OnlyOf, Shapes, Callers, Outcomes
<1>3. Callers'
  BY <1>2 DEF Callers, OnlyOf, Sending, Methods
<1>4. /\ inserts' \in [InsertIds -> [size : Nat, status : Statuses]]
      /\ inserts'[a].status = s
      /\ \A e \in InsertIds : inserts'[e].size = inserts[e].size
      /\ \A e \in InsertIds \ {a} : inserts'[e].status = inserts[e].status
  <2>1. /\ [inserts[a] EXCEPT !.status = s] \in [size : Nat, status : Statuses]
        /\ [inserts[a] EXCEPT !.status = s].size = inserts[a].size
        /\ [inserts[a] EXCEPT !.status = s].status = s
    BY DEF InsertsInOrder
  <2> QED
    BY <1>1, <2>1 DEF InsertsInOrder
<1>5. \A e \in InsertIds : (Untouched(e) => Untouched(e)') /\ (Passing(e) => Passing(e)')
  BY <1>4, InsertKept DEF Given
<1>6. InsertsInOrder'
  BY <1>1, <1>4, <1>5 DEF InsertsInOrder
<1>7. OneSenderEach'
  <2>1. \A u \in Threads : Sending(u)' =>
            u # t /\ Sending(u) /\ pc'[u] = pc[u] /\ call[u].a \in InsertIds \ {a}
    BY <1>1, <1>2 DEF OnlyOf, Sending, Callers, OneSenderEach
  <2> QED
    BY <1>4, <1>5, <2>1 DEF OneSenderEach, Sending
<1>8. FromBackends'
  BY DEF FromBackends
<1> QED
  BY <1>2, <1>3, <1>6, <1>7, <1>8

\* The commands of an insert, in the order of its documents.
LEMMA CommandsShape ==
    ASSUME NEW docs \in Seq(DocumentType), NEW c, NEW a
    PROVE  /\ Len(Commands(docs, c, a)) = Len(docs)
           /\ \A i \in 1..Len(docs) :
                 Commands(docs, c, a)[i].id = <<a, i>> /\ Commands(docs, c, a)[i].cfg = c
<1>1. Len(docs) \in Nat
  OBVIOUS
<1>2. Commands(docs, c, a) = [i \in 1..Len(docs) |-> Command(docs[i], c, a, i)]
  BY DEF Commands
<1>3. Len(Commands(docs, c, a)) = Len(docs)
  BY <1>1, <1>2
<1> QED
  BY <1>2, <1>3 DEF Command

\* The pipeline of an insert is sent.
LEMMA SentStep ==
    ASSUME IInv, Callers, Server, NEW t \in Threads, pc[t] = "pipeline",
           wire' = [wire EXCEPT ![call[t].a] = Commands(call[t].docs, Config(t), call[t].a)],
           pc' = [pc EXCEPT ![t] = "replies"],
           UNCHANGED <<call, outcome, backend, dead, stored, inserts, refused>>
    PROVE  Callers' /\ Server' /\ OnlyOf(t)
<1> USE DEF IInv, Server
<1>1. PICK a \in InsertIds, docs \in Seq(DocumentType), c \in Configs :
         a = call[t].a /\ docs = call[t].docs /\ c = Config(t)
  BY DEF Callers, Shapes, CallType, Config
<1>2. OnlyOf(t) /\ pc'[t] = "replies"
  BY DEF OnlyOf, Shapes
<1>3. Callers'
  BY <1>2 DEF Callers, OnlyOf
<1>4. PICK sent : /\ sent = Commands(docs, c, a)
                  /\ Len(sent) = Len(docs)
                  /\ \A i \in 1..Len(docs) : sent[i].id = <<a, i>> /\ sent[i].cfg = c
  BY CommandsShape
<1>5. wire'[a] = sent /\ \A e \in InsertIds \ {a} : wire'[e] = wire[e]
  BY <1>1, <1>4 DEF CommandsProper
<1>6. Given' = Given /\ inserts[a].size = Len(docs) /\ \A p \in Given : p[1] # a
  BY <1>1 DEF Given, OneSenderEach, Untouched
<1>7. Passing(a)'
  <2>1. Len(docs) \in Nat
    BY <1>1
  <2>2. PassedUpTo(a, 0)'
    BY <1>4, <1>5, <1>6, <2>1 DEF PassedUpTo
  <2> QED
    BY <1>6, <2>1, <2>2 DEF Passing
<1>8. \A e \in InsertIds \ {a} : (Untouched(e) => Untouched(e)') /\ (Passing(e) => Passing(e)')
  BY <1>5, <1>6, InsertKept
<1>9. inserts[a].status = "open"
  BY <1>1 DEF OneSenderEach, Sending
<1>10. InsertsInOrder'
  BY <1>5, <1>7, <1>8, <1>9 DEF InsertsInOrder
<1>11. OneSenderEach'
  <2>1. \A u \in Threads \ {t} : Sending(u)' =>
            /\ Sending(u) /\ pc'[u] = pc[u] /\ call[u].a \in InsertIds /\ call[u].a # a
    BY <1>1, <1>2 DEF OnlyOf, Sending, Callers, OneSenderEach
  <2>2. \A u \in Threads : Sending(u)' => Sending(u)
    BY <2>1 DEF Sending
  <2>3. \A u \in Threads : Sending(u)' => inserts'[call'[u].a].status = "open"
    BY <2>2 DEF OneSenderEach
  <2>4. \A u \in Threads : pc'[u] = "pipeline" =>
            Untouched(call[u].a)' /\ inserts'[call'[u].a].size = Len(call'[u].docs)
    BY <1>2, <1>8, <2>1 DEF OneSenderEach, Sending
  <2>5. \A u \in Threads : pc'[u] = "replies" => Passing(call[u].a)'
    BY <1>1, <1>7, <1>8, <2>1 DEF OneSenderEach, Sending
  <2>6. \A u, v \in Threads : Sending(u)' /\ Sending(v)' /\ u # v => call'[u].a # call'[v].a
    BY <2>2 DEF OneSenderEach
  <2> QED
    BY <2>3, <2>4, <2>5, <2>6 DEF OneSenderEach
<1>12. FromBackends'
  BY <1>4, <1>5 DEF FromBackends
<1> QED
  BY <1>2, <1>3, <1>10, <1>11, <1>12

\* What insert does after its check of is_open.
LEMMA SendingStep ==
    ASSUME IInv, Callers, Server, NEW t \in Threads, Build(t) \/ Replies(t) \/ ExecThrows(t)
    PROVE  /\ Callers' /\ Server' /\ OnlyOf(t)
           /\ pc[t] # "ended"
<1>1. CASE Build(t)
  <2>1. pc[t] = "pipeline" /\ Sending(t) /\ Untouched(call[t].a)
    BY <1>1 DEF Build, Sending, Server, OneSenderEach
  <2>2. CASE Undefined(t) /\ UNCHANGED <<wire, inserts>>
    <3>1. UNCHANGED <<backend, call, pc, outcome, stored, wire, inserts, refused>>
      BY <1>1, <2>2 DEF Build, Undefined
    <3>2. /\ dead' \subseteq Processes /\ OnlyOf(t) /\ BackendsStay
          /\ outcome' \in [Threads -> {"none", "ok", "threw"}]
      BY <2>2, <3>1, BackendAssumption DEF Undefined, OnlyOf, BackendsStay, Callers
    <3> QED
      BY <2>1, <3>1, <3>2, OthersStep
  <2>3. CASE SetStatus(call[t].a, "rejected") /\ End(t, "threw") /\ UNCHANGED <<wire, dead>>
    <3>1. "rejected" \in Statuses /\ "threw" \in Outcomes
      BY DEF Statuses, Outcomes
    <3> QED
      BY <1>1, <2>1, <2>3, <3>1, DecidedStep DEF Build, SetStatus, End, Goto
  <2>4. CASE /\ wire' = [wire EXCEPT ![call[t].a] = Commands(call[t].docs, Config(t), call[t].a)]
             /\ Goto(t, "replies")
             /\ UNCHANGED <<outcome, inserts, dead>>
    BY <1>1, <2>1, <2>4, SentStep DEF Build, Goto
  <2> QED
    BY <1>1, <2>2, <2>3, <2>4 DEF Build
<1>2. CASE Replies(t) \/ ExecThrows(t)
  <2>1. /\ pc[t] = "replies" /\ Sending(t) /\ Passing(call[t].a)
    BY <1>2 DEF Replies, ExecThrows, Sending, Server, OneSenderEach
  <2>2. PICK s \in {"returned", "failed"}, how \in Outcomes :
           /\ SetStatus(call[t].a, s) /\ End(t, how)
           /\ s = "returned" => wire[call[t].a] = <<>>
    BY <1>2 DEF Replies, ExecThrows, Outcomes
  <2>3. s \in Statuses
    BY DEF Statuses
  <2>4. UNCHANGED <<call, backend, dead, stored, wire, refused>>
    BY <1>2 DEF Replies, ExecThrows
  <2> QED
    BY <2>1, <2>2, <2>3, <2>4, DecidedStep DEF SetStatus, End, Goto
<1> QED
  BY <1>1, <1>2

\* The next document of an insert reaches the server.
LEMMA PassedNext ==
    ASSUME IInv, Server, NEW a \in InsertIds, Perform(a), NEW n \in Nat,
           n <= inserts[a].size, PassedUpTo(a, n)
    PROVE  /\ n + 1 <= inserts[a].size
           /\ Head(wire[a]).id = <<a, n + 1>>
           /\ Given' = Given \cup {<<a, n + 1>>}
           /\ PassedUpTo(a, n + 1)'
<1> USE DEF IInv, Server
<1>1. PICK w \in Seq(CommandType) : w = wire[a]
  BY DEF CommandsProper
<1>2. /\ w # <<>> /\ wire' = [wire EXCEPT ![a] = Tail(w)] /\ UNCHANGED inserts
      /\ \/ stored' = stored \cup {Head(w)} /\ UNCHANGED refused
         \/ refused' = refused \cup {Head(w).id} /\ UNCHANGED stored
  BY <1>1 DEF Perform
<1>3. Len(w) = inserts[a].size - n /\ \A i \in 1..Len(w) : w[i].id = <<a, n + i>>
  BY <1>1 DEF PassedUpTo
<1>4. Len(w) \in Nat /\ Len(w) >= 1 /\ Head(w) = w[1]
  BY <1>2
<1>5. inserts[a].size \in Nat
  BY DEF InsertsInOrder
<1>6. n + 1 <= inserts[a].size
  BY <1>3, <1>4, <1>5
<1>7. Head(w).id = <<a, n + 1>>
  BY <1>3, <1>4
<1>8. Given' = Given \cup {<<a, n + 1>>}
  <2>1. CASE stored' = stored \cup {Head(w)} /\ UNCHANGED refused
    <3>1. {d.id : d \in stored'} = {d.id : d \in stored} \cup {Head(w).id}
      BY <2>1
    <3> QED
      BY <1>7, <2>1, <3>1 DEF Given
  <2>2. CASE refused' = refused \cup {Head(w).id} /\ UNCHANGED stored
    BY <1>7, <2>2 DEF Given
  <2> QED
    BY <1>2, <2>1, <2>2
<1>9. PassedUpTo(a, n + 1)'
  <2>1. /\ Len(Tail(w)) = Len(w) - 1
        /\ \A i \in 1..Len(Tail(w)) : Tail(w)[i] = w[i + 1]
    BY <1>2
  <2>2. wire'[a] = Tail(w)
    BY <1>2 DEF CommandsProper
  <2>3. Len(wire'[a]) = inserts'[a].size - (n + 1)
    BY <1>2, <1>3, <1>5, <2>1, <2>2
  <2>4. \A i \in 1..Len(wire'[a]) : wire'[a][i].id = <<a, (n + 1) + i>>
    <3> SUFFICES ASSUME NEW i \in 1..(Len(w) - 1)
                 PROVE  Tail(w)[i].id = <<a, (n + 1) + i>>
      BY <2>1, <2>2
    <3>1. Tail(w)[i] = w[i + 1]
      BY <2>1
    <3>2. i + 1 \in 1..Len(w) /\ n + (i + 1) = (n + 1) + i
      BY <1>4
    <3> QED
      BY <1>3, <3>1, <3>2
  <2>5. \A p \in Given' : p[1] = a => p[2] \in 1..(n + 1)
    BY <1>8 DEF PassedUpTo
  <2>6. \A i \in 1..(n + 1) : <<a, i>> \in Given'
    BY <1>8 DEF PassedUpTo
  <2> QED
    BY <2>3, <2>4, <2>5, <2>6 DEF PassedUpTo
<1> QED
  BY <1>1, <1>6, <1>7, <1>8, <1>9

LEMMA ServerStep ==
    ASSUME IInv, Callers, Server, NEW a \in InsertIds, Perform(a)
    PROVE  Callers' /\ Server'
<1> USE DEF IInv, Server
<1>1. /\ wire[a] # <<>> /\ wire' = [wire EXCEPT ![a] = Tail(@)]
      /\ UNCHANGED <<backend, pc, call, outcome, dead, inserts>>
      /\ stored' \subseteq stored \cup {Head(wire[a])}
      /\ refused' \subseteq refused \cup {Head(wire[a]).id}
  BY DEF Perform
<1>2. inserts[a].status \in {"open", "failed"} /\ Passing(a) /\ ~Untouched(a)
  BY <1>1 DEF InsertsInOrder, Untouched, Statuses
<1>3. PICK n \in Nat : n <= inserts[a].size /\ PassedUpTo(a, n)
  BY <1>2 DEF Passing, InsertsInOrder
<1>4. /\ n + 1 <= inserts[a].size /\ Head(wire[a]).id = <<a, n + 1>>
      /\ Given' = Given \cup {<<a, n + 1>>} /\ PassedUpTo(a, n + 1)'
  BY <1>3, PassedNext
<1>5. Callers'
  BY <1>1 DEF Callers
<1>6. Passing(a)'
  BY <1>1, <1>3, <1>4 DEF Passing, InsertsInOrder
<1>7. \A e \in InsertIds \ {a} : wire'[e] = wire[e]
  BY <1>1 DEF CommandsProper
<1>8. \A e \in InsertIds \ {a} : (Untouched(e) => Untouched(e)') /\ (Passing(e) => Passing(e)')
  <2>1. ASSUME NEW e \in InsertIds \ {a}, NEW p, p[1] = e
        PROVE  p \in Given' <=> p \in Given
    <3>1. p # <<a, n + 1>>
      BY <2>1
    <3> QED
      BY <1>4, <3>1
  <2> QED
    BY <1>1, <1>7, <2>1, InsertKept
<1>9. InsertsInOrder'
  <2>1. refused' \subseteq InsertIds \X Nat
    <3>1. <<a, n + 1>> \in InsertIds \X Nat
      OBVIOUS
    <3> QED
      BY <1>1, <1>4, <3>1 DEF InsertsInOrder
  <2> QED
    BY <1>1, <1>2, <1>6, <1>8, <2>1 DEF InsertsInOrder
<1>10. OneSenderEach'
  <2>1. \A u \in Threads : pc[u] = "pipeline" => call[u].a \in InsertIds \ {a}
    BY <1>2 DEF OneSenderEach, Callers
  <2>2. \A u \in Threads : pc[u] = "replies" => call[u].a \in InsertIds
    BY DEF Callers
  <2> QED
    BY <1>1, <1>6, <1>8, <2>1, <2>2 DEF OneSenderEach, Sending
<1>11. FromBackends'
  <2>1. PICK w \in Seq(CommandType) : w = wire[a]
    BY DEF CommandsProper
  <2>2. /\ Len(w) >= 1 /\ Head(w) = w[1] /\ Len(w) \in Nat
        /\ Len(Tail(w)) = Len(w) - 1
        /\ \A i \in 1..Len(Tail(w)) : Tail(w)[i] = w[i + 1]
    BY <1>1, <2>1
  <2>3. \A i \in 1..Len(w) : w[i].cfg \in Configs
    BY <2>1 DEF FromBackends
  <2>4. wire'[a] = Tail(w)
    BY <1>1, <2>1 DEF CommandsProper
  <2>5. \A i \in 1..Len(wire'[a]) : wire'[a][i].cfg \in Configs
    BY <2>2, <2>3, <2>4
  <2>6. \A d \in stored' : d.cfg \in Configs
    BY <1>1, <2>1, <2>2, <2>3 DEF FromBackends
  <2> QED
    BY <1>7, <2>5, <2>6 DEF FromBackends
<1> QED
  BY <1>5, <1>9, <1>10, <1>11

-----------------------------------------------------------------------------
(***************************************************************************)
(* The theorems.                                                           *)
(***************************************************************************)

\* measure calls the backend, and remembers how that has ended.
LEMMA InvokeStep ==
    ASSUME IInv, MInv, NEW t \in Threads, Invoke(t)
    PROVE  MInv'
<1> USE DEF MInv
<1>1. Callers' /\ Server' /\ OnlyOf(t) /\ pc[t] # "ended"
  BY ConstructorStep, InsertCallStep, QueryStep, CloseStep, SendingStep, ReturnStep
  DEF Invoke, Call, Step
<1>2. CASE pc'[t] = "ended"
  <2>1. /\ UNCHANGED stats
        /\ ended' = [ended EXCEPT ![call'[t].on][call'[t].fn][outcome'[t]] = @ + 1]
    BY <1>2 DEF Invoke
  <2>2. call'[t].on \in Threads /\ call'[t].fn \in Methods /\ outcome'[t] \in Outcomes
    BY <1>1, <1>2 DEF Callers
  <2>3. Counters'
    BY <1>1, <1>2, <2>1, <2>2, CountersEnded DEF OnlyOf
  <2> QED
    BY <1>1, <2>3
<1>3. CASE pc'[t] # "ended"
  <2>1. UNCHANGED metrics
    BY <1>3 DEF Invoke, metrics
  <2>2. Counters'
    BY <1>1, <1>3, <2>1, CountersKept DEF OnlyOf
  <2> QED
    BY <1>1, <2>2
<1> QED
  BY <1>2, <1>3

\* A step that changes nothing of the calls and the inserts.
Kept == UNCHANGED <<backend, pc, call, outcome, dead, stored, wire, inserts, refused>>

LEMMA KeptOf == UNCHANGED vars \/ (\E m \in Unawaited : CreateLate(m)) => Kept
BY DEF vars, server, CreateLate, Kept

LEMMA SameCalls ==
    ASSUME Callers, Server, Kept
    PROVE  Callers' /\ Server'
<1>1. UNCHANGED <<backend, pc, call, outcome, dead, stored, wire, inserts, refused>>
  BY DEF Kept
<1>2. Callers'
  BY <1>1 DEF Callers
<1>3. \A e \in InsertIds : (Untouched(e) => Untouched(e)') /\ (Passing(e) => Passing(e)')
  BY <1>1, InsertKept DEF Given
<1>4. InsertsInOrder'
  BY <1>1, <1>3 DEF Server, InsertsInOrder
<1>5. OneSenderEach'
  BY <1>1, <1>3 DEF Server, OneSenderEach, Sending, Callers
<1>6. FromBackends'
  BY <1>1 DEF Server, FromBackends
<1> QED
  BY <1>2, <1>4, <1>5, <1>6 DEF Server

LEMMA SameCounters ==
    ASSUME Counters, UNCHANGED <<pc, call, outcome, metrics>>
    PROVE  Counters'
<1>1. \A b, m, how : Uncounted(b, m, how)' = Uncounted(b, m, how)
  BY DEF Uncounted
<1> QED
  BY <1>1 DEF Counters, StatsExact, metrics

LEMMA MNextStep == IInv /\ MInv /\ [Next]_allVars => MInv'
<1> SUFFICES ASSUME IInv, MInv, [Next]_allVars PROVE MInv'
  OBVIOUS
<1> USE DEF MInv
<1>1. ASSUME NEW t \in Threads, Invoke(t) PROVE MInv'
  BY <1>1, InvokeStep
<1>2. ASSUME NEW t \in Threads, Observe(t) PROVE MInv'
  BY <1>2, ReturnStep, CountersObserved
<1>3. ASSUME NEW t \in Threads, Reset(t) PROVE MInv'
  BY <1>3, KeptOf, SameCalls, CountersReset DEF Reset
<1>4. ASSUME NEW a \in InsertIds, Perform(a), UNCHANGED metrics PROVE MInv'
  <2>1. UNCHANGED <<pc, call, outcome>>
    BY <1>4 DEF Perform
  <2> QED
    BY <1>4, <2>1, ServerStep, SameCounters
<1>5. ASSUME UNCHANGED vars \/ (\E m \in Unawaited : CreateLate(m)), UNCHANGED metrics
      PROVE  MInv'
  <2>1. Kept
    BY <1>5, KeptOf
  <2>2. UNCHANGED <<pc, call, outcome, metrics>>
    BY <1>5, <2>1 DEF Kept
  <2> QED
    BY <2>1, <2>2, SameCalls, SameCounters
<1> QED
  BY <1>1, <1>2, <1>3, <1>4, <1>5 DEF Next, allVars

(***************************************************************************)
(* The invariant of this module: an insert has passed on its documents one *)
(* after the other and has one sender, a call knows the backend it is on,  *)
(* and the counts are exact.                                               *)
(***************************************************************************)
THEOREM CallsInductive == Spec => []MInv
BY MInitially, MNextStep, Inductive, PTL DEF Spec

(***************************************************************************)
(* Types, with what they do not say by themselves: a stored document is    *)
(* one of the list that its insert was given (redis_backend.cpp:46).       *)
(***************************************************************************)
THEOREM TypeCorrect == Spec => []TypeOK
<1>1. IInv /\ MInv => TypeOK
  <2> SUFFICES ASSUME IInv, MInv PROVE TypeOK
    OBVIOUS
  <2> USE DEF IInv, MInv, Server
  <2>1. ASSUME NEW d \in stored
        PROVE  d.cfg \in Configs /\ d.id[1] \in InsertIds /\ d.id[2] \in 1..inserts[d.id[1]].size
    <3>1. d.cfg \in Configs
      BY DEF FromBackends
    <3>2. PICK a \in InsertIds, i \in Nat : d.id = <<a, i>>
      <4>1. d \in CommandType
        BY DEF CommandsProper
      <4>2. d.id \in InsertIds \X Nat
        BY <4>1 DEF CommandType
      <4> QED
        BY <4>2
    <3>3. d.id \in Given /\ d.id[1] = a
      BY <3>2 DEF Given
    <3>4. ~Untouched(a)
      BY <3>3 DEF Untouched
    <3>5. Passing(a)
      BY <3>4 DEF InsertsInOrder, Statuses
    <3>6. PICK n \in 0..inserts[a].size : d.id[2] \in 1..n
      BY <3>3, <3>5 DEF Passing, PassedUpTo
    <3>7. inserts[a].size \in Nat
      BY DEF InsertsInOrder
    <3>8. d.id[2] \in 1..inserts[a].size
      BY <3>6, <3>7
    <3> QED
      BY <3>1, <3>3, <3>8
  <2>2. registry \in [Processes -> Threads \cup {NoThread}]
        /\ backend \in [Threads -> [cfg : Configs \cup {NoConfig}, open : BOOLEAN]]
        /\ pc \in [Threads -> {"idle", "make", "info", "create", "pipeline",
                               "replies", "answer", "ended"}]
        /\ late \subseteq [cfg : Configs, by : Threads]
    BY DEF Shapes, Configuration, Places
  <2> QED
    BY <2>1, <2>2 DEF TypeOK, Callers, Counters
<1> QED
  BY <1>1, CallsInductive, Inductive, PTL

(***************************************************************************)
(* stats_ has every call that has ended since the reset and is not about   *)
(* to be counted, and the errors among them (metrics_wrapper.cpp:66).      *)
(***************************************************************************)
THEOREM CountsAreExact == Spec => []StatsExact
<1>1. MInv => StatsExact
  BY DEF MInv, Counters
<1> QED
  BY <1>1, CallsInductive, PTL

-----------------------------------------------------------------------------
(***************************************************************************)
(* The refinement of VectorSpec.                                           *)
(***************************************************************************)

\* The variables of VectorSpec.
Sizes == [a \in InsertIds |-> inserts[a].size]
Status == [a \in InsertIds |-> inserts[a].status]
Held == {d.id : d \in stored}

LEMMA RefinesInit == MetricsInit => Promised!Init
BY DEF MetricsInit, Init, Promised!Init

\* What has reached the store of an insert that has been sent.
LEMMA PassedOf ==
    ASSUME IInv, MInv, NEW a \in InsertIds, NEW n \in 0..inserts[a].size, PassedUpTo(a, n)
    PROVE  Promised!Passed(a) = 1..n
<1>1. Promised!Passed(a) = {i \in 1..inserts[a].size : <<a, i>> \in Given}
  BY DEF Promised!Passed, Given
<1>2. inserts[a].size \in Nat
  BY DEF MInv, Server, InsertsInOrder
<1>3. \A i \in 1..inserts[a].size : <<a, i>> \in Given <=> i \in 1..n
  BY <1>2 DEF PassedUpTo
<1> QED
  BY <1>1, <1>2, <1>3

\* The step of one insert, as VectorSpec sees it.
LEMMA InsertsSeen ==
    ASSUME MInv, NEW a \in InsertIds, NEW r \in [size : Nat, status : Statuses],
           inserts' = [inserts EXCEPT ![a] = r]
    PROVE  /\ Sizes' = [Sizes EXCEPT ![a] = r.size]
           /\ Status' = [Status EXCEPT ![a] = r.status]
BY DEF MInv, Server, InsertsInOrder, Sizes, Status

\* Nothing that VectorSpec speaks of.
LEMMA Unseen ==
    ASSUME UNCHANGED <<inserts, stored, refused>>
    PROVE  UNCHANGED Promised!vars
BY DEF Promised!vars

LEMMA BeginRefines ==
    ASSUME IInv, MInv, NEW t \in Threads, CallInsert(t)
    PROVE  Promised!Next
<1>1. PICK docs \in Inputs, a \in InsertIds, s \in {"open", "rejected"} :
         /\ inserts[a].status = "none"
         /\ inserts' = [inserts EXCEPT ![a] = [size |-> Len(docs), status |-> s]]
         /\ UNCHANGED <<stored, refused>>
  BY DEF CallInsert
<1>2. Len(docs) \in Nat
  BY BackendAssumption
<1>3. [size |-> Len(docs), status |-> s] \in [size : Nat, status : Statuses]
  BY <1>2 DEF Statuses
<1>4. Sizes' = [Sizes EXCEPT ![a] = Len(docs)] /\ Status' = [Status EXCEPT ![a] = s]
  BY <1>1, <1>3, InsertsSeen
<1>5. Sizes'[a] = Len(docs) /\ Status[a] = "none"
  BY <1>1, <1>4 DEF Sizes, Status
<1>6. Promised!Begin(a)
  BY <1>1, <1>2, <1>4, <1>5 DEF Promised!Begin, Sizes, Status
<1> QED
  BY <1>6 DEF Promised!Next

\* An insert ends as DecidedStep has it.
LEMMA EndRefines ==
    ASSUME IInv, MInv, NEW t \in Threads, Sending(t),
           UNCHANGED <<stored, refused>>,
           NEW s \in {"returned", "rejected", "failed"}, SetStatus(call[t].a, s),
           s = "returned" => wire[call[t].a] = <<>> /\ Passing(call[t].a),
           s = "rejected" => Untouched(call[t].a)
    PROVE  Promised!Next
<1> USE DEF MInv, Server
<1>1. PICK a \in InsertIds : a = call[t].a
  BY DEF Callers, Sending
<1>2. inserts[a] \in [size : Nat, status : Statuses] /\ inserts[a].status = "open"
  BY <1>1 DEF InsertsInOrder, OneSenderEach
<1>3. PICK r \in [size : Nat, status : Statuses] :
         r = [inserts[a] EXCEPT !.status = s] /\ r.size = inserts[a].size /\ r.status = s
  <2>1. s \in Statuses
    BY DEF Statuses
  <2>2. /\ [inserts[a] EXCEPT !.status = s] \in [size : Nat, status : Statuses]
        /\ [inserts[a] EXCEPT !.status = s].size = inserts[a].size
        /\ [inserts[a] EXCEPT !.status = s].status = s
    BY <1>2, <2>1
  <2> QED
    BY <2>2
<1>4. inserts' = [inserts EXCEPT ![a] = r]
  BY <1>1, <1>3 DEF SetStatus
<1>5. Sizes' = [Sizes EXCEPT ![a] = r.size] /\ Status' = [Status EXCEPT ![a] = s]
  BY <1>3, <1>4, InsertsSeen
<1>6. Sizes' = Sizes /\ Status[a] = "open" /\ Sizes[a] = inserts[a].size
  BY <1>2, <1>3, <1>5 DEF Sizes, Status
<1>7. CASE s = "returned"
  <2>1. PICK n \in 0..inserts[a].size : PassedUpTo(a, n)
    BY <1>1, <1>7 DEF Passing
  <2>2. n = inserts[a].size
    <3>1. Len(wire[a]) = 0
      BY <1>1, <1>7
    <3> QED
      BY <1>2, <2>1, <3>1 DEF PassedUpTo
  <2>3. Promised!Passed(a) = 1..Sizes[a]
    BY <1>6, <2>1, <2>2, PassedOf
  <2>4. Promised!End(a)
    BY <1>5, <1>6, <1>7, <2>3 DEF Promised!End, Sizes, Status
  <2> QED
    BY <2>4 DEF Promised!Next
<1>8. CASE s = "rejected"
  <2>1. \A i : <<a, i>> \notin Given
    BY <1>1, <1>8 DEF Untouched
  <2>2. Promised!Passed(a) = {}
    BY <2>1 DEF Promised!Passed, Given
  <2>3. Promised!End(a)
    BY <1>5, <1>6, <1>8, <2>2 DEF Promised!End, Sizes, Status
  <2> QED
    BY <2>3 DEF Promised!Next
<1>9. CASE s = "failed"
  <2>1. Promised!End(a)
    BY <1>5, <1>6, <1>9 DEF Promised!End, Sizes, Status
  <2> QED
    BY <2>1 DEF Promised!Next
<1> QED
  BY <1>7, <1>8, <1>9

\* The server takes the next document of an insert that is open or has failed.
LEMMA PassRefines ==
    ASSUME IInv, MInv, NEW a \in InsertIds, Perform(a)
    PROVE  Promised!Next
<1> USE DEF MInv, Server
<1>1. wire[a] # <<>> /\ UNCHANGED inserts
  BY DEF Perform
<1>2. ~Untouched(a) /\ Passing(a)
  BY <1>1 DEF InsertsInOrder, Untouched, Statuses
<1>3. PICK n \in 0..inserts[a].size : PassedUpTo(a, n)
  BY <1>2 DEF Passing
<1>4. n \in Nat /\ n <= inserts[a].size /\ inserts[a].size \in Nat
  BY DEF InsertsInOrder
<1>5. n + 1 <= inserts[a].size /\ Head(wire[a]).id = <<a, n + 1>>
  BY <1>3, <1>4, PassedNext
<1>6. inserts[a].status \in {"open", "failed"}
  BY <1>1, <1>2 DEF InsertsInOrder, Statuses
<1>7. Promised!Passed(a) = 1..n
  BY <1>3, PassedOf
<1>8. \/ Held' = Held \cup {<<a, n + 1>>} /\ UNCHANGED refused
      \/ refused' = refused \cup {<<a, n + 1>>} /\ UNCHANGED Held
  <2>1. CASE stored' = stored \cup {Head(wire[a])} /\ UNCHANGED refused
    BY <1>5, <2>1 DEF Held
  <2>2. CASE refused' = refused \cup {Head(wire[a]).id} /\ UNCHANGED stored
    BY <1>5, <2>2 DEF Held
  <2> QED
    BY <2>1, <2>2 DEF Perform
<1>9. Promised!PassNext(a)
  <2>1. /\ Status[a] \in {"open", "failed"} /\ n + 1 \in 1..Sizes[a]
        /\ UNCHANGED <<Sizes, Status>>
    BY <1>1, <1>4, <1>5, <1>6 DEF Sizes, Status
  <2>2. (n + 1) - 1 = n
    BY <1>4
  <2> QED
    BY <1>7, <1>8, <2>1, <2>2 DEF Promised!PassNext, Held, Sizes, Status
<1> QED
  BY <1>9 DEF Promised!Next

LEMMA RefinesStep == IInv /\ MInv /\ [Next]_allVars => [Promised!Next]_(Promised!vars)
<1> SUFFICES ASSUME IInv, MInv, [Next]_allVars
             PROVE  Promised!Next \/ UNCHANGED Promised!vars
  OBVIOUS
<1>1. ASSUME NEW t \in Threads, Call(t)
      PROVE  Promised!Next \/ UNCHANGED Promised!vars
  <2>1. CASE Make(t) \/ CallQuery(t) \/ CallClose(t)
    BY <2>1, Unseen DEF Make, CallQuery, CallClose, server
  <2>2. CASE CallInsert(t)
    BY <2>2, BeginRefines
  <2> QED
    BY <1>1, <2>1, <2>2 DEF Call
<1>2. ASSUME NEW t \in Threads, Step(t)
      PROVE  Promised!Next \/ UNCHANGED Promised!vars
  <2>1. CASE LockRegistry(t) \/ FtInfo(t) \/ FtCreate(t) \/ Search(t)
    BY <2>1, Unseen DEF LockRegistry, FtInfo, FtCreate, Search, server
  <2>2. CASE Build(t)
    <3>1. CASE UNCHANGED inserts
      BY <2>2, <3>1, Unseen DEF Build
    <3>2. CASE SetStatus(call[t].a, "rejected")
      <4>1. Sending(t) /\ Untouched(call[t].a) /\ UNCHANGED <<stored, refused>>
        BY <2>2 DEF Build, Sending, MInv, Server, OneSenderEach
      <4> QED
        BY <3>2, <4>1, EndRefines
    <3> QED
      BY <2>2, <3>1, <3>2 DEF Build
  <2>3. CASE Replies(t) \/ ExecThrows(t)
    <3>1. /\ Sending(t) /\ Passing(call[t].a) /\ UNCHANGED <<stored, refused>>
          /\ \/ SetStatus(call[t].a, "returned") /\ wire[call[t].a] = <<>>
             \/ SetStatus(call[t].a, "failed")
      BY <2>3 DEF Replies, ExecThrows, Sending, MInv, Server, OneSenderEach
    <3> QED
      BY <3>1, EndRefines
  <2> QED
    BY <1>2, <2>1, <2>2, <2>3 DEF Step
<1>3. ASSUME NEW t \in Threads, Observe(t) \/ Reset(t)
      PROVE  UNCHANGED Promised!vars
  BY <1>3, Unseen DEF Observe, Reset, vars, server
<1>4. ASSUME NEW a \in InsertIds, Perform(a)
      PROVE  Promised!Next
  BY <1>4, PassRefines
<1>5. ASSUME UNCHANGED vars \/ (\E m \in Unawaited : CreateLate(m))
      PROVE  UNCHANGED Promised!vars
  BY <1>5, Unseen DEF vars, server, CreateLate
<1> QED
  BY <1>1, <1>2, <1>3, <1>4, <1>5 DEF Next, Invoke, allVars

(***************************************************************************)
(* insert keeps the promise of VectorSpec: documents reach the server one  *)
(* after the other, those of a rejected call never, all of those of a call *)
(* that returns (redis_backend.cpp:38 to :83).                             *)
(***************************************************************************)
THEOREM InsertImplementsSpec == Spec => ImplementsVectorSpec
BY RefinesInit, RefinesStep, CallsInductive, Inductive, PTL
DEF Spec, ImplementsVectorSpec, Promised!Spec
=============================================================================
