---------------------------- MODULE SessionProofs ----------------------------
(***************************************************************************)
(* Proofs about a session, for any number of threads, processors, texts,   *)
(* batches and messages: that max_workers is never raised again, what the  *)
(* calls of the cleaner and of the history keep, and that the history      *)
(* implements HistorySpec.                                                 *)
(***************************************************************************)
EXTENDS Session, FiniteSetTheorems, TLAPS

-----------------------------------------------------------------------------
(***************************************************************************)
(* A team and its size.                                                    *)
(***************************************************************************)
Sized(s, n) == \E k \in 0..n : s = [m \in 1..k |-> s[m]]

\* Len says how many members a team has, whatever they are doing.
LEMMA SizedLen ==
    ASSUME NEW n \in Nat, NEW s, Sized(s, n)
    PROVE  Len(s) \in Nat /\ Len(s) <= n
<1>1. PICK k \in 0..n : s = [m \in 1..k |-> s[m]]
  BY DEF Sized
<1>2. s \in [1..k -> {s[m] : m \in 1..k}]
  BY <1>1
<1>3. s \in Seq({s[m] : m \in 1..k}) /\ Len(s) = k
  BY <1>2
<1> QED
  BY <1>1, <1>3

LEMMA NoTeamSized ==
    ASSUME NEW n \in Nat
    PROVE  Sized(<<>>, n)
BY DEF Sized

\* A member that goes on leaves the team as large as it is.
LEMMA AdvanceSized ==
    ASSUME NEW n \in Nat, NEW s, NEW i, NEW x, Sized(s, n)
    PROVE  Sized([s EXCEPT ![i] = x], n)
<1>1. PICK k \in 0..n : s = [m \in 1..k |-> s[m]]
  BY DEF Sized
<1> DEFINE r == [s EXCEPT ![i] = x]
<1>2. r = [m \in 1..k |-> r[m]]
  BY <1>1
<1> QED
  BY <1>2 DEF Sized

-----------------------------------------------------------------------------
(***************************************************************************)
(* The inductive invariant.                                                *)
(***************************************************************************)
Regions == {"clean", "make", "copy"}
Places == Regions \cup {"idle", "fork", "cleaned", "add", "insert", "got"}

Shapes ==
    /\ pc \in [Callers -> Places]
    /\ nthreads \in [Callers -> Nat \ {0}]
    /\ asked \in [Callers -> SUBSET Int]
    /\ team = [c \in Callers |-> team[c]]

\* A team is no larger than the number of threads, which is no larger than asked.
Capped(c) ==
    /\ Sized(team[c], nthreads[c])
    /\ pc[c] \notin Regions => team[c] = <<>>
    /\ \A w \in asked[c] : w > 0 => nthreads[c] <= w

IInv == Shapes /\ \A c \in Callers : Capped(c)

LEMMA Initially == Init => IInv
<1> SUFFICES ASSUME Init PROVE IInv
  OBVIOUS
<1> USE DEF Init, OpenMPInit, CleanerInit
<1>1. Shapes
  BY OpenMPAssumption DEF Shapes, Places
<1>2. ASSUME NEW c \in Callers PROVE Capped(c)
  <2>1. Sized(<<>>, Processors)
    BY OpenMPAssumption, NoTeamSized
  <2> QED
    BY <2>1 DEF Capped
<1> QED
  BY <1>1, <1>2 DEF IInv

\* What a step of c may do to these variables, and what it must see to.
Only(c) ==
    \A d \in Callers \ {c} :
        pc'[d] = pc[d] /\ nthreads'[d] = nthreads[d] /\ asked'[d] = asked[d] /\ team'[d] = team[d]

LEMMA OfOne ==
    ASSUME IInv, NEW c \in Callers, Shapes', Only(c), Capped(c)'
    PROVE  IInv'
<1> SUFFICES ASSUME NEW d \in Callers, d # c PROVE Capped(d)'
  BY DEF IInv
<1> QED
  BY DEF IInv, Only, Capped

LEMMA Stutter == IInv /\ UNCHANGED <<pc, nthreads, asked, team>> => IInv'
BY DEF IInv, Shapes, Capped

\* Between regions, or from one to its end.
LEMMA Outside ==
    ASSUME IInv, NEW c \in Callers, NEW place \in Places, pc' = [pc EXCEPT ![c] = place],
           UNCHANGED <<nthreads, asked>>,
           (UNCHANGED team /\ pc[c] \notin Regions) \/ Disband(c)
    PROVE  IInv'
<1> USE DEF IInv
<1>1. team' = [d \in Callers |-> team'[d]] /\ team'[c] = <<>>
      /\ \A d \in Callers \ {c} : team'[d] = team[d]
  <2>1. CASE UNCHANGED team /\ pc[c] \notin Regions
    BY <2>1 DEF Shapes, Capped
  <2>2. CASE Disband(c)
    BY <2>2 DEF Disband, Shapes
  <2> QED
    BY <2>1, <2>2
<1>2. Shapes'
  BY <1>1 DEF Shapes
<1>3. Sized(<<>>, nthreads[c])
  BY NoTeamSized DEF Shapes
<1>4. Capped(c)'
  BY <1>1, <1>3 DEF Capped
<1>5. Only(c)
  BY <1>1 DEF Only, Shapes
<1> QED
  BY <1>2, <1>4, <1>5, OfOne

LEMMA Forked ==
    ASSUME IInv, NEW c \in Callers, NEW place \in Regions, pc' = [pc EXCEPT ![c] = place],
           UNCHANGED <<nthreads, asked>>, NEW n, Fork(c, n)
    PROVE  IInv'
<1> USE DEF IInv
<1> DEFINE new == [m \in 1..nthreads[c] |-> First(m - 1, nthreads[c], n) + 1]
<1>1. Sized(new, nthreads[c])
  <2>1. nthreads[c] \in Nat /\ nthreads[c] \in 0..nthreads[c]
    BY DEF Shapes
  <2>2. new = [m \in 1..nthreads[c] |-> new[m]]
    OBVIOUS
  <2> HIDE DEF new
  <2> QED
    BY <2>1, <2>2 DEF Sized
<1>2. team' = [team EXCEPT ![c] = new]
  BY DEF Fork
<1> HIDE DEF new
<1>3. team' = [d \in Callers |-> team'[d]] /\ team'[c] = new
      /\ \A d \in Callers \ {c} : team'[d] = team[d]
  BY <1>2 DEF Shapes
<1>4. Shapes' /\ Only(c) /\ pc'[c] = place
  BY <1>3 DEF Shapes, Only, Places
<1>5. Capped(c)'
  BY <1>1, <1>3, <1>4 DEF Capped
<1> QED
  BY <1>4, <1>5, OfOne

LEMMA Advanced ==
    ASSUME IInv, NEW c \in Callers, NEW m, UNCHANGED <<pc, nthreads, asked>>,
           pc[c] \in Regions, Advance(c, m)
    PROVE  IInv'
<1> USE DEF IInv
<1> DEFINE new == [team[c] EXCEPT ![m] = @ + 1]
<1>1. Sized(new, nthreads[c])
  BY AdvanceSized DEF Shapes, Capped
<1>2. team' = [team EXCEPT ![c] = new]
  BY DEF Advance
<1> HIDE DEF new
<1>3. team' = [d \in Callers |-> team'[d]] /\ team'[c] = new
      /\ \A d \in Callers \ {c} : team'[d] = team[d]
  BY <1>2 DEF Shapes
<1>4. Shapes' /\ Only(c)
  BY <1>3 DEF Shapes, Only
<1>5. Capped(c)'
  BY <1>1, <1>3 DEF Capped
<1> QED
  BY <1>4, <1>5, OfOne

-----------------------------------------------------------------------------
(***************************************************************************)
(* The steps.                                                              *)
(***************************************************************************)
LEMMA ProcessDocumentsStep ==
    ASSUME IInv, NEW c \in Callers, ProcessDocuments(c)
    PROVE  IInv'
<1> USE DEF IInv
<1>1. PICK w \in MaxWorkers :
         /\ pc[c] = "idle" /\ pc' = [pc EXCEPT ![c] = "fork"]
         /\ asked' = [asked EXCEPT ![c] = @ \cup {w}]
         /\ nthreads' = [nthreads EXCEPT ![c] = IF w > 0 /\ w < @ THEN w ELSE @]
         /\ UNCHANGED team
  BY DEF ProcessDocuments, Call, Goto, SetThreads
<1>2. w \in Int
  BY CleanerAssumption
<1>3. nthreads'[c] = IF w > 0 /\ w < nthreads[c] THEN w ELSE nthreads[c]
  BY <1>1 DEF Shapes
<1>4. nthreads'[c] \in Nat \ {0} /\ nthreads'[c] <= nthreads[c] /\ (w > 0 => nthreads'[c] <= w)
  BY <1>2, <1>3 DEF Shapes
<1>5. nthreads' \in [Callers -> Nat \ {0}] /\ \A d \in Callers \ {c} : nthreads'[d] = nthreads[d]
  BY <1>1, <1>3, <1>4 DEF Shapes
<1>6. Shapes' /\ Only(c)
  BY <1>1, <1>2, <1>5 DEF Shapes, Only, Places
<1>7. team'[c] = <<>> /\ pc'[c] = "fork" /\ asked'[c] = asked[c] \cup {w}
  BY <1>1 DEF Capped, Shapes, Regions
<1>8. Sized(<<>>, nthreads'[c])
  BY <1>4, NoTeamSized
<1>9. ASSUME NEW v \in asked'[c], v > 0 PROVE nthreads'[c] <= v
  <2>1. CASE v = w
    BY <1>4, <1>9, <2>1
  <2>2. CASE v \in asked[c]
    <3>1. v \in Int /\ nthreads[c] \in Nat /\ nthreads[c] <= v
      BY <1>9, <2>2 DEF Shapes, Capped
    <3> QED
      BY <1>4, <3>1
  <2> QED
    BY <1>7, <2>1, <2>2
<1>10. Capped(c)'
  BY <1>7, <1>8, <1>9 DEF Capped
<1> QED
  BY <1>6, <1>10, OfOne

LEMMA CallStep ==
    ASSUME IInv, NEW c \in Callers, Begin(c)
    PROVE  IInv'
<1> USE DEF Goto, Places, Regions, cleaner
<1>1. ASSUME ProcessDocument(c) PROVE IInv'
  <2>1. pc[c] = "idle" /\ pc' = [pc EXCEPT ![c] = "cleaned"] /\ UNCHANGED <<nthreads, team, asked>>
    BY <1>1 DEF ProcessDocument, Call
  <2> QED
    BY <2>1, Outside
<1>2. ASSUME ProcessDocuments(c) PROVE IInv'
  BY <1>2, ProcessDocumentsStep
<1>3. ASSUME add_message(c), UNCHANGED cleaner PROVE IInv'
  <2>1. pc[c] = "idle" /\ pc' = [pc EXCEPT ![c] = "add"] /\ UNCHANGED <<nthreads, team, asked>>
    BY <1>3 DEF add_message
  <2> QED
    BY <2>1, Outside
<1>4. ASSUME add_benchmark_messages_omp(c), UNCHANGED cleaner PROVE IInv'
  <2>1. PICK n \in Lengths : Fork(c, n)
    BY <1>4 DEF add_benchmark_messages_omp
  <2>2. pc' = [pc EXCEPT ![c] = "make"] /\ UNCHANGED <<nthreads, asked>>
    BY <1>4 DEF add_benchmark_messages_omp
  <2> QED
    BY <2>1, <2>2, Forked
<1>5. ASSUME get_messages(c), UNCHANGED cleaner PROVE IInv'
  <2>1. CASE messages = <<>>
    <3>1. pc[c] = "idle" /\ pc' = [pc EXCEPT ![c] = "got"] /\ UNCHANGED <<nthreads, team, asked>>
      BY <1>5, <2>1 DEF get_messages
    <3> QED
      BY <3>1, Outside
  <2>2. CASE messages # <<>>
    <3>1. pc' = [pc EXCEPT ![c] = "copy"] /\ UNCHANGED <<nthreads, asked>> /\ Fork(c, Len(messages))
      BY <1>5, <2>2 DEF get_messages
    <3> QED
      BY <3>1, Forked
  <2> QED
    BY <2>1, <2>2
<1>6. ASSUME clear(c), UNCHANGED cleaner PROVE IInv'
  BY <1>6, Stutter DEF clear
<1> QED
  BY <1>1, <1>2, <1>3, <1>4, <1>5, <1>6 DEF Begin, CleanerCall, ChatCall

LEMMA CleanerStepStep ==
    ASSUME IInv, NEW c \in Callers, CleanerStep(c)
    PROVE  IInv'
<1> USE DEF Goto, Places, Regions, cleaner
<1>1. ASSUME ForkCleaning(c) PROVE IInv'
  BY <1>1, Forked DEF ForkCleaning
<1>2. ASSUME JoinCleaning(c) PROVE IInv'
  BY <1>2, Outside DEF JoinCleaning
<1>3. ASSUME TakeDocuments(c) PROVE IInv'
  BY <1>3, Outside DEF TakeDocuments
<1>4. ASSUME NEW m, Clean(c, m) PROVE IInv'
  BY <1>4, Advanced DEF Clean
<1> QED
  BY <1>1, <1>2, <1>3, <1>4 DEF CleanerStep

LEMMA ChatStepStep ==
    ASSUME IInv, NEW c \in Callers, ChatStep(c), UNCHANGED cleaner
    PROVE  IInv'
<1> USE DEF Goto, Places, Regions, cleaner
<1>1. ASSUME JoinMaking(c) \/ JoinCopying(c) PROVE IInv'
  BY <1>1, Outside DEF JoinMaking, JoinCopying
<1>2. ASSUME LockForAdding(c) \/ UnlockAdded(c) \/ TakeMessages(c) PROVE IInv'
  BY <1>2, Outside DEF LockForAdding, UnlockAdded, TakeMessages
<1>3. ASSUME Insert(c) PROVE IInv'
  BY <1>3, Stutter DEF Insert, AppendFrom
<1>4. ASSUME NEW m, MakeMessage(c, m) \/ CopyMessage(c, m) PROVE IInv'
  BY <1>4, Advanced DEF MakeMessage, CopyMessage
<1> QED
  BY <1>1, <1>2, <1>3, <1>4 DEF ChatStep

(***************************************************************************)
(* The least max_workers that a thread has asked for limits every later    *)
(* team of it, in the history as in the cleaner (omp_set_num_threads,      *)
(* ContentCleaner.cpp:101): a call that asks for more does not raise it.       *)
(***************************************************************************)
THEOREM StaysCapped == Spec => []TeamStaysCapped
<1>1. IInv /\ [Next]_vars => IInv'
  <2> SUFFICES ASSUME IInv, [Next]_vars PROVE IInv'
    OBVIOUS
  <2>1. CASE UNCHANGED vars
    BY <2>1, Stutter DEF vars, cleaner
  <2>2. CASE Next
    <3>1. PICK c \in Callers : Begin(c) \/ Continue(c)
      BY <2>2 DEF Next
    <3> QED
      BY <3>1, CallStep, CleanerStepStep, ChatStepStep DEF Continue
  <2> QED
    BY <2>1, <2>2
<1>2. IInv => TeamStaysCapped
  <2> SUFFICES ASSUME IInv, NEW c \in Callers, NEW w \in asked[c], w > 0
               PROVE  Len(team[c]) <= w
    BY DEF TeamStaysCapped
  <2>1. nthreads[c] \in Nat /\ w \in Int /\ nthreads[c] <= w /\ Sized(team[c], nthreads[c])
    BY DEF IInv, Shapes, Capped
  <2>2. Len(team[c]) \in Nat /\ Len(team[c]) <= nthreads[c]
    BY <2>1, SizedLen
  <2> QED
    BY <2>1, <2>2
<1> QED
  BY <1>1, <1>2, Initially, PTL DEF Spec

-----------------------------------------------------------------------------
(***************************************************************************)
(* The static schedule: member m of p has the iterations First(m, p, n) up *)
(* to First(m + 1, p, n), the stretches follow each other, and together    *)
(* they are the loop.                                                      *)
(***************************************************************************)
LEMMA Division ==
    ASSUME NEW n \in Nat, NEW p \in Nat \ {0}
    PROVE  /\ n \div p \in Nat /\ n % p \in Nat /\ n % p < p
           /\ n = p * (n \div p) + (n % p)
OBVIOUS

LEMMA FirstNat ==
    ASSUME NEW n \in Nat, NEW p \in Nat \ {0}, NEW m \in Nat
    PROVE  First(m, p, n) \in Nat
<1> DEFINE q == n \div p  r == n % p
<1>1. q \in Nat /\ r \in Nat
  BY Division
<1>2. First(m, p, n) = m * q + (IF m < r THEN m ELSE r)
  BY DEF First
<1> HIDE DEF q, r
<1>3. m * q \in Nat
  BY <1>1
<1> QED
  BY <1>1, <1>2, <1>3

\* The first stretch begins at 0, the last one ends at n.
LEMMA FirstEnds ==
    ASSUME NEW n \in Nat, NEW p \in Nat \ {0}
    PROVE  First(0, p, n) = 0 /\ First(p, p, n) = n
<1> DEFINE q == n \div p  r == n % p
<1>1. q \in Nat /\ r \in Nat /\ r < p /\ n = p * q + r
  BY Division
<1>2. \A m \in Nat : First(m, p, n) = m * q + (IF m < r THEN m ELSE r)
  BY DEF First
<1> HIDE DEF q, r
<1>3. 0 * q = 0
  BY <1>1
<1> QED
  BY <1>1, <1>2, <1>3

\* How long the stretch of member m is: the first n % p have one iteration more.
LEMMA FirstNext ==
    ASSUME NEW n \in Nat, NEW p \in Nat \ {0}, NEW m \in Nat
    PROVE  First(m + 1, p, n) = First(m, p, n) + n \div p + (IF m < n % p THEN 1 ELSE 0)
<1> DEFINE q == n \div p  r == n % p
<1>1. q \in Nat /\ r \in Nat /\ r < p /\ n = p * q + r
  BY Division
<1>2. \A k \in Nat : First(k, p, n) = k * q + (IF k < r THEN k ELSE r)
  BY DEF First
<1> HIDE DEF q, r
<1>3. (m + 1) * q = m * q + q /\ m * q \in Nat
  BY <1>1
<1>4. First(m + 1, p, n) = First(m, p, n) + q + (IF m < r THEN 1 ELSE 0)
  BY <1>1, <1>2, <1>3
<1> QED
  BY <1>4 DEF q, r

\* Stretches are in the order of the members.
LEMMA FirstMonotone ==
    ASSUME NEW n \in Nat, NEW p \in Nat \ {0}, NEW i \in Nat, NEW j \in Nat, i <= j
    PROVE  First(i, p, n) <= First(j, p, n)
<1> DEFINE q == n \div p  r == n % p
<1>1. q \in Nat /\ r \in Nat /\ r < p /\ n = p * q + r
  BY Division
<1>2. \A k \in Nat : First(k, p, n) = k * q + (IF k < r THEN k ELSE r)
  BY DEF First
<1> HIDE DEF q, r
<1>3. i * q <= j * q /\ i * q \in Nat /\ j * q \in Nat
  <2>1. PICK d \in Nat : j = i + d
    BY i <= j, j = i + (j - i), j - i \in Nat
  <2>2. (i + d) * q = i * q + d * q /\ d * q \in Nat
    BY <1>1
  <2> QED
    BY <1>1, <2>1, <2>2
<1>4. (IF i < r THEN i ELSE r) <= (IF j < r THEN j ELSE r)
  BY <1>1
<1> QED
  BY <1>1, <1>2, <1>3, <1>4

\* Every iteration is in the stretch of a member.
LEMMA FirstCovers ==
    ASSUME NEW n \in Nat, NEW p \in Nat \ {0}, NEW i \in 1..n
    PROVE  \E m \in 1..p : First(m - 1, p, n) < i /\ i <= First(m, p, n)
<1> DEFINE q == n \div p  r == n % p
<1>1. q \in Nat /\ r \in Nat /\ r < p /\ n = p * q + r
  BY Division
<1>2. \A k \in Nat : First(k, p, n) = k * q + (IF k < r THEN k ELSE r)
  BY DEF First
<1> HIDE DEF q, r
<1>3. CASE i <= r * (q + 1)
  <2> DEFINE m == (i - 1) \div (q + 1)
             e == (i - 1) % (q + 1)
  <2>1. m \in Nat /\ e \in Nat /\ e < q + 1 /\ i - 1 = (q + 1) * m + e
    BY <1>1, Division, i - 1 \in Nat, q + 1 \in Nat \ {0}
  <2> HIDE DEF m, e
  <2>2. (q + 1) * m = m * q + m /\ m * q \in Nat /\ (m + 1) * q = m * q + q
    BY <1>1, <2>1
  <2>3. m < r
    <3> SUFFICES ASSUME r <= m PROVE FALSE
      BY <1>1, <2>1
    <3> DEFINE d == m - r
    <3>1. d \in Nat /\ m = r + d
      BY <1>1, <2>1
    <3> HIDE DEF d
    <3>2. (q + 1) * (r + d) = r * (q + 1) + d * (q + 1) /\ d * (q + 1) \in Nat /\ r * (q + 1) \in Nat
      BY <1>1, <3>1
    <3> QED
      BY <1>1, <1>3, <2>1, <3>1, <3>2
  <2>4. First(m, p, n) = m * q + m
    BY <1>2, <2>1, <2>3
  <2>5. First(m + 1, p, n) = m * q + q + m + 1
    <3>1. m + 1 \in Nat /\ (IF m + 1 < r THEN m + 1 ELSE r) = m + 1
      BY <1>1, <2>1, <2>3
    <3>2. First(m + 1, p, n) = (m + 1) * q + (m + 1)
      BY <1>2, <3>1
    <3> QED
      BY <1>1, <2>1, <2>2, <3>2
  <2>6. First(m, p, n) < i /\ i <= First(m + 1, p, n)
    BY <1>1, <2>1, <2>2, <2>4, <2>5
  <2>7. m + 1 \in 1..p /\ (m + 1) - 1 = m
    BY <1>1, <2>1, <2>3
  <2> QED
    BY <2>6, <2>7
<1>4. CASE r * (q + 1) < i
  <2>1. r * (q + 1) = r * q + r /\ r * (q + 1) \in Nat /\ r * q \in Nat
    BY <1>1
  <2> DEFINE j == i - r * (q + 1) - 1
  <2>2. j \in Nat /\ i = r * q + r + j + 1
    BY <1>4, <2>1
  <2>3. q # 0
    <3> SUFFICES ASSUME q = 0 PROVE FALSE
      OBVIOUS
    <3>1. n = r /\ r * (q + 1) = r
      BY <1>1
    <3> QED
      BY <1>4, <3>1
  <2> DEFINE m == j \div q
             e == j % q
  <2>4. m \in Nat /\ e \in Nat /\ e < q /\ j = q * m + e
    BY <1>1, <2>2, <2>3, Division
  <2> HIDE DEF j, m, e
  <2>5. (r + m) * q = r * q + q * m /\ (r + m + 1) * q = r * q + q * m + q /\ q * m \in Nat
    BY <1>1, <2>4
  <2>6. r + m < p
    <3> SUFFICES ASSUME p <= r + m PROVE FALSE
      BY <1>1, <2>4
    <3> DEFINE d == (r + m) - p
    <3>1. d \in Nat /\ r + m = p + d
      BY <1>1, <2>4
    <3> HIDE DEF d
    <3>2. (p + d) * q = p * q + d * q /\ d * q \in Nat /\ p * q \in Nat
      BY <1>1, <3>1
    <3> QED
      BY <1>1, <2>1, <2>2, <2>4, <2>5, <3>1, <3>2
  <2>7. First(r + m, p, n) = r * q + q * m + r
    BY <1>1, <1>2, <2>4, <2>5, r + m \in Nat
  <2>8. First(r + m + 1, p, n) = r * q + q * m + q + r
    <3>1. r + m + 1 \in Nat /\ ~(r + m + 1 < r)
      BY <1>1, <2>4
    <3>2. First(r + m + 1, p, n) = (r + m + 1) * q + r
      BY <1>2, <3>1
    <3> QED
      BY <1>1, <2>4, <2>5, <3>2
  <2>9. First(r + m, p, n) < i /\ i <= First(r + m + 1, p, n)
    BY <1>1, <2>1, <2>2, <2>4, <2>5, <2>7, <2>8
  <2>10. r + m + 1 \in 1..p /\ (r + m + 1) - 1 = r + m
    BY <1>1, <2>4, <2>6
  <2> QED
    BY <2>9, <2>10
<1>5. r * (q + 1) \in Nat
  BY <1>1
<1> QED
  BY <1>3, <1>4, <1>5

\* The stretch of member u of the team.
LEMMA MemberStretch ==
    ASSUME NEW n \in Nat, NEW p \in Nat \ {0}, NEW u \in 1..p
    PROVE  /\ First(u - 1, p, n) \in Nat /\ First(u, p, n) \in Nat
           /\ First(u - 1, p, n) <= First(u, p, n)
           /\ First(u, p, n) <= n
           /\ First(u, p, n) = First(u - 1, p, n) + n \div p + (IF u - 1 < n % p THEN 1 ELSE 0)
<1>1. u \in Nat /\ u - 1 \in Nat /\ u - 1 <= u /\ u <= p /\ (u - 1) + 1 = u
  OBVIOUS
<1>2. First((u - 1) + 1, p, n) = First(u - 1, p, n) + n \div p + (IF u - 1 < n % p THEN 1 ELSE 0)
  BY <1>1, FirstNext
<1>3. First(u - 1, p, n) \in Nat /\ First(u, p, n) \in Nat
  BY <1>1, FirstNat
<1>4. First(u - 1, p, n) <= First(u, p, n)
  BY <1>1, FirstMonotone
<1>5. First(u, p, n) <= First(p, p, n)
  BY <1>1, FirstMonotone
<1> QED
  BY <1>1, <1>2, <1>3, <1>4, <1>5, FirstEnds

-----------------------------------------------------------------------------
(***************************************************************************)
(* A team in its loop of n iterations.                                     *)
(***************************************************************************)
Progress(s, n) ==
    /\ s \in Seq(Int)
    /\ s # <<>>
    /\ \A m \in 1..Len(s) : s[m] \in (First(m - 1, Len(s), n) + 1)..(First(m, Len(s), n) + 1)

\* Iteration i is done.
DoneBy(s, n, i) == \E m \in 1..Len(s) : First(m - 1, Len(s), n) < i /\ i < s[m]

\* A new team is at the beginning, with nothing done.
LEMMA ForkProgress ==
    ASSUME NEW n \in Nat, NEW p \in Nat \ {0}, NEW s,
           s = [m \in 1..p |-> First(m - 1, p, n) + 1]
    PROVE  Progress(s, n) /\ \A i \in Int : ~DoneBy(s, n, i)
<1>1. \A m \in 1..p : First(m - 1, p, n) \in Nat /\ First(m, p, n) \in Nat
                       /\ First(m - 1, p, n) <= First(m, p, n)
  BY MemberStretch
<1>2. \A m \in 1..p : s[m] = First(m - 1, p, n) + 1 /\ s[m] \in Int
  BY <1>1
<1>3. s = [m \in 1..p |-> s[m]]
  OBVIOUS
<1>4. s \in Seq(Int) /\ Len(s) = p
  <2>1. s \in [1..p -> Int]
    BY <1>2, <1>3
  <2> QED
    BY <2>1
<1>5. s # <<>>
  BY <1>4
<1>6. \A m \in 1..p : s[m] \in (First(m - 1, p, n) + 1)..(First(m, p, n) + 1)
  BY <1>1, <1>2
<1>7. Progress(s, n)
  BY <1>4, <1>5, <1>6 DEF Progress
<1>8. ASSUME NEW i \in Int PROVE ~DoneBy(s, n, i)
  <2> SUFFICES ASSUME NEW m \in 1..p, First(m - 1, p, n) < i, i < s[m] PROVE FALSE
    BY <1>4 DEF DoneBy
  <2>1. First(m - 1, p, n) \in Nat /\ s[m] = First(m - 1, p, n) + 1
    BY <1>1, <1>2
  <2> QED
    BY <2>1
<1> QED
  BY <1>7, <1>8

\* A member that has iterations left does one of them, and no other.
LEMMA AdvanceProgress ==
    ASSUME NEW n \in Nat, NEW s, Progress(s, n), NEW m \in 1..Len(s), s[m] <= First(m, Len(s), n),
           NEW r, r = [s EXCEPT ![m] = @ + 1]
    PROVE  /\ Progress(r, n)
           /\ s[m] \in 1..n
           /\ Len(r) = Len(s)
           /\ \A i \in Int : DoneBy(r, n, i) => DoneBy(s, n, i) \/ i = s[m]
<1> DEFINE p == Len(s)
<1>1. s \in Seq(Int) /\ s # <<>> /\ p \in Nat \ {0}
  BY DEF Progress
<1>2. \A k \in 1..p : First(k - 1, p, n) \in Nat /\ First(k, p, n) \in Nat
                        /\ s[k] \in (First(k - 1, p, n) + 1)..(First(k, p, n) + 1)
  BY <1>1, MemberStretch DEF Progress
<1>3. s[m] \in Int /\ r \in Seq(Int) /\ Len(r) = p /\ r[m] = s[m] + 1
      /\ \A k \in 1..p : k # m => r[k] = s[k]
  BY <1>1
<1>4. First(m, p, n) <= n
  BY <1>1, MemberStretch
<1> HIDE DEF p
<1>5. s[m] \in 1..n
  <2>1. s[m] <= First(m, p, n)
    BY DEF p
  <2> QED
    BY <1>2, <1>4, <2>1 DEF p
<1>6. Progress(r, n)
  <2>1. r # <<>>
    BY <1>1, <1>3
  <2>2. ASSUME NEW k \in 1..p PROVE r[k] \in (First(k - 1, p, n) + 1)..(First(k, p, n) + 1)
    <3>1. CASE k = m
      <4>1. s[m] <= First(m, p, n)
        BY DEF p
      <4> QED
        BY <1>2, <1>3, <3>1, <4>1
    <3>2. CASE k # m
      BY <1>2, <1>3, <3>2
    <3> QED
      BY <3>1, <3>2
  <2> QED
    BY <1>3, <2>1, <2>2 DEF Progress
<1>7. ASSUME NEW i \in Int, DoneBy(r, n, i), i # s[m] PROVE DoneBy(s, n, i)
  <2>1. PICK k \in 1..p : First(k - 1, p, n) < i /\ i < r[k]
    BY <1>3, <1>7 DEF DoneBy
  <2>2. i < s[k]
    BY <1>2, <1>3, <1>7, <2>1
  <2> QED
    BY <2>1, <2>2 DEF DoneBy, p
<1> QED
  BY <1>3, <1>5, <1>6, <1>7 DEF p

\* The stretches of the members leave no iteration out.
\* When every member is at its end all iterations are done.
LEMMA FinishedProgress ==
    ASSUME NEW n \in Nat, NEW s, Progress(s, n), \A m \in 1..Len(s) : ~(s[m] <= First(m, Len(s), n))
    PROVE  /\ \A m \in 1..Len(s) : s[m] = First(m, Len(s), n) + 1
           /\ \A i \in 1..n : DoneBy(s, n, i)
<1> DEFINE p == Len(s)
<1>1. s \in Seq(Int) /\ s # <<>> /\ p \in Nat \ {0}
  BY DEF Progress
<1>2. \A k \in 1..p : First(k - 1, p, n) \in Nat /\ First(k, p, n) \in Nat
                        /\ s[k] \in (First(k - 1, p, n) + 1)..(First(k, p, n) + 1)
  BY <1>1, MemberStretch DEF Progress
<1>3. \A k \in 1..p : s[k] = First(k, p, n) + 1
  BY <1>2
<1>4. ASSUME NEW i \in 1..n PROVE DoneBy(s, n, i)
  <2>1. PICK k \in 1..p : First(k - 1, p, n) < i /\ i <= First(k, p, n)
    BY <1>1, FirstCovers
  <2>2. i < s[k]
    BY <1>2, <1>3, <2>1
  <2> QED
    BY <2>1, <2>2 DEF DoneBy
<1> QED
  BY <1>3, <1>4

-----------------------------------------------------------------------------
(***************************************************************************)
(* Messages x + 1 .. y of batch b, and what is left of a batch of n in the *)
(* vectors of a team of p when its first k messages are in the history.    *)
(***************************************************************************)
Stretch(b, x, y) == [i \in 1..(y - x) |-> <<b, x + i>>]

Larger(x, y) == IF x < y THEN y ELSE x

Left(b, p, n, k) == [t \in 1..p |-> Stretch(b, Larger(First(t - 1, p, n), k), First(t, p, n))]

LEMMA StretchSeq ==
    ASSUME NEW b, NEW x \in Nat, NEW y \in Nat, NEW S, b \in S
    PROVE  /\ Stretch(b, x, y) \in Seq(S \X Nat)
           /\ Stretch(b, x, y) = <<>> <=> y <= x
           /\ x <= y => Len(Stretch(b, x, y)) = y - x
           /\ \A i \in 1..(y - x) : Stretch(b, x, y)[i] = <<b, x + i>>
<1>1. CASE x <= y
  <2> DEFINE d == y - x
             s == Stretch(b, x, y)
  <2>1. d \in Nat /\ (d = 0 <=> y <= x)
    BY <1>1
  <2>2. s = [i \in 1..d |-> <<b, x + i>>]
    BY DEF Stretch
  <2> HIDE DEF d, s
  <2>3. s \in [1..d -> S \X Nat] /\ \A i \in 1..d : s[i] = <<b, x + i>>
    BY <2>1, <2>2
  <2>4. s \in Seq(S \X Nat) /\ Len(s) = d
    BY <2>1, <2>3
  <2>5. s = <<>> <=> d = 0
    BY <2>1, <2>4
  <2> QED
    BY <2>1, <2>3, <2>4, <2>5 DEF d, s
<1>2. CASE y < x
  <2>1. 1..(y - x) = {}
    BY <1>2
  <2>2. Stretch(b, x, y) = <<>>
    BY <2>1 DEF Stretch
  <2> QED
    BY <1>2, <2>1, <2>2
<1> QED
  BY <1>1, <1>2

LEMMA StretchEmpty ==
    ASSUME NEW b, NEW x \in Nat
    PROVE  Stretch(b, x, x) = <<>>
<1>1. x - x = 0 /\ 1..0 = {}
  OBVIOUS
<1> QED
  BY <1>1 DEF Stretch

\* A member that makes the next message makes its stretch one longer.
LEMMA StretchAppend ==
    ASSUME NEW b, NEW x \in Nat, NEW y \in Nat, x <= y
    PROVE  Append(Stretch(b, x, y), <<b, y + 1>>) = Stretch(b, x, y + 1)
<1> DEFINE d == y - x
           s == Stretch(b, x, y)
           r == Stretch(b, x, y + 1)
           M == {b} \X Nat
<1>1. b \in {b} /\ y + 1 \in Nat /\ x <= y + 1 /\ d \in Nat /\ (y + 1) - x = d + 1 /\ y = x + d
  OBVIOUS
<1>2. s \in Seq(M) /\ Len(s) = d /\ \A i \in 1..d : s[i] = <<b, x + i>>
  BY <1>1, StretchSeq
<1>3. r \in Seq(M) /\ Len(r) = d + 1 /\ \A i \in 1..(d + 1) : r[i] = <<b, x + i>>
  <2>1. r \in Seq(M) /\ Len(r) = (y + 1) - x /\ \A i \in 1..((y + 1) - x) : r[i] = <<b, x + i>>
    BY <1>1, StretchSeq
  <2> HIDE DEF d, r, M
  <2> QED
    BY <1>1, <2>1
<1>4. <<b, y + 1>> \in M
  OBVIOUS
<1> HIDE DEF d, s, r, M
<1> DEFINE a == Append(s, <<b, y + 1>>)
<1>5. a \in Seq(M) /\ Len(a) = d + 1 /\ a[d + 1] = <<b, y + 1>> /\ \A i \in 1..d : a[i] = s[i]
  BY <1>1, <1>2, <1>4
<1> HIDE DEF a
<1>6. \A i \in 1..(d + 1) : a[i] = r[i]
  <2> SUFFICES ASSUME NEW i \in 1..(d + 1) PROVE a[i] = r[i]
    OBVIOUS
  <2>1. CASE i = d + 1
    <3>1. x + (d + 1) = y + 1 /\ d + 1 \in 1..(d + 1)
      BY <1>1
    <3> QED
      BY <1>3, <1>5, <2>1, <3>1
  <2>2. CASE i \in 1..d
    BY <1>2, <1>3, <1>5, <2>2
  <2> QED
    BY <1>1, <2>1, <2>2
<1>7. a = r
  BY <1>3, <1>5, <1>6
<1> QED
  BY <1>7 DEF a, s, r

\* What is left of a stretch when its first message is taken.
LEMMA StretchTail ==
    ASSUME NEW b, NEW x \in Nat, NEW y \in Nat, x < y
    PROVE  Head(Stretch(b, x, y)) = <<b, x + 1>> /\ Tail(Stretch(b, x, y)) = Stretch(b, x + 1, y)
<1> DEFINE d == y - (x + 1)
           s == Stretch(b, x, y)
           r == Stretch(b, x + 1, y)
           M == {b} \X Nat
<1>1. b \in {b} /\ x + 1 \in Nat /\ x <= y /\ x + 1 <= y /\ d \in Nat /\ y - x = d + 1
  OBVIOUS
<1>2. r \in Seq(M) /\ Len(r) = d /\ \A i \in 1..d : r[i] = <<b, x + 1 + i>>
  BY <1>1, StretchSeq
<1>3. s \in Seq(M) /\ Len(s) = d + 1 /\ \A i \in 1..(d + 1) : s[i] = <<b, x + i>>
  <2>1. s \in Seq(M) /\ Len(s) = y - x /\ \A i \in 1..(y - x) : s[i] = <<b, x + i>>
    BY <1>1, StretchSeq
  <2> HIDE DEF d, s, M
  <2> QED
    BY <1>1, <2>1
<1> HIDE DEF d, s, r, M
<1>4. s # <<>> /\ Head(s) = <<b, x + 1>>
  BY <1>1, <1>3
<1>5. Tail(s) \in Seq(M) /\ Len(Tail(s)) = d /\ \A i \in 1..d : Tail(s)[i] = s[i + 1]
  BY <1>1, <1>3, <1>4
<1>6. \A i \in 1..d : Tail(s)[i] = r[i]
  <2> SUFFICES ASSUME NEW i \in 1..d PROVE Tail(s)[i] = r[i]
    OBVIOUS
  <2>1. i + 1 \in 1..(d + 1) /\ x + (i + 1) = x + 1 + i
    BY <1>1
  <2> QED
    BY <1>2, <1>3, <1>5, <2>1
<1>7. Tail(s) = r
  BY <1>2, <1>5, <1>6
<1> QED
  BY <1>4, <1>7 DEF s, r

\* Member t is the first one that has something left: it has the next message.
Foremost(b, p, n, k, t) ==
    /\ t \in 1..p /\ Left(b, p, n, k)[t] # <<>>
    /\ \A u \in 1..p : Left(b, p, n, k)[u] # <<>> => t <= u

HasNext(b, p, n, k, t) ==
    /\ k < n
    /\ Head(Left(b, p, n, k)[t]) = <<b, k + 1>>
    /\ [Left(b, p, n, k) EXCEPT ![t] = Tail(@)] = Left(b, p, n, k + 1)

LEMMA NextLeft ==
    ASSUME NEW b, NEW n \in Nat, NEW p \in Nat \ {0}, NEW k \in Nat, NEW t, Foremost(b, p, n, k, t)
    PROVE  HasNext(b, p, n, k, t)
<1> DEFINE left == Left(b, p, n, k)
<1>0. t \in 1..p /\ left[t] # <<>> /\ \A u \in 1..p : left[u] # <<>> => t <= u
  BY DEF Foremost
<1>1. \A u \in 1..p : /\ First(u - 1, p, n) \in Nat /\ First(u, p, n) \in Nat
                        /\ First(u - 1, p, n) <= First(u, p, n)
                        /\ First(u, p, n) <= n
                        /\ First(u, p, n) = First(u - 1, p, n) + n \div p + (IF u - 1 < n % p THEN 1 ELSE 0)
  BY MemberStretch
<1>2. n \div p \in Nat /\ n % p \in Nat
  BY Division
<1> DEFINE F(u) == First(u, p, n)
<1>3. \A u \in 1..p : left[u] = Stretch(b, Larger(F(u - 1), k), F(u)) /\ Larger(F(u - 1), k) \in Nat
                        /\ (left[u] = <<>> <=> F(u) <= Larger(F(u - 1), k))
  <2> SUFFICES ASSUME NEW u \in 1..p
               PROVE  left[u] = Stretch(b, Larger(F(u - 1), k), F(u)) /\ Larger(F(u - 1), k) \in Nat
                      /\ (left[u] = <<>> <=> F(u) <= Larger(F(u - 1), k))
    BY <1>0
  <2>1. left[u] = Stretch(b, Larger(F(u - 1), k), F(u))
    BY <1>0 DEF Left
  <2>2. Larger(F(u - 1), k) \in Nat /\ F(u) \in Nat
    BY <1>0, <1>1 DEF Larger
  <2> QED
    BY <1>0, <2>1, <2>2, StretchSeq, b \in {b}
<1>4. Larger(F(t - 1), k) < F(t)
  BY <1>0, <1>1, <1>3 DEF Larger
<1>5. F(t - 1) <= k
  <2>1. CASE t = 1
    BY <1>0, <2>1, FirstEnds
  <2>2. CASE t # 1
    <3> DEFINE u == t - 1
    <3>1. u \in 1..p /\ u < t
      BY <1>0, <2>2
    <3>2. F(u) <= Larger(F(u - 1), k)
      <4>1. ~(t <= u)
        BY <1>0, <3>1
      <4>2. left[u] = <<>>
        BY <1>0, <3>1, <4>1
      <4> HIDE DEF F, u
      <4> QED
        BY <1>0, <1>3, <3>1, <4>2
    <3>3. F(u) = F(u - 1) + n \div p + (IF u - 1 < n % p THEN 1 ELSE 0)
      BY <1>0, <1>1, <3>1
    <3>4. F(t) = F(t - 1) + n \div p + (IF t - 1 < n % p THEN 1 ELSE 0)
      BY <1>0, <1>1
    <3>5. F(u - 1) \in Nat /\ F(u) \in Nat /\ F(t) \in Nat /\ F(t - 1) \in Nat /\ F(t - 1) = F(u)
          /\ u = t - 1 /\ u \in Nat
      <4> HIDE DEF F
      <4>1. \A v \in 1..p : F(v - 1) \in Nat /\ F(v) \in Nat
        BY <1>0, <1>1 DEF F
      <4> QED
        BY <1>0, <3>1, <4>1
    <3> HIDE DEF F, u
    <3>6. F(t - 1) < F(t)
      BY <1>0, <1>4, <3>5 DEF Larger
    <3>7. F(u - 1) < F(u)
      BY <1>0, <1>2, <3>3, <3>4, <3>5, <3>6
    <3> QED
      BY <1>0, <3>2, <3>5, <3>7 DEF Larger
  <2> QED
    BY <1>0, <2>1, <2>2
<1>6. k < F(t) /\ Larger(F(t - 1), k) = k /\ F(t) <= n
  BY <1>0, <1>1, <1>4, <1>5 DEF Larger
<1>7. left[t] = Stretch(b, k, F(t))
  BY <1>0, <1>3, <1>6
<1>8. Head(left[t]) = <<b, k + 1>> /\ Tail(left[t]) = Stretch(b, k + 1, F(t))
  <2> DEFINE y == F(t)
  <2>1. y \in Nat /\ k < y /\ left[t] = Stretch(b, k, y)
    BY <1>0, <1>1, <1>6, <1>7
  <2> HIDE DEF y
  <2>2. Head(Stretch(b, k, y)) = <<b, k + 1>> /\ Tail(Stretch(b, k, y)) = Stretch(b, k + 1, y)
    BY <1>0, <2>1, StretchTail
  <2>3. Head(left[t]) = <<b, k + 1>> /\ Tail(left[t]) = Stretch(b, k + 1, y)
    BY <1>0, <2>1, <2>2
  <2> QED
    BY <1>0, <2>3 DEF y
<1>9. \A u \in 1..p : [left EXCEPT ![t] = Tail(@)][u] = Left(b, p, n, k + 1)[u]
  <2> SUFFICES ASSUME NEW u \in 1..p
               PROVE  [left EXCEPT ![t] = Tail(@)][u] = Left(b, p, n, k + 1)[u]
    BY <1>0
  <2>1. Left(b, p, n, k + 1)[u] = Stretch(b, Larger(F(u - 1), k + 1), F(u))
    BY <1>0 DEF Left
  <2>2. left = [v \in 1..p |-> left[v]]
    BY <1>0 DEF Left
  <2>3. [left EXCEPT ![t] = Tail(@)][u] = IF u = t THEN Tail(left[t]) ELSE left[u]
    BY <1>0, <2>2
  <2>4. CASE u = t
    <3>1. Larger(F(t - 1), k + 1) = k + 1
      BY <1>0, <1>1, <1>5 DEF Larger
    <3> QED
      BY <1>0, <1>8, <2>1, <2>3, <2>4, <3>1
  <2>5. CASE t < u
    <3>1. t \in Nat /\ u - 1 \in Nat /\ t <= u - 1
      BY <1>0, <2>5
    <3>2. F(t) <= F(u - 1) /\ F(t) \in Nat /\ F(u - 1) \in Nat
      BY <1>0, <1>1, <3>1, FirstMonotone
    <3>3. Larger(F(u - 1), k + 1) = F(u - 1) /\ Larger(F(u - 1), k) = F(u - 1)
      <4> HIDE DEF F
      <4> QED
        BY <1>0, <1>6, <3>2 DEF Larger
    <3> QED
      BY <1>0, <1>3, <2>1, <2>3, <2>5, <3>3
  <2>6. CASE u < t
    <3>1. t - 1 \in Nat /\ u \in Nat /\ u <= t - 1 /\ left[u] = <<>>
      BY <1>0, <2>6
    <3>2. F(u) <= F(t - 1) /\ F(u) \in Nat /\ F(t - 1) \in Nat /\ F(u - 1) \in Nat
      BY <1>0, <1>1, <3>1, FirstMonotone
    <3>3. F(u) <= Larger(F(u - 1), k + 1) /\ Larger(F(u - 1), k + 1) \in Nat
      <4> HIDE DEF F
      <4> QED
        BY <1>0, <1>5, <3>2 DEF Larger
    <3>4. Stretch(b, Larger(F(u - 1), k + 1), F(u)) = <<>>
      BY <1>0, <3>2, <3>3, StretchSeq, b \in {b}
    <3> QED
      BY <1>0, <2>1, <2>3, <2>6, <3>1, <3>4
  <2> QED
    BY <1>0, <2>4, <2>5, <2>6
<1>10. [left EXCEPT ![t] = Tail(@)] = Left(b, p, n, k + 1)
  BY <1>0, <1>9 DEF Left
<1>11. k < n
  <2>1. F(t) \in Nat
    BY <1>0, <1>1
  <2> HIDE DEF F
  <2> QED
    BY <1>0, <1>6, <2>1
<1> QED
  BY <1>8, <1>10, <1>11 DEF HasNext

\* When no member has anything left, the batch is complete.
LEMMA NoneLeft ==
    ASSUME NEW b, NEW n \in Nat, NEW p \in Nat \ {0}, NEW k \in Nat,
           \A t \in 1..p : Left(b, p, n, k)[t] = <<>>
    PROVE  n <= k
<1> SUFFICES ASSUME k < n PROVE FALSE
  OBVIOUS
<1>1. k + 1 \in 1..n
  OBVIOUS
<1>2. PICK t \in 1..p : First(t - 1, p, n) < k + 1 /\ k + 1 <= First(t, p, n)
  BY <1>1, FirstCovers
<1>3. First(t - 1, p, n) \in Nat /\ First(t, p, n) \in Nat
  <2>1. t - 1 \in Nat /\ t \in Nat
    OBVIOUS
  <2> QED
    BY <2>1, FirstNat
<1>4. Larger(First(t - 1, p, n), k) = k
  BY <1>2, <1>3 DEF Larger
<1>5. Stretch(b, k, First(t, p, n)) = <<>>
  BY <1>4 DEF Left
<1>6. First(t, p, n) <= k
  BY <1>3, <1>5, StretchSeq, b \in {b}
<1> QED
  BY <1>2, <1>3, <1>6

-----------------------------------------------------------------------------
(***************************************************************************)
(* The inductive invariant of the calls and what they leave.               *)
(***************************************************************************)
Adding == {"make", "add", "insert"}

Types ==
    /\ pc \in [Callers -> Places]
    /\ nthreads \in [Callers -> 1..Processors]
    /\ team = [c \in Callers |-> team[c]]
    /\ docs \in [Callers -> Lists \cup {<<>>}]
    /\ custom = [c \in Callers |-> custom[c]]
    /\ documents = [c \in Callers |-> documents[c]]
    /\ terminated \in BOOLEAN
    /\ messages \in Seq(added \X Nat)
    /\ vectors = [c \in Callers |-> vectors[c]]
    /\ total \in [Callers -> Nat]
    /\ number \in [Callers -> Nat]
    /\ result = [c \in Callers |-> result[c]]
    /\ added \subseteq Batches
    /\ calls \in 0..MaxCalls

\* messages_mutex.
Mutex ==
    \A c, d \in Callers : c # d /\ pc[c] = "insert" => pc[d] \notin {"insert", "copy"}

Distinct ==
    \A c, d \in Callers :
        c # d /\ pc[c] \in Adding /\ pc[d] \in Adding => number[c] # number[d]

\* How many iterations the loop of c has.
Count(c) ==
    IF pc[c] = "clean" THEN Len(docs[c]) ELSE IF pc[c] = "make" THEN total[c] ELSE Len(messages)

Works(c) == IF pc[c] \in Regions THEN Progress(team[c], Count(c)) ELSE team[c] = <<>>

\* Document i of c is cleaned.
Cleaned(c, i) == custom[c] # "bad" /\ documents[c][i] = CleanContent(docs[c][i], custom[c])

Cleans(c) ==
    /\ docs[c] # <<>> => pc[c] \in {"fork", "clean", "cleaned"}
    /\ documents[c] = [i \in DOMAIN docs[c] |-> documents[c][i]]
    /\ pc[c] = "cleaned" => \A i \in DOMAIN docs[c] : Cleaned(c, i)
    /\ pc[c] = "clean" =>
          \A i \in DOMAIN docs[c] : DoneBy(team[c], Len(docs[c]), i) => terminated \/ Cleaned(c, i)

\* What the members of the team of c have made.
Made(c) ==
    [m \in 1..Len(team[c]) |->
        Stretch(number[c], First(m - 1, Len(team[c]), total[c]), team[c][m] - 1)]

Adds(c) ==
    /\ pc[c] \in Adding => /\ number[c] \in Batches
                           /\ total[c] \in Lengths
                           /\ number[c] \in added <=> pc[c] = "insert"
    /\ pc[c] \notin Adding => vectors[c] = <<>>
    /\ pc[c] = "make" => vectors[c] = Made(c)
    /\ pc[c] = "add" => \E p \in Nat \ {0} : vectors[c] = Left(number[c], p, total[c], 0)
    /\ pc[c] = "insert" =>
          /\ Done(c) <= total[c]
          /\ \E p \in Nat \ {0} : vectors[c] = Left(number[c], p, total[c], Done(c))

Copies(c) ==
    /\ result[c] # <<>> => pc[c] \in {"copy", "got"}
    /\ pc[c] = "copy" =>
          /\ messages # <<>>
          /\ result[c] = [i \in DOMAIN messages |-> result[c][i]]
          /\ \A i \in DOMAIN messages : DoneBy(team[c], Len(messages), i) => result[c][i] = messages[i]

Local(c) == Works(c) /\ Cleans(c) /\ Adds(c) /\ Copies(c)

HInv == Types /\ Mutex /\ Distinct /\ \A c \in Callers : Local(c)
-----------------------------------------------------------------------------
(***************************************************************************)
(* What a step of one thread leaves alone.                                 *)
(***************************************************************************)
Apart(c) ==
    \A d \in Callers \ {c} :
        /\ pc'[d] = pc[d] /\ team'[d] = team[d]
        /\ docs'[d] = docs[d] /\ custom'[d] = custom[d] /\ documents'[d] = documents[d]
        /\ vectors'[d] = vectors[d] /\ total'[d] = total[d] /\ number'[d] = number[d]
        /\ result'[d] = result[d]

\* What a step of c leaves alone, and what of it the callers d see: nothing that their
\* part of the invariant is about.
LEMMA Others ==
    ASSUME HInv, NEW c \in Callers, Apart(c),
           \/ messages' = messages
           \/ \A d \in Callers \ {c} : pc[d] \notin {"insert", "copy"},
           terminated => terminated',
           added' = added \/ (pc[c] \in Adding /\ added' = added \cup {number[c]}),
           NEW d \in Callers \ {c}
    PROVE  Local(d)'
<1>1. /\ pc'[d] = pc[d] /\ team'[d] = team[d]
      /\ docs'[d] = docs[d] /\ custom'[d] = custom[d] /\ documents'[d] = documents[d]
      /\ vectors'[d] = vectors[d] /\ total'[d] = total[d] /\ number'[d] = number[d]
      /\ result'[d] = result[d]
  BY DEF Apart
<1>2. Works(d) /\ Cleans(d) /\ Adds(d) /\ Copies(d) /\ c # d
  BY DEF HInv, Local
<1>3. pc[d] \in {"insert", "copy"} => messages' = messages
  OBVIOUS
<1>4. Works(d)'
  BY <1>1, <1>2, <1>3 DEF Works, Count, Regions
<1>5. Cleans(d)'
  BY <1>1, <1>2 DEF Cleans, Cleaned
<1>6. Adds(d)'
  <2>1. pc[d] \in Adding => (number[d] \in added' <=> pc[d] = "insert")
    BY <1>2 DEF HInv, Distinct, Adds
  <2>2. Made(d)' = Made(d)
    BY <1>1 DEF Made
  <2>3. pc[d] = "insert" => Done(d)' = Done(d)
    BY <1>1, <1>3 DEF Done
  <2> QED
    BY <1>1, <1>2, <2>1, <2>2, <2>3 DEF Adds
<1>7. Copies(d)'
  BY <1>1, <1>2, <1>3 DEF Copies
<1> QED
  BY <1>4, <1>5, <1>6, <1>7 DEF Local

LEMMA OneMoves ==
    ASSUME HInv, NEW c \in Callers, Types', Apart(c),
           \/ messages' = messages
           \/ \A d \in Callers \ {c} : pc[d] \notin {"insert", "copy"},
           terminated => terminated',
           added' = added \/ (pc[c] \in Adding /\ added' = added \cup {number[c]}),
           pc'[c] = "insert" => \A d \in Callers \ {c} : pc[d] \notin {"insert", "copy"},
           pc'[c] = "copy" => \A d \in Callers \ {c} : pc[d] # "insert",
           pc'[c] \in Adding =>
               \A d \in Callers \ {c} : pc[d] \in Adding => number[d] # number'[c],
           Local(c)'
    PROVE  HInv'
<1>1. \A d \in Callers \ {c} : pc'[d] = pc[d] /\ number'[d] = number[d]
  BY DEF Apart
<1>2. Mutex'
  BY <1>1 DEF HInv, Mutex
<1>3. Distinct'
  BY <1>1 DEF HInv, Distinct
<1>4. \A d \in Callers : Local(d)'
  <2>1. \A d \in Callers \ {c} : Local(d)'
    BY Others
  <2> QED
    BY <2>1
<1> QED
  BY <1>2, <1>3, <1>4 DEF HInv

Elsewhere == {"idle", "fork", "clean", "cleaned"}

LEMMA CleanerMoves ==
    ASSUME HInv, NEW c \in Callers, Types', Apart(c), UNCHANGED chat, terminated => terminated',
           pc[c] \in Elsewhere, pc'[c] \in Elsewhere, Works(c)', Cleans(c)'
    PROVE  HInv'
<1>1. vectors[c] = <<>> /\ result[c] = <<>>
  BY DEF HInv, Local, Adds, Copies, Adding, Elsewhere
<1>2. Adds(c)' /\ Copies(c)'
  BY <1>1 DEF Adds, Copies, Adding, Elsewhere, chat
<1>3. Local(c)'
  BY <1>2 DEF Local
<1>4. messages' = messages /\ added' = added
      /\ pc'[c] \notin {"insert", "copy"} /\ pc'[c] \notin Adding
  BY DEF chat, Elsewhere, Adding
<1> QED
  BY <1>3, <1>4, OneMoves

ChatPlaces == {"idle", "make", "add", "insert", "copy", "got"}

LEMMA NoDocuments ==
    ASSUME HInv, NEW c \in Callers, UNCHANGED cleaner, pc[c] \in ChatPlaces, pc'[c] \in ChatPlaces
    PROVE  Cleans(c)' /\ (terminated => terminated')
<1>1. docs[c] = <<>> /\ documents[c] = [i \in DOMAIN docs[c] |-> documents[c][i]]
  BY DEF HInv, Local, Cleans, ChatPlaces
<1> QED
  BY <1>1 DEF Cleans, cleaner, ChatPlaces

\* A function that one index of is changed.
LEMMA Updated ==
    ASSUME NEW S, NEW f, f = [x \in S |-> f[x]], NEW c \in S, NEW v, NEW g, g = [f EXCEPT ![c] = v]
    PROVE  g = [x \in S |-> g[x]] /\ g[c] = v /\ \A d \in S \ {c} : g[d] = f[d]
OBVIOUS

LEMMA DocsSeq ==
    ASSUME HInv, NEW c \in Callers
    PROVE  docs[c] \in Seq(Seq({"w", "s", "p", "f"})) /\ DOMAIN docs[c] = 1..Len(docs[c])
           /\ Len(docs[c]) \in Nat
<1>1. docs[c] \in Lists \cup {<<>>}
  BY DEF HInv, Types
<1>2. docs[c] \in Seq(Seq({"w", "s", "p", "f"}))
  <2>1. CASE docs[c] \in Lists
    BY <2>1, CleanerAssumption
  <2>2. CASE docs[c] = <<>>
    BY <2>2
  <2> QED
    BY <1>1, <2>1, <2>2
<1> QED
  BY <1>2

LEMMA InitiallyHolds == Init => HInv
<1> SUFFICES ASSUME Init PROVE HInv
  OBVIOUS
<1> USE DEF Init, OpenMPInit, CleanerInit, ChatInit
<1>1. Types
  <2>1. messages \in Seq(added \X Nat)
    OBVIOUS
  <2>2. calls \in 0..MaxCalls
    BY SessionAssumption
  <2>3. nthreads \in [Callers -> 1..Processors]
    BY OpenMPAssumption
  <2>4. pc \in [Callers -> Places] /\ docs \in [Callers -> Lists \cup {<<>>}]
    BY DEF Places
  <2> QED
    BY <2>1, <2>2, <2>3, <2>4 DEF Types
<1>2. Mutex /\ Distinct
  BY DEF Mutex, Distinct, Adding
<1>3. ASSUME NEW c \in Callers PROVE Local(c)
  <2>1. Works(c)
    BY DEF Works, Regions
  <2>2. Cleans(c)
    BY DEF Cleans
  <2>3. Adds(c) /\ Copies(c)
    BY DEF Adds, Copies, Adding
  <2> QED
    BY <2>1, <2>2, <2>3 DEF Local
<1> QED
  BY <1>1, <1>2, <1>3 DEF HInv

-----------------------------------------------------------------------------
(***************************************************************************)
(* The steps of the cleaner.                                               *)
(***************************************************************************)
LEMMA ProcessDocumentHolds ==
    ASSUME HInv, NEW c \in Callers, ProcessDocument(c), UNCHANGED chat, calls' \in 0..MaxCalls
    PROVE  HInv'
<1>1. PICK list \in Lists, pattern \in Customs \ {"bad"} :
         /\ Len(list) = 1 /\ pc[c] = "idle"
         /\ docs' = [docs EXCEPT ![c] = list]
         /\ custom' = [custom EXCEPT ![c] = pattern]
         /\ documents' = [documents EXCEPT ![c] = <<CleanContent(list[1], pattern)>>]
         /\ pc' = [pc EXCEPT ![c] = "cleaned"]
         /\ UNCHANGED <<nthreads, team, asked, terminated>>
  BY DEF ProcessDocument, Call, Goto
<1>2. list \in Seq(Seq({"w", "s", "p", "f"})) /\ DOMAIN list = 1..1
  BY <1>1, CleanerAssumption
<1>3. Types
  BY DEF HInv
<1>4. /\ pc'[c] = "cleaned" /\ docs'[c] = list /\ custom'[c] = pattern
      /\ documents'[c] = <<CleanContent(list[1], pattern)>> /\ team'[c] = team[c]
  BY <1>1, <1>3 DEF Types
<1>5. Apart(c)
  BY <1>1, <1>3 DEF Apart, Types, chat
<1>6. Types'
  <2>1. docs' \in [Callers -> Lists \cup {<<>>}]
    BY <1>1, <1>3 DEF Types
  <2>2. pc' \in [Callers -> Places]
    BY <1>1, <1>3 DEF Types, Places
  <2>3. custom' = [d \in Callers |-> custom'[d]] /\ documents' = [d \in Callers |-> documents'[d]]
    BY <1>1, <1>3, Updated DEF Types
  <2> QED
    BY <1>1, <1>3, <2>1, <2>2, <2>3 DEF Types, chat
<1>7. Works(c)'
  BY <1>1, <1>4 DEF HInv, Local, Works, Regions
<1>8. Cleans(c)'
  <2>1. documents'[c] = [i \in 1..1 |-> documents'[c][i]] /\ documents'[c][1] = CleanContent(list[1], pattern)
    BY <1>4
  <2> QED
    BY <1>1, <1>2, <1>4, <2>1 DEF Cleans, Cleaned
<1>9. pc[c] \in Elsewhere /\ pc'[c] \in Elsewhere
  BY <1>1, <1>4 DEF Elsewhere
<1> QED
  BY <1>1, <1>5, <1>6, <1>7, <1>8, <1>9, CleanerMoves

LEMMA ProcessDocumentsHolds ==
    ASSUME HInv, NEW c \in Callers, ProcessDocuments(c), UNCHANGED chat, calls' \in 0..MaxCalls
    PROVE  HInv'
<1>1. PICK list \in Lists, pattern \in Customs, w \in MaxWorkers :
         /\ pc[c] = "idle"
         /\ docs' = [docs EXCEPT ![c] = list]
         /\ custom' = [custom EXCEPT ![c] = pattern]
         /\ documents' = [documents EXCEPT ![c] = [i \in DOMAIN list |-> <<>>]]
         /\ nthreads' = [nthreads EXCEPT ![c] = IF w > 0 /\ w < @ THEN w ELSE @]
         /\ pc' = [pc EXCEPT ![c] = "fork"]
         /\ UNCHANGED <<team, terminated>>
  BY DEF ProcessDocuments, Call, Goto, SetThreads
<1>2. w \in Int
  BY CleanerAssumption
<1>3. Types
  BY DEF HInv
<1>4. /\ pc'[c] = "fork" /\ docs'[c] = list
      /\ documents'[c] = [i \in DOMAIN list |-> <<>>] /\ team'[c] = team[c]
  BY <1>1, <1>3 DEF Types
<1>5. Apart(c)
  BY <1>1, <1>3 DEF Apart, Types, chat
<1>6. Types'
  <2>1. docs' \in [Callers -> Lists \cup {<<>>}]
    BY <1>1, <1>3 DEF Types
  <2>2. pc' \in [Callers -> Places]
    BY <1>1, <1>3 DEF Types, Places
  <2>3. custom' = [d \in Callers |-> custom'[d]] /\ documents' = [d \in Callers |-> documents'[d]]
    BY <1>1, <1>3, Updated DEF Types
  <2>4. nthreads' \in [Callers -> 1..Processors]
    <3>1. (IF w > 0 /\ w < nthreads[c] THEN w ELSE nthreads[c]) \in 1..Processors
      BY <1>2, <1>3, OpenMPAssumption DEF Types
    <3> QED
      BY <1>1, <1>3, <3>1 DEF Types
  <2> QED
    BY <1>1, <1>3, <2>1, <2>2, <2>3, <2>4 DEF Types, chat
<1>7. Works(c)'
  BY <1>1, <1>4 DEF HInv, Local, Works, Regions
<1>8. Cleans(c)'
  BY <1>4 DEF Cleans
<1>9. pc[c] \in Elsewhere /\ pc'[c] \in Elsewhere
  BY <1>1, <1>4 DEF Elsewhere
<1> QED
  BY <1>1, <1>5, <1>6, <1>7, <1>8, <1>9, CleanerMoves

\* The team that Fork makes.
LEMMA TeamForked ==
    ASSUME HInv, NEW c \in Callers, NEW n \in Nat, Fork(c, n)
    PROVE  /\ team' = [d \in Callers |-> team'[d]]
           /\ \A d \in Callers \ {c} : team'[d] = team[d]
           /\ Progress(team'[c], n)
           /\ \A i \in Int : ~DoneBy(team'[c], n, i)
           /\ team'[c] = [m \in 1..nthreads[c] |-> First(m - 1, nthreads[c], n) + 1]
           /\ Len(team'[c]) = nthreads[c]
           /\ nthreads[c] \in Nat \ {0}
<1> DEFINE p == nthreads[c]
           new == [m \in 1..p |-> First(m - 1, p, n) + 1]
<1>1. p \in Nat \ {0} /\ team = [d \in Callers |-> team[d]]
  BY OpenMPAssumption DEF HInv, Types
<1>2. team' = [team EXCEPT ![c] = new]
  BY DEF Fork
<1>3. Progress(new, n) /\ \A i \in Int : ~DoneBy(new, n, i)
  BY <1>1, ForkProgress
<1>4. Len(new) = p
  <2>1. new \in [1..p -> {First(m - 1, p, n) + 1 : m \in 1..p}]
    OBVIOUS
  <2> HIDE DEF new, p
  <2> QED
    BY <1>1, <2>1
<1> HIDE DEF new
<1>5. team' = [d \in Callers |-> team'[d]] /\ team'[c] = new
      /\ \A d \in Callers \ {c} : team'[d] = team[d]
  BY <1>1, <1>2, Updated
<1> QED
  BY <1>1, <1>3, <1>4, <1>5 DEF new

LEMMA TeamAdvanced ==
    ASSUME HInv, NEW c \in Callers, NEW n \in Nat, Progress(team[c], n),
           NEW m \in 1..Len(team[c]), Running(c, m, n), Advance(c, m)
    PROVE  /\ team' = [d \in Callers |-> team'[d]]
           /\ \A d \in Callers \ {c} : team'[d] = team[d]
           /\ team'[c] = [team[c] EXCEPT ![m] = @ + 1]
           /\ Progress(team'[c], n)
           /\ team[c][m] \in 1..n
           /\ Len(team'[c]) = Len(team[c])
           /\ \A i \in Int : DoneBy(team'[c], n, i) => DoneBy(team[c], n, i) \/ i = team[c][m]
<1> DEFINE new == [team[c] EXCEPT ![m] = @ + 1]
<1>1. team = [d \in Callers |-> team[d]]
  BY DEF HInv, Types
<1>2. team' = [team EXCEPT ![c] = new]
  BY DEF Advance
<1>3. team[c][m] <= First(m, Len(team[c]), n)
  BY DEF Running
<1>4. /\ Progress(new, n)
      /\ team[c][m] \in 1..n
      /\ Len(new) = Len(team[c])
      /\ \A i \in Int : DoneBy(new, n, i) => DoneBy(team[c], n, i) \/ i = team[c][m]
  BY <1>3, AdvanceProgress
<1> HIDE DEF new
<1>5. team' = [d \in Callers |-> team'[d]] /\ team'[c] = new
      /\ \A d \in Callers \ {c} : team'[d] = team[d]
  BY <1>1, <1>2, Updated
<1> QED
  BY <1>4, <1>5 DEF new

LEMMA TeamDisbanded ==
    ASSUME HInv, NEW c \in Callers, Disband(c)
    PROVE  /\ team' = [d \in Callers |-> team'[d]]
           /\ \A d \in Callers \ {c} : team'[d] = team[d]
           /\ team'[c] = <<>>
<1>1. team = [d \in Callers |-> team[d]]
  BY DEF HInv, Types
<1>2. team' = [team EXCEPT ![c] = <<>>]
  BY DEF Disband
<1> QED
  BY <1>1, <1>2, Updated

LEMMA ForkCleaningHolds ==
    ASSUME HInv, NEW c \in Callers, ForkCleaning(c), UNCHANGED <<chat, calls>>
    PROVE  HInv'
<1>1. /\ pc[c] = "fork" /\ Fork(c, Len(docs[c])) /\ pc' = [pc EXCEPT ![c] = "clean"]
      /\ UNCHANGED <<nthreads, docs, custom, documents, asked, terminated>>
  BY DEF ForkCleaning, Goto, cleaner
<1>2. Types
  BY DEF HInv
<1>3. Len(docs[c]) \in Nat /\ DOMAIN docs[c] = 1..Len(docs[c])
  BY DocsSeq
<1>4. /\ team' = [d \in Callers |-> team'[d]]
      /\ \A d \in Callers \ {c} : team'[d] = team[d]
      /\ Progress(team'[c], Len(docs[c]))
      /\ \A i \in Int : ~DoneBy(team'[c], Len(docs[c]), i)
  BY <1>1, <1>3, TeamForked
<1>5. pc' \in [Callers -> Places] /\ pc'[c] = "clean" /\ \A d \in Callers \ {c} : pc'[d] = pc[d]
  BY <1>1, <1>2 DEF Types, Places, Regions
<1>6. Types'
  BY <1>1, <1>2, <1>4, <1>5 DEF Types, chat
<1>7. Apart(c)
  BY <1>1, <1>4, <1>5 DEF Apart, chat
<1>8. Works(c)'
  BY <1>1, <1>4, <1>5 DEF Works, Count, Regions
<1>9. Cleans(c)'
  <2>1. documents[c] = [i \in DOMAIN docs[c] |-> documents[c][i]]
    BY DEF HInv, Local, Cleans
  <2>2. \A i \in DOMAIN docs[c] : ~DoneBy(team'[c], Len(docs[c]), i)
    BY <1>3, <1>4
  <2> QED
    BY <1>1, <1>5, <2>1, <2>2 DEF Cleans
<1>10. pc[c] \in Elsewhere /\ pc'[c] \in Elsewhere
  BY <1>1, <1>5 DEF Elsewhere
<1> QED
  BY <1>1, <1>6, <1>7, <1>8, <1>9, <1>10, CleanerMoves DEF chat

LEMMA CleanHolds ==
    ASSUME HInv, NEW c \in Callers, NEW m \in 1..Len(team[c]), Clean(c, m), UNCHANGED <<chat, calls>>
    PROVE  HInv'
<1> DEFINE n == Len(docs[c])
           at == team[c][m]
<1>1. /\ pc[c] = "clean" /\ Running(c, m, n) /\ Advance(c, m)
      /\ \/ custom[c] = "bad" /\ terminated' = TRUE /\ UNCHANGED documents
         \/ /\ custom[c] # "bad" /\ UNCHANGED terminated
            /\ documents' = [documents EXCEPT ![c][at] = CleanContent(docs[c][at], custom[c])]
      /\ UNCHANGED <<pc, nthreads, docs, custom, asked>>
  BY DEF Clean
<1>2. Types
  BY DEF HInv
<1>3. n \in Nat /\ DOMAIN docs[c] = 1..n
  BY DocsSeq
<1>4. Progress(team[c], n)
  BY <1>1 DEF HInv, Local, Works, Count, Regions
<1>5. /\ team' = [d \in Callers |-> team'[d]]
      /\ \A d \in Callers \ {c} : team'[d] = team[d]
      /\ Progress(team'[c], n)
      /\ at \in 1..n
      /\ \A i \in Int : DoneBy(team'[c], n, i) => DoneBy(team[c], n, i) \/ i = at
  BY <1>1, <1>3, <1>4, TeamAdvanced
<1>6. documents[c] = [i \in DOMAIN docs[c] |-> documents[c][i]]
      /\ \A i \in DOMAIN docs[c] : DoneBy(team[c], n, i) => terminated \/ Cleaned(c, i)
  BY <1>1 DEF HInv, Local, Cleans
<1>7. /\ documents' = [d \in Callers |-> documents'[d]]
      /\ \A d \in Callers \ {c} : documents'[d] = documents[d]
      /\ documents'[c] = [i \in DOMAIN docs[c] |-> documents'[c][i]]
      /\ \A i \in DOMAIN docs[c] \ {at} : documents'[c][i] = documents[c][i]
      /\ terminated' \/ (custom[c] # "bad" /\ documents'[c][at] = CleanContent(docs[c][at], custom[c]))
      /\ terminated' \in BOOLEAN /\ (terminated => terminated')
  <2>1. CASE custom[c] = "bad"
    <3>1. terminated' = TRUE /\ documents' = documents
      BY <1>1, <2>1
    <3> QED
      BY <1>2, <1>6, <3>1 DEF Types
  <2>2. CASE custom[c] # "bad"
    <3> DEFINE new == CleanContent(docs[c][at], custom[c])
               row == [documents[c] EXCEPT ![at] = new]
    <3>1. documents' = [documents EXCEPT ![c] = row] /\ terminated' = terminated
      BY <1>1, <2>2
    <3>2. row = [i \in DOMAIN docs[c] |-> row[i]] /\ row[at] = new
          /\ \A i \in DOMAIN docs[c] \ {at} : row[i] = documents[c][i]
      <4> HIDE DEF new, at
      <4>1. at \in DOMAIN docs[c]
        BY <1>3, <1>5
      <4> QED
        BY <1>6, <4>1, Updated
    <3> HIDE DEF row, new
    <3>3. documents' = [d \in Callers |-> documents'[d]] /\ documents'[c] = row
          /\ \A d \in Callers \ {c} : documents'[d] = documents[d]
      BY <1>2, <3>1, Updated DEF Types
    <3> QED
      BY <1>2, <2>2, <3>1, <3>2, <3>3 DEF Types, new
  <2> QED
    BY <2>1, <2>2
<1> HIDE DEF n, at
<1>8. Types'
  BY <1>1, <1>2, <1>5, <1>7 DEF Types, chat
<1>9. Apart(c)
  BY <1>1, <1>5, <1>7 DEF Apart, chat
<1>10. Works(c)'
  BY <1>1, <1>5 DEF Works, Count, Regions, n
<1>11. Cleans(c)'
  <2>1. ASSUME NEW i \in DOMAIN docs[c], DoneBy(team'[c], n, i), ~terminated'
        PROVE  custom[c] # "bad" /\ documents'[c][i] = CleanContent(docs[c][i], custom[c])
    <3>1. CASE i = at
      BY <1>7, <2>1, <3>1
    <3>2. CASE i # at
      <4>1. i \in Int
        BY <1>3
      <4>2. Cleaned(c, i)
        BY <1>5, <1>6, <1>7, <2>1, <3>2, <4>1
      <4> QED
        BY <1>7, <3>2, <4>2 DEF Cleaned
    <3> QED
      BY <3>1, <3>2
  <2> QED
    BY <1>1, <1>7, <2>1 DEF Cleans, Cleaned, n
<1>12. pc[c] \in Elsewhere /\ pc'[c] \in Elsewhere
  BY <1>1 DEF Elsewhere
<1> QED
  BY <1>7, <1>8, <1>9, <1>10, <1>11, <1>12, CleanerMoves DEF chat

LEMMA JoinCleaningHolds ==
    ASSUME HInv, ~terminated, NEW c \in Callers, JoinCleaning(c), UNCHANGED <<chat, calls>>
    PROVE  HInv'
<1> DEFINE n == Len(docs[c])
<1>1. /\ pc[c] = "clean" /\ Finished(c, n) /\ Disband(c) /\ pc' = [pc EXCEPT ![c] = "cleaned"]
      /\ UNCHANGED <<nthreads, docs, custom, documents, asked, terminated>>
  BY DEF JoinCleaning, Goto, cleaner
<1>2. Types
  BY DEF HInv
<1>3. n \in Nat /\ DOMAIN docs[c] = 1..n
  BY DocsSeq
<1>4. Progress(team[c], n)
  BY <1>1 DEF HInv, Local, Works, Count, Regions
<1>5. \A i \in 1..n : DoneBy(team[c], n, i)
  <2>1. \A m \in 1..Len(team[c]) : ~(team[c][m] <= First(m, Len(team[c]), n))
    BY <1>1 DEF Finished, Running
  <2> QED
    BY <1>3, <1>4, <2>1, FinishedProgress
<1>6. team' = [d \in Callers |-> team'[d]] /\ team'[c] = <<>>
      /\ \A d \in Callers \ {c} : team'[d] = team[d]
  BY <1>1, TeamDisbanded
<1>7. pc' \in [Callers -> Places] /\ pc'[c] = "cleaned" /\ \A d \in Callers \ {c} : pc'[d] = pc[d]
  BY <1>1, <1>2 DEF Types, Places
<1>8. Types'
  BY <1>1, <1>2, <1>6, <1>7 DEF Types, chat
<1>9. Apart(c)
  BY <1>1, <1>6, <1>7 DEF Apart, chat
<1>10. Works(c)'
  BY <1>6, <1>7 DEF Works, Regions
<1>11. Cleans(c)'
  <2>1. documents[c] = [i \in DOMAIN docs[c] |-> documents[c][i]]
        /\ \A i \in DOMAIN docs[c] : DoneBy(team[c], n, i) => terminated \/ Cleaned(c, i)
    BY <1>1 DEF HInv, Local, Cleans
  <2>2. \A i \in DOMAIN docs[c] : Cleaned(c, i)
    BY <1>3, <1>5, <2>1
  <2> QED
    BY <1>1, <1>7, <2>1, <2>2 DEF Cleans, Cleaned
<1>12. pc[c] \in Elsewhere /\ pc'[c] \in Elsewhere
  BY <1>1, <1>7 DEF Elsewhere
<1> QED
  BY <1>1, <1>8, <1>9, <1>10, <1>11, <1>12, CleanerMoves DEF chat

LEMMA TakeDocumentsHolds ==
    ASSUME HInv, NEW c \in Callers, TakeDocuments(c), UNCHANGED <<chat, calls>>
    PROVE  HInv'
<1>1. /\ pc[c] = "cleaned"
      /\ docs' = [docs EXCEPT ![c] = <<>>]
      /\ custom' = [custom EXCEPT ![c] = "none"]
      /\ documents' = [documents EXCEPT ![c] = <<>>]
      /\ pc' = [pc EXCEPT ![c] = "idle"]
      /\ UNCHANGED <<nthreads, team, asked, terminated>>
  BY DEF TakeDocuments, Goto
<1>2. Types
  BY DEF HInv
<1>3. /\ pc' \in [Callers -> Places] /\ pc'[c] = "idle"
      /\ docs' \in [Callers -> Lists \cup {<<>>}] /\ docs'[c] = <<>>
      /\ documents'[c] = <<>>
      /\ \A d \in Callers \ {c} : pc'[d] = pc[d] /\ docs'[d] = docs[d]
  BY <1>1, <1>2 DEF Types, Places
<1>4. /\ custom' = [d \in Callers |-> custom'[d]] /\ documents' = [d \in Callers |-> documents'[d]]
      /\ \A d \in Callers \ {c} : custom'[d] = custom[d] /\ documents'[d] = documents[d]
  BY <1>1, <1>2, Updated DEF Types
<1>5. Types'
  BY <1>1, <1>2, <1>3, <1>4 DEF Types, chat
<1>6. Apart(c)
  BY <1>1, <1>3, <1>4 DEF Apart, chat
<1>7. Works(c)'
  BY <1>1, <1>3 DEF HInv, Local, Works, Regions
<1>8. Cleans(c)'
  BY <1>3 DEF Cleans
<1>9. pc[c] \in Elsewhere /\ pc'[c] \in Elsewhere
  BY <1>1, <1>3 DEF Elsewhere
<1> QED
  BY <1>1, <1>5, <1>6, <1>7, <1>8, <1>9, CleanerMoves DEF chat

-----------------------------------------------------------------------------
(***************************************************************************)
(* The steps of the history.                                               *)
(***************************************************************************)
LEMMA Batched ==
    ASSUME HInv, NEW c \in Callers, NewBatch(c)
    PROVE  /\ number' \in [Callers -> Nat]
           /\ number'[c] \in Batches \ added
           /\ \A d \in Callers : number'[c] # number[d]
           /\ \A d \in Callers \ {c} : number'[d] = number[d]
           /\ UNCHANGED <<messages, result, added>>
<1>1. PICK b \in Batches \ (added \cup {number[d] : d \in Callers}) :
         number' = [number EXCEPT ![c] = b]
  BY DEF NewBatch
<1>2. b \in Nat /\ number \in [Callers -> Nat]
  BY ChatAssumption DEF HInv, Types
<1> QED
  BY <1>1, <1>2 DEF NewBatch

LEMMA add_messageHolds ==
    ASSUME HInv, NEW c \in Callers, add_message(c), UNCHANGED cleaner, calls' \in 0..MaxCalls
    PROVE  HInv'
<1>1. PICK n \in Lengths :
         /\ vectors' = [vectors EXCEPT ![c] = <<[i \in 1..n |-> <<number'[c], i>>]>>]
         /\ total' = [total EXCEPT ![c] = n]
  BY DEF add_message
<1>2. /\ pc[c] = "idle" /\ pc' = [pc EXCEPT ![c] = "add"]
      /\ UNCHANGED <<nthreads, team, messages, result, added>>
      /\ UNCHANGED <<docs, custom, documents, asked, terminated>>
  BY DEF add_message, Goto, NewBatch, cleaner
<1>3. Types /\ n \in Nat
  BY ChatAssumption DEF HInv
<1>4. /\ number' \in [Callers -> Nat]
      /\ number'[c] \in Batches \ added
      /\ \A d \in Callers : number'[c] # number[d]
      /\ \A d \in Callers \ {c} : number'[d] = number[d]
  BY Batched DEF add_message
<1> DEFINE b == number'[c]
           whole == <<[i \in 1..n |-> <<b, i>>]>>
<1>5. whole = Left(b, 1, n, 0)
  <2>1. First(0, 1, n) = 0 /\ First(1, 1, n) = n
    BY <1>3, FirstEnds
  <2>2. Left(b, 1, n, 0) = [t \in 1..1 |-> Stretch(b, Larger(First(t - 1, 1, n), 0), First(t, 1, n))]
    BY DEF Left
  <2>3. Left(b, 1, n, 0) = <<Stretch(b, Larger(First(0, 1, n), 0), First(1, 1, n))>>
    BY <2>2
  <2>4. Larger(0, 0) = 0
    BY DEF Larger
  <2>5. Stretch(b, 0, n) = [i \in 1..n |-> <<b, i>>]
    BY <1>3 DEF Stretch
  <2> QED
    BY <2>1, <2>3, <2>4, <2>5
<1>6. vectors' = [vectors EXCEPT ![c] = whole]
  BY <1>1
<1> HIDE DEF whole, b
<1>7. /\ vectors' = [d \in Callers |-> vectors'[d]] /\ vectors'[c] = whole
      /\ \A d \in Callers \ {c} : vectors'[d] = vectors[d]
  BY <1>3, <1>6, Updated DEF Types
<1>8. /\ pc' \in [Callers -> Places] /\ pc'[c] = "add"
      /\ total' \in [Callers -> Nat] /\ total'[c] = n
      /\ \A d \in Callers \ {c} : pc'[d] = pc[d] /\ total'[d] = total[d]
  BY <1>1, <1>2, <1>3 DEF Types, Places
<1>9. Types'
  BY <1>2, <1>3, <1>4, <1>7, <1>8 DEF Types
<1>10. Apart(c)
  BY <1>2, <1>4, <1>7, <1>8 DEF Apart
<1>11. Works(c)'
  BY <1>2, <1>8 DEF HInv, Local, Works, Regions
<1>12. Cleans(c)' /\ (terminated => terminated')
  BY <1>2, <1>8, NoDocuments DEF ChatPlaces
<1>13. Adds(c)'
  <2>1. number'[c] = b /\ 1 \in Nat \ {0}
    BY DEF b
  <2>2. number'[c] \in Batches /\ number'[c] \notin added'
    BY <1>2, <1>4
  <2> QED
    BY <1>5, <1>7, <1>8, <2>1, <2>2 DEF Adds, Adding
<1>14. Copies(c)'
  BY <1>2, <1>8 DEF HInv, Local, Copies
<1>15. Local(c)'
  BY <1>11, <1>12, <1>13, <1>14 DEF Local
<1> QED
  BY <1>2, <1>4, <1>8, <1>9, <1>10, <1>12, <1>15, OneMoves

LEMMA add_benchmark_messages_ompHolds ==
    ASSUME HInv, NEW c \in Callers, add_benchmark_messages_omp(c), UNCHANGED cleaner,
           calls' \in 0..MaxCalls
    PROVE  HInv'
<1>1. PICK n \in Lengths : Fork(c, n) /\ total' = [total EXCEPT ![c] = n]
  BY DEF add_benchmark_messages_omp
<1>2. /\ pc[c] = "idle" /\ pc' = [pc EXCEPT ![c] = "make"]
      /\ vectors' = [vectors EXCEPT ![c] = [m \in DOMAIN team'[c] |-> <<>>]]
      /\ UNCHANGED <<nthreads, messages, result, added>>
      /\ UNCHANGED <<docs, custom, documents, asked, terminated>>
  BY DEF add_benchmark_messages_omp, Goto, NewBatch, cleaner
<1>3. Types /\ n \in Nat
  BY ChatAssumption DEF HInv
<1>4. /\ number' \in [Callers -> Nat]
      /\ number'[c] \in Batches \ added
      /\ \A d \in Callers : number'[c] # number[d]
      /\ \A d \in Callers \ {c} : number'[d] = number[d]
  BY Batched DEF add_benchmark_messages_omp
<1> DEFINE p == nthreads[c]
           none == [m \in DOMAIN team'[c] |-> <<>>]
<1>5. /\ team' = [d \in Callers |-> team'[d]]
      /\ \A d \in Callers \ {c} : team'[d] = team[d]
      /\ Progress(team'[c], n)
      /\ team'[c] = [m \in 1..p |-> First(m - 1, p, n) + 1]
      /\ Len(team'[c]) = p
      /\ p \in Nat \ {0}
  BY <1>1, <1>3, TeamForked
<1>6. vectors' = [vectors EXCEPT ![c] = none]
  BY <1>2
<1> HIDE DEF none, p
<1>7. /\ vectors' = [d \in Callers |-> vectors'[d]] /\ vectors'[c] = none
      /\ \A d \in Callers \ {c} : vectors'[d] = vectors[d]
  BY <1>3, <1>6, Updated DEF Types
<1>8. /\ pc' \in [Callers -> Places] /\ pc'[c] = "make"
      /\ total' \in [Callers -> Nat] /\ total'[c] = n
      /\ \A d \in Callers \ {c} : pc'[d] = pc[d] /\ total'[d] = total[d]
  BY <1>1, <1>2, <1>3 DEF Types, Places, Regions
<1>9. Types'
  BY <1>2, <1>3, <1>4, <1>5, <1>7, <1>8 DEF Types
<1>10. Apart(c)
  BY <1>2, <1>4, <1>5, <1>7, <1>8 DEF Apart
<1>11. Works(c)'
  BY <1>5, <1>8 DEF Works, Count, Regions
<1>12. Cleans(c)' /\ (terminated => terminated')
  BY <1>2, <1>8, NoDocuments DEF ChatPlaces
<1>13. none = Made(c)'
  <2>1. none = [m \in 1..p |-> <<>>]
    BY <1>5 DEF none
  <2>2. Made(c)' = [m \in 1..p |-> Stretch(number'[c], First(m - 1, p, n), team'[c][m] - 1)]
    BY <1>5, <1>8 DEF Made
  <2>3. ASSUME NEW m \in 1..p
        PROVE  Stretch(number'[c], First(m - 1, p, n), team'[c][m] - 1) = <<>>
    <3>1. m - 1 \in Nat
      BY <1>5
    <3>2. First(m - 1, p, n) \in Nat
      BY <1>3, <1>5, <3>1, FirstNat
    <3>3. team'[c][m] - 1 = First(m - 1, p, n)
      BY <1>5, <3>2
    <3> QED
      BY <3>2, <3>3, StretchEmpty
  <2> QED
    BY <2>1, <2>2, <2>3
<1>14. Adds(c)'
  <2>1. number'[c] \in Batches /\ number'[c] \notin added'
    BY <1>2, <1>4
  <2> QED
    BY <1>7, <1>8, <1>13, <2>1 DEF Adds, Adding
<1>15. Copies(c)'
  BY <1>2, <1>8 DEF HInv, Local, Copies
<1>16. Local(c)'
  BY <1>11, <1>12, <1>14, <1>15 DEF Local
<1> QED
  BY <1>2, <1>4, <1>8, <1>9, <1>10, <1>12, <1>16, OneMoves

LEMMA MakeMessageHolds ==
    ASSUME HInv, NEW c \in Callers, NEW m \in DOMAIN team[c], MakeMessage(c, m),
           UNCHANGED <<cleaner, calls>>
    PROVE  HInv'
<1> DEFINE n == total[c]
           p == Len(team[c])
           b == number[c]
           at == team[c][m]
<1>1. /\ pc[c] = "make" /\ Running(c, m, n) /\ Advance(c, m)
      /\ vectors' = [vectors EXCEPT ![c][m] = Append(@, <<b, at>>)]
      /\ UNCHANGED <<pc, nthreads, messages, total, number, result, added>>
      /\ UNCHANGED <<docs, custom, documents, asked, terminated, calls>>
  BY DEF MakeMessage, cleaner
<1>2. Types
  BY DEF HInv
<1>3. n \in Nat /\ Progress(team[c], n)
  BY <1>1, <1>2 DEF HInv, Types, Local, Works, Count, Regions
<1>4. m \in 1..p /\ p \in Nat \ {0}
  BY <1>3 DEF Progress
<1>5. /\ team' = [d \in Callers |-> team'[d]]
      /\ \A d \in Callers \ {c} : team'[d] = team[d]
      /\ team'[c] = [team[c] EXCEPT ![m] = @ + 1]
      /\ Progress(team'[c], n)
      /\ at \in 1..n
      /\ Len(team'[c]) = p
  BY <1>1, <1>3, <1>4, TeamAdvanced
<1>6. vectors[c] = Made(c)
  BY <1>1 DEF HInv, Local, Adds
<1> DEFINE row == [vectors[c] EXCEPT ![m] = Append(@, <<b, at>>)]
<1>7. vectors' = [vectors EXCEPT ![c] = row]
  BY <1>1
<1>8. row = Made(c)'
  <2>1. Made(c) = [k \in 1..p |-> Stretch(b, First(k - 1, p, n), team[c][k] - 1)]
    BY DEF Made
  <2>2. Made(c)' = [k \in 1..p |-> Stretch(b, First(k - 1, p, n), team'[c][k] - 1)]
    BY <1>1, <1>5 DEF Made
  <2>3. team'[c][m] = at + 1 /\ \A k \in 1..p : k # m => team'[c][k] = team[c][k]
    BY <1>3, <1>4, <1>5 DEF Progress
  <2>4. /\ First(m - 1, p, n) \in Nat /\ at - 1 \in Nat
        /\ First(m - 1, p, n) <= at - 1 /\ (at - 1) + 1 = at /\ (at + 1) - 1 = at
    <3>1. m - 1 \in Nat
      BY <1>4
    <3>2. First(m - 1, p, n) \in Nat
      BY <1>3, <1>4, <3>1, FirstNat
    <3>3. First(m - 1, p, n) + 1 <= at
      BY <1>3, <1>4 DEF Progress
    <3> QED
      BY <1>5, <3>2, <3>3
  <2>5. Append(Stretch(b, First(m - 1, p, n), at - 1), <<b, (at - 1) + 1>>)
            = Stretch(b, First(m - 1, p, n), (at - 1) + 1)
    BY <2>4, StretchAppend
  <2> HIDE DEF n, p, b, at
  <2>6. row[m] = Stretch(b, First(m - 1, p, n), team'[c][m] - 1)
    BY <1>4, <1>6, <2>1, <2>3, <2>4, <2>5 DEF at
  <2>7. row = [k \in 1..p |-> row[k]] /\ \A k \in 1..p : k # m => row[k] = vectors[c][k]
    BY <1>4, <1>6, <2>1
  <2> HIDE DEF row
  <2> QED
    BY <1>6, <2>1, <2>2, <2>3, <2>6, <2>7
<1> HIDE DEF row, n, p, b, at
<1>9. /\ vectors' = [d \in Callers |-> vectors'[d]] /\ vectors'[c] = row
      /\ \A d \in Callers \ {c} : vectors'[d] = vectors[d]
  BY <1>2, <1>7, Updated DEF Types
<1>10. Types'
  BY <1>1, <1>2, <1>5, <1>9 DEF Types
<1>11. Apart(c)
  BY <1>1, <1>5, <1>9 DEF Apart
<1>12. Works(c)'
  BY <1>1, <1>5 DEF Works, Count, Regions, n
<1>13. Cleans(c)' /\ (terminated => terminated')
  BY <1>1, NoDocuments DEF ChatPlaces
<1>14. Adds(c)'
  BY <1>1, <1>8, <1>9 DEF HInv, Local, Adds, Adding
<1>15. Copies(c)'
  BY <1>1 DEF HInv, Local, Copies
<1>16. Local(c)'
  BY <1>12, <1>13, <1>14, <1>15 DEF Local
<1>17. pc'[c] = "make" /\ \A d \in Callers \ {c} : pc[d] \in Adding => number[d] # number'[c]
  BY <1>1 DEF HInv, Distinct, Adding
<1> QED
  BY <1>1, <1>10, <1>11, <1>13, <1>16, <1>17, OneMoves

LEMMA JoinMakingHolds ==
    ASSUME HInv, NEW c \in Callers, JoinMaking(c), UNCHANGED <<cleaner, calls>>
    PROVE  HInv'
<1> DEFINE n == total[c]
           p == Len(team[c])
           b == number[c]
<1>1. /\ pc[c] = "make" /\ Finished(c, n) /\ Disband(c) /\ pc' = [pc EXCEPT ![c] = "add"]
      /\ UNCHANGED <<nthreads, messages, vectors, total, number, result, added>>
      /\ UNCHANGED <<docs, custom, documents, asked, terminated, calls>>
  BY DEF JoinMaking, Goto, cleaner, chat
<1>2. Types
  BY DEF HInv
<1>3. n \in Nat /\ Progress(team[c], n)
  BY <1>1, <1>2 DEF HInv, Types, Local, Works, Count, Regions
<1>4. p \in Nat \ {0}
  BY <1>3 DEF Progress
<1>5. team' = [d \in Callers |-> team'[d]] /\ team'[c] = <<>>
      /\ \A d \in Callers \ {c} : team'[d] = team[d]
  BY <1>1, TeamDisbanded
<1>6. \A m \in 1..p : team[c][m] = First(m, p, n) + 1
  <2>1. \A m \in 1..p : ~(team[c][m] <= First(m, p, n))
    BY <1>1 DEF Finished, Running
  <2> QED
    BY <1>3, <2>1, FinishedProgress
<1>7. vectors[c] = Left(b, p, n, 0)
  <2>1. vectors[c] = [m \in 1..p |-> Stretch(b, First(m - 1, p, n), team[c][m] - 1)]
    BY <1>1 DEF HInv, Local, Adds, Made
  <2>2. ASSUME NEW m \in 1..p
        PROVE  team[c][m] - 1 = First(m, p, n) /\ Larger(First(m - 1, p, n), 0) = First(m - 1, p, n)
    <3>1. m - 1 \in Nat /\ m \in Nat
      BY <1>4
    <3>2. First(m - 1, p, n) \in Nat /\ First(m, p, n) \in Nat
      BY <1>3, <1>4, <3>1, FirstNat
    <3> QED
      BY <1>6, <3>2 DEF Larger
  <2> QED
    BY <2>1, <2>2 DEF Left
<1>8. pc' \in [Callers -> Places] /\ pc'[c] = "add" /\ \A d \in Callers \ {c} : pc'[d] = pc[d]
  BY <1>1, <1>2 DEF Types, Places
<1>9. Types'
  BY <1>1, <1>2, <1>5, <1>8 DEF Types
<1>10. Apart(c)
  BY <1>1, <1>5, <1>8 DEF Apart
<1>11. Works(c)'
  BY <1>5, <1>8 DEF Works, Regions
<1>12. Cleans(c)' /\ (terminated => terminated')
  BY <1>1, <1>8, NoDocuments DEF ChatPlaces, cleaner
<1>13. Adds(c)'
  <2>1. number[c] \in Batches /\ total[c] \in Lengths /\ number[c] \notin added
    BY <1>1 DEF HInv, Local, Adds, Adding
  <2>2. vectors'[c] = Left(number'[c], p, total'[c], 0)
    BY <1>1, <1>7
  <2> QED
    BY <1>1, <1>4, <1>8, <2>1, <2>2 DEF Adds, Adding
<1>14. Copies(c)'
  BY <1>1, <1>8 DEF HInv, Local, Copies
<1>15. Local(c)'
  BY <1>11, <1>12, <1>13, <1>14 DEF Local
<1>16. \A d \in Callers \ {c} : pc[d] \in Adding => number[d] # number'[c]
  BY <1>1 DEF HInv, Distinct, Adding
<1> QED
  BY <1>1, <1>8, <1>9, <1>10, <1>12, <1>15, <1>16, OneMoves

LEMMA MessageSeq ==
    ASSUME HInv
    PROVE  /\ messages \in Seq(added \X Nat)
           /\ Len(messages) \in Nat
           /\ DOMAIN messages = 1..Len(messages)
           /\ messages # <<>> => Last(messages) \in added \X Nat
           /\ \A c \in Callers : Done(c) \in Nat
<1>1. messages \in Seq(added \X Nat)
  BY DEF HInv, Types
<1>2. messages # <<>> => Last(messages) \in added \X Nat
  BY <1>1 DEF Last
<1>3. ASSUME NEW c \in Callers PROVE Done(c) \in Nat
  BY <1>2 DEF Done
<1> QED
  BY <1>1, <1>2, <1>3

\* Nothing of a batch is there before its turn.
LEMMA NotYetDone ==
    ASSUME HInv, NEW c \in Callers, pc[c] = "add"
    PROVE  Done(c) = 0
<1>1. number[c] \notin added
  BY DEF HInv, Local, Adds, Adding
<1>2. messages # <<>> => Last(messages)[1] \in added
  BY MessageSeq
<1> QED
  BY <1>1, <1>2 DEF Done

LEMMA LockForAddingHolds ==
    ASSUME HInv, NEW c \in Callers, LockForAdding(c), UNCHANGED <<cleaner, calls>>
    PROVE  HInv'
<1>1. /\ pc[c] = "add" /\ CanOwn /\ added' = added \cup {number[c]}
      /\ pc' = [pc EXCEPT ![c] = "insert"]
      /\ UNCHANGED <<nthreads, team, messages, vectors, total, number, result>>
      /\ UNCHANGED <<docs, custom, documents, asked, terminated, calls>>
  BY DEF LockForAdding, Goto, cleaner
<1>2. Types
  BY DEF HInv
<1>3. pc' \in [Callers -> Places] /\ pc'[c] = "insert" /\ \A d \in Callers \ {c} : pc'[d] = pc[d]
  BY <1>1, <1>2 DEF Types, Places
<1>4. /\ number[c] \in Batches /\ total[c] \in Lengths
      /\ \E p \in Nat \ {0} : vectors[c] = Left(number[c], p, total[c], 0)
  BY <1>1 DEF HInv, Local, Adds, Adding
<1>5. Types'
  <2>1. messages \in Seq(added' \X Nat)
    <3>1. added \X Nat \subseteq added' \X Nat
      BY <1>1
    <3> QED
      BY <1>2, <3>1 DEF Types
  <2> QED
    BY <1>1, <1>2, <1>3, <1>4, <2>1 DEF Types
<1>6. Apart(c)
  BY <1>1, <1>3 DEF Apart
<1>7. Works(c)'
  BY <1>1, <1>3 DEF HInv, Local, Works, Regions
<1>8. Cleans(c)' /\ (terminated => terminated')
  BY <1>1, <1>3, NoDocuments DEF ChatPlaces, cleaner
<1>9. Adds(c)'
  <2>1. Done(c)' = Done(c)
    BY <1>1 DEF Done
  <2>2. Done(c) = 0 /\ total[c] \in Nat
    BY <1>1, <1>2, NotYetDone DEF Types
  <2> QED
    BY <1>1, <1>3, <1>4, <2>1, <2>2 DEF Adds, Adding
<1>10. Copies(c)'
  BY <1>1, <1>3 DEF HInv, Local, Copies
<1>11. Local(c)'
  BY <1>7, <1>8, <1>9, <1>10 DEF Local
<1>12. \A d \in Callers \ {c} : pc[d] \in Adding => number[d] # number'[c]
  BY <1>1 DEF HInv, Distinct, Adding
<1>13. pc[c] \in Adding /\ \A d \in Callers \ {c} : pc[d] \notin {"insert", "copy"}
  BY <1>1 DEF CanOwn, Adding
<1> QED
  BY <1>1, <1>3, <1>5, <1>6, <1>8, <1>11, <1>12, <1>13, OneMoves

\* The next message of a batch goes in.
LEMMA InsertNext ==
    ASSUME HInv, NEW c \in Callers, Insert(c)
    PROVE  /\ pc[c] = "insert"
           /\ number[c] \in added
           /\ Done(c) < total[c]
           /\ messages' = Append(messages, <<number[c], Done(c) + 1>>)
           /\ Done(c)' = Done(c) + 1
           /\ vectors' = [d \in Callers |-> vectors'[d]]
           /\ \A d \in Callers \ {c} : vectors'[d] = vectors[d]
           /\ \E p \in Nat \ {0} : vectors'[c] = Left(number[c], p, total[c], Done(c) + 1)
           /\ UNCHANGED <<pc, nthreads, team, total, number, result, added>>
<1> DEFINE n == total[c]
           b == number[c]
           k == Done(c)
<1>1. PICK t \in Unfinished(c) : Least(t, Unfinished(c)) /\ AppendFrom(c, t)
  BY DEF Insert
<1>2. pc[c] = "insert" /\ Types
  BY DEF Insert, HInv
<1>3. number[c] \in added /\ n \in Nat
  BY <1>2 DEF HInv, Types, Local, Adds, Adding
<1>4. PICK p \in Nat \ {0} : vectors[c] = Left(b, p, n, k)
  BY <1>2 DEF HInv, Local, Adds
<1>5. k \in Nat /\ b \in Nat
  BY <1>2, MessageSeq DEF Types
<1>6. Foremost(b, p, n, k, t)
  <2>1. DOMAIN Left(b, p, n, k) = 1..p
    BY DEF Left
  <2> QED
    BY <1>1, <1>4, <2>1 DEF Unfinished, Least, Foremost
<1>7. HasNext(b, p, n, k, t)
  <2> HIDE DEF b, n, k
  <2> QED
    BY <1>3, <1>4, <1>5, <1>6, NextLeft
<1>8. messages' = Append(messages, Head(vectors[c][t]))
      /\ vectors' = [vectors EXCEPT ![c] = [vectors[c] EXCEPT ![t] = Tail(@)]]
      /\ UNCHANGED <<pc, nthreads, team, total, number, result, added>>
  BY <1>1 DEF AppendFrom
<1>9. messages' = Append(messages, <<b, k + 1>>) /\ k < n
  BY <1>4, <1>7, <1>8 DEF HasNext
<1>10. vectors' = [vectors EXCEPT ![c] = Left(b, p, n, k + 1)]
  BY <1>4, <1>7, <1>8 DEF HasNext
<1>11. /\ vectors' = [d \in Callers |-> vectors'[d]] /\ vectors'[c] = Left(b, p, n, k + 1)
       /\ \A d \in Callers \ {c} : vectors'[d] = vectors[d]
  <2> DEFINE new == Left(b, p, n, k + 1)
  <2>1. vectors' = [vectors EXCEPT ![c] = new]
    BY <1>10
  <2> HIDE DEF new
  <2>2. /\ vectors' = [d \in Callers |-> vectors'[d]] /\ vectors'[c] = new
        /\ \A d \in Callers \ {c} : vectors'[d] = vectors[d]
    BY <1>2, <2>1, Updated DEF Types
  <2> QED
    BY <2>2 DEF new
<1>12. Done(c)' = k + 1
  <2>1. messages' # <<>> /\ Last(messages') = <<b, k + 1>>
    <3>1. messages \in Seq(added \X Nat) /\ <<b, k + 1>> \in added \X Nat
      BY <1>3, <1>5, MessageSeq
    <3> HIDE DEF b, k
    <3> QED
      BY <1>9, <3>1 DEF Last
  <2>2. Last(messages')[1] = number'[c] /\ Last(messages')[2] = k + 1
    BY <1>8, <2>1
  <2> QED
    BY <2>1, <2>2 DEF Done
<1> QED
  BY <1>2, <1>3, <1>8, <1>9, <1>11, <1>12

LEMMA InsertHolds ==
    ASSUME HInv, NEW c \in Callers, Insert(c), UNCHANGED <<cleaner, calls>>
    PROVE  HInv'
<1> DEFINE k == Done(c)
<1>1. /\ pc[c] = "insert"
      /\ number[c] \in added
      /\ k < total[c]
      /\ messages' = Append(messages, <<number[c], k + 1>>)
      /\ Done(c)' = k + 1
      /\ vectors' = [d \in Callers |-> vectors'[d]]
      /\ \A d \in Callers \ {c} : vectors'[d] = vectors[d]
      /\ \E p \in Nat \ {0} : vectors'[c] = Left(number[c], p, total[c], k + 1)
      /\ UNCHANGED <<pc, nthreads, team, total, number, result, added>>
  BY InsertNext
<1>2. UNCHANGED <<docs, custom, documents, asked, terminated, calls>>
  BY DEF cleaner
<1>3. Types /\ k \in Nat /\ total[c] \in Nat
  BY MessageSeq DEF HInv, Types
<1> HIDE DEF k
<1>4. Types'
  <2>1. messages' \in Seq(added \X Nat)
    BY <1>1, <1>3 DEF Types
  <2> QED
    BY <1>1, <1>2, <1>3, <2>1 DEF Types
<1>5. Apart(c)
  BY <1>1, <1>2 DEF Apart
<1>6. \A d \in Callers \ {c} : pc[d] \notin {"insert", "copy"}
  BY <1>1 DEF HInv, Mutex
<1>7. Works(c)'
  BY <1>1 DEF HInv, Local, Works, Regions
<1>8. Cleans(c)' /\ (terminated => terminated')
  BY <1>1, NoDocuments DEF ChatPlaces, cleaner
<1>9. Adds(c)'
  <2>1. number[c] \in Batches /\ total[c] \in Lengths
    BY <1>1 DEF HInv, Local, Adds, Adding
  <2>2. k + 1 <= total[c]
    BY <1>1, <1>3
  <2> QED
    BY <1>1, <2>1, <2>2 DEF Adds, Adding
<1>10. Copies(c)'
  BY <1>1 DEF HInv, Local, Copies
<1>11. Local(c)'
  BY <1>7, <1>8, <1>9, <1>10 DEF Local
<1>12. \A d \in Callers \ {c} : pc[d] \in Adding => number[d] # number'[c]
  BY <1>1 DEF HInv, Distinct, Adding
<1> QED
  BY <1>1, <1>4, <1>5, <1>6, <1>8, <1>11, <1>12, OneMoves

\* A batch of which nothing is left is complete.
LEMMA AllInserted ==
    ASSUME HInv, NEW c \in Callers, pc[c] = "insert", Unfinished(c) = {}
    PROVE  Done(c) = total[c]
<1> DEFINE n == total[c]
           k == Done(c)
<1>1. PICK p \in Nat \ {0} : vectors[c] = Left(number[c], p, n, k)
  BY DEF HInv, Local, Adds
<1>2. n \in Nat /\ k \in Nat /\ k <= n
  BY MessageSeq DEF HInv, Types, Local, Adds
<1>3. \A t \in 1..p : Left(number[c], p, n, k)[t] = <<>>
  <2>1. DOMAIN vectors[c] = 1..p
    BY <1>1 DEF Left
  <2>2. \A t \in 1..p : vectors[c][t] = <<>>
    BY <2>1 DEF Unfinished
  <2> QED
    BY <1>1, <2>2
<1> HIDE DEF n, k
<1>4. n <= k
  BY <1>2, <1>3, NoneLeft
<1> QED
  BY <1>2, <1>4 DEF n, k

LEMMA UnlockAddedHolds ==
    ASSUME HInv, NEW c \in Callers, UnlockAdded(c), UNCHANGED <<cleaner, calls>>
    PROVE  HInv'
<1>1. /\ pc[c] = "insert"
      /\ vectors' = [vectors EXCEPT ![c] = <<>>]
      /\ total' = [total EXCEPT ![c] = 0]
      /\ number' = [number EXCEPT ![c] = 0]
      /\ pc' = [pc EXCEPT ![c] = "idle"]
      /\ UNCHANGED <<nthreads, team, messages, result, added>>
      /\ UNCHANGED <<docs, custom, documents, asked, terminated, calls>>
  BY DEF UnlockAdded, Goto, cleaner
<1>2. Types
  BY DEF HInv
<1>3. /\ pc' \in [Callers -> Places] /\ pc'[c] = "idle"
      /\ total' \in [Callers -> Nat] /\ number' \in [Callers -> Nat]
      /\ \A d \in Callers \ {c} : pc'[d] = pc[d] /\ total'[d] = total[d] /\ number'[d] = number[d]
  BY <1>1, <1>2 DEF Types, Places
<1>4. /\ vectors' = [d \in Callers |-> vectors'[d]] /\ vectors'[c] = <<>>
      /\ \A d \in Callers \ {c} : vectors'[d] = vectors[d]
  BY <1>1, <1>2, Updated DEF Types
<1>5. Types'
  BY <1>1, <1>2, <1>3, <1>4 DEF Types
<1>6. Apart(c)
  BY <1>1, <1>3, <1>4 DEF Apart
<1>7. Works(c)'
  BY <1>1, <1>3 DEF HInv, Local, Works, Regions
<1>8. Cleans(c)' /\ (terminated => terminated')
  BY <1>1, <1>3, NoDocuments DEF ChatPlaces, cleaner
<1>9. Adds(c)'
  BY <1>3, <1>4 DEF Adds, Adding
<1>10. Copies(c)'
  BY <1>1, <1>3 DEF HInv, Local, Copies
<1>11. Local(c)'
  BY <1>7, <1>8, <1>9, <1>10 DEF Local
<1> QED
  BY <1>1, <1>3, <1>5, <1>6, <1>8, <1>11, OneMoves DEF Adding

\* A step of c's get_messages or clear, which adds nothing.
LEMMA Reads ==
    ASSUME HInv, NEW c \in Callers, pc[c] \in {"idle", "copy", "got"}, pc'[c] \in {"idle", "copy", "got"},
           UNCHANGED <<cleaner, nthreads, vectors, total, number, added>>,
           Types', Apart(c), Works(c)', Copies(c)',
           \/ messages' = messages
           \/ \A d \in Callers \ {c} : pc[d] \notin {"insert", "copy"},
           pc'[c] = "copy" => \A d \in Callers \ {c} : pc[d] # "insert"
    PROVE  HInv'
<1>1. Cleans(c)' /\ (terminated => terminated')
  BY NoDocuments DEF ChatPlaces
<1>2. Adds(c)'
  BY DEF HInv, Local, Adds, Adding
<1>3. Local(c)'
  BY <1>1, <1>2 DEF Local
<1>4. pc'[c] # "insert" /\ pc'[c] \notin Adding
  BY DEF Adding
<1> QED
  BY <1>1, <1>3, <1>4, OneMoves

LEMMA get_messagesHolds ==
    ASSUME HInv, NEW c \in Callers, get_messages(c), UNCHANGED cleaner, calls' \in 0..MaxCalls
    PROVE  HInv'
<1>1. /\ pc[c] = "idle" /\ CanShare
      /\ UNCHANGED <<nthreads, messages, vectors, total, number, added>>
      /\ UNCHANGED <<docs, custom, documents, asked, terminated>>
  BY DEF get_messages, cleaner
<1>2. Types /\ messages \in Seq(added \X Nat) /\ Len(messages) \in Nat
      /\ DOMAIN messages = 1..Len(messages)
  BY MessageSeq DEF HInv
<1>3. \A d \in Callers : pc[d] # "insert"
  BY <1>1 DEF CanShare
<1>4. CASE messages = <<>>
  <2>1. pc' = [pc EXCEPT ![c] = "got"] /\ UNCHANGED <<team, result>>
    BY <1>4 DEF get_messages, Goto
  <2>2. pc' \in [Callers -> Places] /\ pc'[c] = "got" /\ \A d \in Callers \ {c} : pc'[d] = pc[d]
    BY <1>2, <2>1 DEF Types, Places
  <2>3. Types'
    BY <1>1, <1>2, <2>1, <2>2 DEF Types
  <2>4. Apart(c)
    BY <1>1, <2>1, <2>2 DEF Apart
  <2>5. Works(c)'
    BY <1>1, <2>1, <2>2 DEF HInv, Local, Works, Regions
  <2>6. Copies(c)'
    BY <2>2 DEF Copies
  <2> QED
    BY <1>1, <2>2, <2>3, <2>4, <2>5, <2>6, Reads
<1>5. CASE messages # <<>>
  <2> DEFINE n == Len(messages)
             none == [i \in DOMAIN messages |-> <<>>]
  <2>1. pc' = [pc EXCEPT ![c] = "copy"] /\ Fork(c, n) /\ result' = [result EXCEPT ![c] = none]
    BY <1>5 DEF get_messages, Goto
  <2>2. pc' \in [Callers -> Places] /\ pc'[c] = "copy" /\ \A d \in Callers \ {c} : pc'[d] = pc[d]
    BY <1>2, <2>1 DEF Types, Places, Regions
  <2>3. /\ team' = [d \in Callers |-> team'[d]]
        /\ \A d \in Callers \ {c} : team'[d] = team[d]
        /\ Progress(team'[c], n)
        /\ \A i \in Int : ~DoneBy(team'[c], n, i)
    BY <1>2, <2>1, TeamForked
  <2>4. none = [i \in DOMAIN messages |-> none[i]]
    OBVIOUS
  <2> HIDE DEF none
  <2>5. /\ result' = [d \in Callers |-> result'[d]] /\ result'[c] = none
        /\ \A d \in Callers \ {c} : result'[d] = result[d]
    BY <1>2, <2>1, Updated DEF Types
  <2>6. Types'
    BY <1>1, <1>2, <2>2, <2>3, <2>5 DEF Types
  <2>7. Apart(c)
    BY <1>1, <2>2, <2>3, <2>5 DEF Apart
  <2>8. Works(c)'
    BY <1>1, <2>2, <2>3 DEF Works, Count, Regions
  <2>9. Copies(c)'
    <3>1. \A i \in DOMAIN messages : ~DoneBy(team'[c], n, i)
      BY <1>2, <2>3
    <3> QED
      BY <1>1, <1>5, <2>2, <2>4, <2>5, <3>1 DEF Copies
  <2> QED
    BY <1>1, <1>3, <2>2, <2>6, <2>7, <2>8, <2>9, Reads
<1> QED
  BY <1>4, <1>5

LEMMA CopyMessageHolds ==
    ASSUME HInv, NEW c \in Callers, NEW m \in DOMAIN team[c], CopyMessage(c, m),
           UNCHANGED <<cleaner, calls>>
    PROVE  HInv'
<1> DEFINE n == Len(messages)
           at == team[c][m]
<1>1. /\ pc[c] = "copy" /\ Running(c, m, n) /\ Advance(c, m)
      /\ result' = [result EXCEPT ![c][at] = messages[at]]
      /\ UNCHANGED <<pc, nthreads, messages, vectors, total, number, added>>
      /\ UNCHANGED <<docs, custom, documents, asked, terminated, calls>>
  BY DEF CopyMessage, cleaner
<1>2. Types /\ n \in Nat /\ DOMAIN messages = 1..n
  BY MessageSeq DEF HInv
<1>3. Progress(team[c], n)
  BY <1>1 DEF HInv, Local, Works, Count, Regions
<1>4. m \in 1..Len(team[c])
  BY <1>3 DEF Progress
<1>5. /\ team' = [d \in Callers |-> team'[d]]
      /\ \A d \in Callers \ {c} : team'[d] = team[d]
      /\ Progress(team'[c], n)
      /\ at \in 1..n
      /\ \A i \in Int : DoneBy(team'[c], n, i) => DoneBy(team[c], n, i) \/ i = at
  BY <1>1, <1>2, <1>3, <1>4, TeamAdvanced
<1>6. /\ messages # <<>>
      /\ result[c] = [i \in DOMAIN messages |-> result[c][i]]
      /\ \A i \in DOMAIN messages : DoneBy(team[c], n, i) => result[c][i] = messages[i]
  BY <1>1 DEF HInv, Local, Copies
<1> HIDE DEF n, at
<1> DEFINE row == [result[c] EXCEPT ![at] = messages[at]]
<1>7. row = [i \in DOMAIN messages |-> row[i]] /\ row[at] = messages[at]
      /\ \A i \in DOMAIN messages \ {at} : row[i] = result[c][i]
  <2>1. at \in DOMAIN messages
    BY <1>2, <1>5
  <2> QED
    BY <1>6, <2>1, Updated
<1>8. result' = [result EXCEPT ![c] = row]
  BY <1>1
<1> HIDE DEF row
<1>9. /\ result' = [d \in Callers |-> result'[d]] /\ result'[c] = row
      /\ \A d \in Callers \ {c} : result'[d] = result[d]
  BY <1>2, <1>8, Updated DEF Types
<1>10. Types'
  BY <1>1, <1>2, <1>5, <1>9 DEF Types
<1>11. Apart(c)
  BY <1>1, <1>5, <1>9 DEF Apart
<1>12. Works(c)'
  BY <1>1, <1>5 DEF Works, Count, Regions, n
<1>13. Copies(c)'
  <2>1. ASSUME NEW i \in DOMAIN messages, DoneBy(team'[c], n, i) PROVE row[i] = messages[i]
    <3>1. CASE i = at
      BY <1>7, <3>1
    <3>2. CASE i # at
      <4>1. i \in Int
        BY <1>2
      <4> QED
        BY <1>5, <1>6, <1>7, <2>1, <3>2, <4>1
    <3> QED
      BY <3>1, <3>2
  <2> QED
    BY <1>1, <1>6, <1>7, <1>9, <2>1 DEF Copies, n
<1>14. pc'[c] = "copy" /\ \A d \in Callers \ {c} : pc[d] # "insert"
  BY <1>1 DEF HInv, Mutex
<1> QED
  BY <1>1, <1>10, <1>11, <1>12, <1>13, <1>14, Reads

\* At the end of the loop the copy is the history.
LEMMA AllCopied ==
    ASSUME HInv, NEW c \in Callers, pc[c] = "copy", Finished(c, Len(messages))
    PROVE  result[c] = messages
<1> DEFINE n == Len(messages)
<1>1. n \in Nat /\ DOMAIN messages = 1..n /\ messages \in Seq(added \X Nat)
  BY MessageSeq
<1>2. Progress(team[c], n)
  BY DEF HInv, Local, Works, Count, Regions
<1>3. \A m \in 1..Len(team[c]) : ~(team[c][m] <= First(m, Len(team[c]), n))
  BY DEF Finished, Running
<1>4. \A i \in 1..n : DoneBy(team[c], n, i)
  <2> HIDE DEF n
  <2> QED
    BY <1>1, <1>2, <1>3, FinishedProgress
<1>5. result[c] = [i \in 1..n |-> result[c][i]] /\ \A i \in 1..n : result[c][i] = messages[i]
  BY <1>1, <1>4 DEF HInv, Local, Copies
<1>6. messages = [i \in 1..n |-> messages[i]]
  BY <1>1
<1> QED
  BY <1>5, <1>6

LEMMA JoinCopyingHolds ==
    ASSUME HInv, NEW c \in Callers, JoinCopying(c), UNCHANGED <<cleaner, calls>>
    PROVE  HInv'
<1>1. /\ pc[c] = "copy" /\ Disband(c) /\ pc' = [pc EXCEPT ![c] = "got"]
      /\ UNCHANGED <<nthreads, messages, vectors, total, number, result, added>>
      /\ UNCHANGED <<docs, custom, documents, asked, terminated, calls>>
  BY DEF JoinCopying, Goto, cleaner, chat
<1>2. Types
  BY DEF HInv
<1>3. team' = [d \in Callers |-> team'[d]] /\ team'[c] = <<>>
      /\ \A d \in Callers \ {c} : team'[d] = team[d]
  BY <1>1, TeamDisbanded
<1>4. pc' \in [Callers -> Places] /\ pc'[c] = "got" /\ \A d \in Callers \ {c} : pc'[d] = pc[d]
  BY <1>1, <1>2 DEF Types, Places
<1>5. Types'
  BY <1>1, <1>2, <1>3, <1>4 DEF Types
<1>6. Apart(c)
  BY <1>1, <1>3, <1>4 DEF Apart
<1>7. Works(c)'
  BY <1>3, <1>4 DEF Works, Regions
<1>8. Copies(c)'
  BY <1>4 DEF Copies
<1> QED
  BY <1>1, <1>4, <1>5, <1>6, <1>7, <1>8, Reads

LEMMA TakeMessagesHolds ==
    ASSUME HInv, NEW c \in Callers, TakeMessages(c), UNCHANGED <<cleaner, calls>>
    PROVE  HInv'
<1>1. /\ pc[c] = "got" /\ pc' = [pc EXCEPT ![c] = "idle"] /\ result' = [result EXCEPT ![c] = <<>>]
      /\ UNCHANGED <<nthreads, team, messages, vectors, total, number, added>>
      /\ UNCHANGED <<docs, custom, documents, asked, terminated, calls>>
  BY DEF TakeMessages, Goto, cleaner
<1>2. Types
  BY DEF HInv
<1>3. /\ result' = [d \in Callers |-> result'[d]] /\ result'[c] = <<>>
      /\ \A d \in Callers \ {c} : result'[d] = result[d]
  BY <1>1, <1>2, Updated DEF Types
<1>4. pc' \in [Callers -> Places] /\ pc'[c] = "idle" /\ \A d \in Callers \ {c} : pc'[d] = pc[d]
  BY <1>1, <1>2 DEF Types, Places
<1>5. Types'
  BY <1>1, <1>2, <1>3, <1>4 DEF Types
<1>6. Apart(c)
  BY <1>1, <1>3, <1>4 DEF Apart
<1>7. Works(c)'
  BY <1>1, <1>4 DEF HInv, Local, Works, Regions
<1>8. Copies(c)'
  BY <1>3, <1>4 DEF Copies
<1> QED
  BY <1>1, <1>4, <1>5, <1>6, <1>7, <1>8, Reads

LEMMA clearHolds ==
    ASSUME HInv, NEW c \in Callers, clear(c), UNCHANGED cleaner, calls' \in 0..MaxCalls
    PROVE  HInv'
<1>1. /\ pc[c] = "idle" /\ CanOwn /\ messages' = <<>>
      /\ UNCHANGED <<pc, nthreads, team, vectors, total, number, result, added>>
      /\ UNCHANGED <<docs, custom, documents, asked, terminated>>
  BY DEF clear, cleaner
<1>2. Types'
  <2>1. messages' \in Seq(added \X Nat)
    BY <1>1
  <2> QED
    BY <1>1, <2>1 DEF HInv, Types
<1>3. Apart(c)
  BY <1>1 DEF Apart
<1>4. Works(c)'
  BY <1>1 DEF HInv, Local, Works, Regions
<1>5. Copies(c)'
  BY <1>1 DEF HInv, Local, Copies
<1>6. \A d \in Callers \ {c} : pc[d] \notin {"insert", "copy"}
  BY <1>1 DEF CanOwn
<1> QED
  BY <1>1, <1>2, <1>3, <1>4, <1>5, <1>6, Reads

-----------------------------------------------------------------------------
(***************************************************************************)
(* Together.                                                               *)
(***************************************************************************)
LEMMA BeginHolds ==
    ASSUME HInv, NEW c \in Callers, Begin(c)
    PROVE  HInv'
<1>1. calls' \in 0..MaxCalls
  BY SessionAssumption DEF Begin, HInv, Types
<1> QED
  BY <1>1, ProcessDocumentHolds, ProcessDocumentsHolds, add_messageHolds,
     add_benchmark_messages_ompHolds, get_messagesHolds, clearHolds
  DEF Begin, CleanerCall, ChatCall

LEMMA ContinueHolds ==
    ASSUME HInv, ~terminated, NEW c \in Callers, Continue(c)
    PROVE  HInv'
<1>1. CASE CleanerStep(c) /\ UNCHANGED <<chat, calls>>
  BY <1>1, ForkCleaningHolds, JoinCleaningHolds, TakeDocumentsHolds, CleanHolds DEF CleanerStep
<1>2. CASE ChatStep(c) /\ UNCHANGED <<cleaner, calls>>
  BY <1>2, JoinMakingHolds, LockForAddingHolds, InsertHolds, UnlockAddedHolds, JoinCopyingHolds,
     TakeMessagesHolds, MakeMessageHolds, CopyMessageHolds DEF ChatStep
<1> QED
  BY <1>1, <1>2 DEF Continue

LEMMA StutterHolds == HInv /\ UNCHANGED vars => HInv'
<1> SUFFICES ASSUME HInv, UNCHANGED vars PROVE HInv'
  OBVIOUS
<1> USE DEF vars, cleaner, chat
<1>1. Types' /\ Mutex' /\ Distinct'
  BY DEF HInv, Types, Mutex, Distinct
<1>2. ASSUME NEW c \in Callers PROVE Local(c)'
  <2>1. Works(c)' /\ Cleans(c)' /\ Copies(c)'
    BY DEF HInv, Local, Works, Count, Cleans, Cleaned, Copies
  <2>2. Made(c)' = Made(c) /\ Done(c)' = Done(c)
    BY DEF Made, Done
  <2>3. Adds(c)'
    BY <2>2 DEF HInv, Local, Adds
  <2> QED
    BY <2>1, <2>3 DEF Local
<1> QED
  BY <1>1, <1>2 DEF HInv

(***************************************************************************)
(* What the loops and the mutex of the calls keep true: the members of a   *)
(* team have done what their next iterations say, whatever they have made  *)
(* is what is still to come of the batch, in its order, and what is copied *)
(* is what the history holds (ContentCleaner.cpp:101, ChatHistory.cpp:70). *)
(***************************************************************************)
THEOREM CallsInductive == Spec => []HInv
<1>1. HInv /\ [Next]_vars => HInv'
  BY BeginHolds, ContinueHolds, StutterHolds DEF Next
<1> QED
  BY <1>1, InitiallyHolds, PTL DEF Spec

(***************************************************************************)
(* The shapes of the states, for any number of threads, texts and messages *)
(* (ContentCleaner.h:14, ChatHistory.h:11).                                *)
(***************************************************************************)
THEOREM TypeCorrect == Spec => []TypeOK
<1>1. HInv => TypeOK
  <2> SUFFICES ASSUME HInv PROVE TypeOK
    OBVIOUS
  <2>1. Types
    BY DEF HInv
  <2>2. ASSUME NEW c \in Callers
        PROVE  /\ pc[c] \in {"idle", "fork", "clean", "cleaned", "make", "add", "insert", "copy", "got"}
               /\ (team[c] # <<>>) <=> (pc[c] \in {"clean", "make", "copy"})
               /\ docs[c] # <<>> => pc[c] \in {"fork", "clean", "cleaned"} /\ docs[c] \in Lists
               /\ Len(documents[c]) = Len(docs[c])
               /\ vectors[c] # <<>> => pc[c] \in {"make", "add", "insert"}
               /\ result[c] # <<>> => pc[c] \in {"copy", "got"}
    <3>1. Works(c) /\ Cleans(c) /\ Adds(c) /\ Copies(c)
      BY DEF HInv, Local
    <3>2. pc[c] \in {"idle", "fork", "clean", "cleaned", "make", "add", "insert", "copy", "got"}
      BY <2>1 DEF Types, Places, Regions
    <3>3. (team[c] # <<>>) <=> (pc[c] \in {"clean", "make", "copy"})
      BY <3>1 DEF Works, Progress, Regions
    <3>4. docs[c] # <<>> => pc[c] \in {"fork", "clean", "cleaned"} /\ docs[c] \in Lists
      BY <2>1, <3>1 DEF Types, Cleans
    <3>5. Len(documents[c]) = Len(docs[c])
      <4> DEFINE n == Len(docs[c])
                 s == documents[c]
      <4>1. n \in Nat /\ s = [i \in 1..n |-> s[i]]
        BY <3>1, DocsSeq DEF Cleans
      <4> HIDE DEF n, s
      <4>2. s \in [1..n -> {s[i] : i \in 1..n}]
        BY <4>1
      <4>3. Len(s) = n
        BY <4>1, <4>2
      <4> QED
        BY <4>3 DEF n, s
    <3>6. vectors[c] # <<>> => pc[c] \in {"make", "add", "insert"}
      BY <3>1 DEF Adds, Adding
    <3>7. result[c] # <<>> => pc[c] \in {"copy", "got"}
      BY <3>1 DEF Copies
    <3> QED
      BY <3>2, <3>3, <3>4, <3>5, <3>6, <3>7
  <2> QED
    BY <2>1, <2>2 DEF TypeOK, Types
<1> QED
  BY <1>1, CallsInductive, PTL

OwnTexts ==
    \A c \in Callers : pc[c] = "cleaned" =>
        \A i \in DOMAIN docs[c] :
            custom[c] # "bad" /\ documents[c][i] = CleanContent(docs[c][i], custom[c])

(***************************************************************************)
(* Whichever member of the team had it, a document that a call returns is  *)
(* what CleanContent makes of its own text, and no call with a pattern     *)
(* that is no regular expression returns one (ContentCleaner.cpp:92).      *)
(***************************************************************************)
THEOREM OwnTextsCleaned == Spec => []OwnTexts
<1>1. HInv => OwnTexts
  BY DEF HInv, Local, Cleans, Cleaned, OwnTexts
<1> QED
  BY <1>1, CallsInductive, PTL

-----------------------------------------------------------------------------
(***************************************************************************)
(* What the patterns leave of a text.  No step of it is an induction over  *)
(* the text: the characters that stay are a set of positions, its j-th     *)
(* member is where the j-th character of the result comes from, and two    *)
(* members in succession have nothing of the set between them.             *)
(***************************************************************************)
Kinds == {"w", "s", "p", "f"}
Texts == Seq(Kinds)
Positions(S) == IsFiniteSet(S) /\ Cardinality(S) \in Nat /\ S \subseteq Nat
Replaced(x, kinds) == IF x \in kinds THEN "s" ELSE x

\* Two characters in succession.
Pair(t, x, y) == \E i \in 1..(Len(t) - 1) : t[i] = x /\ t[i + 1] = y

\* f maps the letters of r one to one to those of t.
Matches(r, t, f) ==
    /\ \A j \in 1..Len(r) : r[j] = "w" => f[j] \in 1..Len(t) /\ t[f[j]] = "w"
    /\ \A j, k \in 1..Len(r) : r[j] = "w" /\ r[k] = "w" /\ f[j] = f[k] => j = k
    /\ \A i \in 1..Len(t) : t[i] = "w" => \E j \in 1..Len(r) : r[j] = "w" /\ f[j] = i

\* What becomes a space.
Blank(pattern) == {"s", "f"} \cup (IF pattern = "symbols" THEN {"p"} ELSE {})

\* A set of positions of a text.
LEMMA PositionsInText ==
    ASSUME NEW m \in Nat, NEW S, S \subseteq 1..m
    PROVE  Positions(S)
<1>1. IsFiniteSet(1..m)
  BY FS_Interval
<1>2. S \in SUBSET (1..m)
  OBVIOUS
<1>3. IsFiniteSet(S)
  BY <1>1, <1>2, FS_Subset
<1>4. Cardinality(S) \in Nat
  BY <1>3, FS_CardinalityType
<1>5. S \subseteq Nat
  OBVIOUS
<1> QED
  BY <1>3, <1>4, <1>5 DEF Positions

\* Rank numbers the members of such a set, in their order.
LEMMA Ranks ==
    ASSUME NEW S, Positions(S)
    PROVE  /\ \A i \in S : Rank(S, i) \in 1..Cardinality(S)
           /\ \A i, k \in S : i < k => Rank(S, i) < Rank(S, k)
           /\ \A i, k \in S : i # k => Rank(S, i) # Rank(S, k)
<1>1. IsFiniteSet(S) /\ Cardinality(S) \in Nat /\ S \subseteq Nat
  BY DEF Positions
<1> DEFINE Upto(i) == {k \in S : k <= i}
<1>2. \A i : IsFiniteSet(Upto(i)) /\ Cardinality(Upto(i)) \in Nat /\ Cardinality(Upto(i)) <= Cardinality(S)
  <2> TAKE i
  <2>1. Upto(i) \in SUBSET S
    OBVIOUS
  <2> HIDE DEF Upto
  <2> QED
    BY <1>1, <2>1, FS_Subset, FS_CardinalityType
<1>3. \A i : Rank(S, i) = Cardinality(Upto(i))
  BY DEF Rank
<1>4. ASSUME NEW i \in S PROVE Rank(S, i) >= 1
  <2>1. Upto(i) # {}
    BY <1>1
  <2> HIDE DEF Upto
  <2>2. Cardinality(Upto(i)) # 0
    BY <1>2, <2>1, FS_EmptySet
  <2> QED
    BY <1>2, <1>3, <2>2
<1>5. ASSUME NEW i \in S, NEW k \in S, i < k PROVE Rank(S, i) < Rank(S, k)
  <2>1. Upto(i) \in SUBSET Upto(k)
    <3>1. ASSUME NEW x \in S, x <= i PROVE x <= k
      BY <1>1, <1>5, <3>1
    <3> QED
      BY <3>1
  <2>2. k \in Upto(k) /\ k \notin Upto(i)
    BY <1>1, <1>5
  <2> HIDE DEF Upto
  <2>3. IsFiniteSet(Upto(k)) /\ Upto(k) # Upto(i)
    BY <1>2, <2>2
  <2>4. Cardinality(Upto(i)) <= Cardinality(Upto(k)) /\ Cardinality(Upto(k)) # Cardinality(Upto(i))
    BY <2>1, <2>3, FS_Subset
  <2> QED
    BY <1>2, <1>3, <2>4
<1>6. \A i \in S : Rank(S, i) \in 1..Cardinality(S)
  <2> HIDE DEF Upto
  <2> QED
    BY <1>1, <1>2, <1>3, <1>4
<1>7. ASSUME NEW i \in S, NEW k \in S, i # k PROVE Rank(S, i) # Rank(S, k)
  <2>1. i < k \/ k < i
    BY <1>1, <1>7
  <2>2. Rank(S, i) \in Int /\ Rank(S, k) \in Int
    BY <1>1, <1>6
  <2> QED
    BY <1>5, <2>1, <2>2
<1> QED
  BY <1>5, <1>6, <1>7

\* There is a j-th member, and its rank is j.
LEMMA NthIs ==
    ASSUME NEW S, Positions(S), NEW j \in 1..Cardinality(S)
    PROVE  Nth(S, j) \in S /\ Rank(S, Nth(S, j)) = j
<1>1. IsFiniteSet(S) /\ Cardinality(S) \in Nat
  BY DEF Positions
<1> DEFINE T == 1..Cardinality(S)
           rank == [i \in S |-> Rank(S, i)]
<1>2. rank \in [S -> T]
  BY Ranks
<1>3. \A i, k \in S : i # k => rank[i] # rank[k]
  BY Ranks
<1>4. IsFiniteSet(T) /\ Cardinality(T) = Cardinality(S)
  BY <1>1, FS_Interval
<1>5. rank \in Surjection(S, T)
  <2> HIDE DEF rank, T
  <2>1. rank \in Injection(S, T)
    BY <1>2, <1>3 DEF Injection, IsInjective
  <2> QED
    BY <1>4, <2>1, FS_Injection
<1>6. \E i \in S : Rank(S, i) = j
  BY <1>5 DEF Surjection
<1> QED
  BY <1>6 DEF Nth

\* Nth gives a member back from its rank.
LEMMA NthRank ==
    ASSUME NEW S, Positions(S), NEW i \in S
    PROVE  Rank(S, i) \in 1..Cardinality(S) /\ Nth(S, Rank(S, i)) = i
<1> DEFINE j == Rank(S, i)
<1>1. j \in 1..Cardinality(S)
  BY Ranks
<1> HIDE DEF j
<1>2. Nth(S, j) \in S /\ Rank(S, Nth(S, j)) = j
  BY <1>1, NthIs
<1>3. Nth(S, j) = i
  BY <1>2, Ranks DEF j
<1> QED
  BY <1>1, <1>3 DEF j

\* Nothing of the set is between two members in succession.
LEMMA NthNeighbours ==
    ASSUME NEW S, Positions(S), NEW j \in 1..(Cardinality(S) - 1)
    PROVE  /\ Nth(S, j) < Nth(S, j + 1)
           /\ \A i \in S : ~(Nth(S, j) < i /\ i < Nth(S, j + 1))
<1>0. Cardinality(S) \in Nat /\ S \subseteq Nat
  BY DEF Positions
<1> DEFINE a == Nth(S, j)
           b == Nth(S, j + 1)
<1>1. j \in 1..Cardinality(S) /\ j + 1 \in 1..Cardinality(S)
  BY <1>0
<1>2. a \in S /\ Rank(S, a) = j
  BY <1>1, NthIs
<1>3. b \in S /\ Rank(S, b) = j + 1
  BY <1>1, NthIs
<1>4. \A i, k \in S : i < k => Rank(S, i) < Rank(S, k)
  BY Ranks
<1>5. \A i \in S : Rank(S, i) \in Int /\ i \in Int
  BY Ranks, <1>0
<1>6. j \in Int
  BY <1>0
<1> HIDE DEF a, b
<1>7. a < b
  <2>1. a # b
    BY <1>2, <1>3, <1>6
  <2>2. ~(b < a)
    BY <1>2, <1>3, <1>4, <1>6
  <2> QED
    BY <1>2, <1>3, <1>5, <2>1, <2>2
<1>8. \A i \in S : ~(a < i /\ i < b)
  <2> SUFFICES ASSUME NEW i \in S, a < i, i < b PROVE FALSE
    OBVIOUS
  <2>1. j < Rank(S, i) /\ Rank(S, i) < j + 1
    BY <1>2, <1>3, <1>4
  <2> QED
    BY <1>5, <1>6, <2>1
<1> QED
  BY <1>7, <1>8 DEF a, b

\* Its least and its greatest member.
LEMMA Extremes ==
    ASSUME NEW S, Positions(S), S # {}
    PROVE  /\ Min(S) \in S /\ \A i \in S : Min(S) <= i
           /\ Max(S) \in S /\ \A i \in S : i <= Max(S)
<1>0. Cardinality(S) \in Nat \ {0} /\ S \subseteq Nat
  BY FS_EmptySet DEF Positions
<1> DEFINE n == Cardinality(S)
           a == Nth(S, 1)
           b == Nth(S, n)
<1>1. 1 \in 1..n /\ n \in 1..n
  BY <1>0
<1>2. a \in S /\ Rank(S, a) = 1
  BY <1>1, NthIs
<1>3. b \in S /\ Rank(S, b) = n
  BY <1>1, NthIs
<1>4. \A i, k \in S : i < k => Rank(S, i) < Rank(S, k)
  BY Ranks
<1>5. \A i \in S : Rank(S, i) \in 1..n /\ i \in Int
  BY Ranks, <1>0
<1> HIDE DEF a, b, n
<1>6. n \in Nat
  BY <1>0 DEF n
<1>7. \A k \in S : a <= k
  BY <1>2, <1>4, <1>5, <1>6
<1>8. \A k \in S : b >= k
  BY <1>3, <1>4, <1>5, <1>6
<1>9. Min(S) \in S /\ \A i \in S : Min(S) <= i
  BY <1>2, <1>7 DEF Min
<1>10. Max(S) \in S /\ \A i \in S : Max(S) >= i
  BY <1>3, <1>8 DEF Max
<1> QED
  BY <1>5, <1>9, <1>10

\* A text made of another one, no letter of which is lost or doubled, has as many.
LEMMA SameWords ==
    ASSUME NEW t \in Texts, NEW r \in Texts, NEW f, Matches(r, t, f)
    PROVE  Words(r) = Words(t)
<1> DEFINE A == {j \in DOMAIN r : r[j] = "w"}
           B == {i \in DOMAIN t : t[i] = "w"}
           g == [j \in A |-> f[j]]
<1>0. /\ \A j \in 1..Len(r) : r[j] = "w" => f[j] \in 1..Len(t) /\ t[f[j]] = "w"
      /\ \A j, k \in 1..Len(r) : r[j] = "w" /\ r[k] = "w" /\ f[j] = f[k] => j = k
      /\ \A i \in 1..Len(t) : t[i] = "w" => \E j \in 1..Len(r) : r[j] = "w" /\ f[j] = i
  BY DEF Matches
<1>1. DOMAIN r = 1..Len(r) /\ DOMAIN t = 1..Len(t) /\ Len(r) \in Nat /\ Len(t) \in Nat
  BY DEF Texts, Kinds
<1>2. g \in [A -> B]
  BY <1>0, <1>1
<1>3. \A j, k \in A : g[j] = g[k] => j = k
  BY <1>0, <1>1
<1>4. \A i \in B : \E j \in A : g[j] = i
  BY <1>0, <1>1
<1>5. Words(r) = Cardinality(A) /\ Words(t) = Cardinality(B)
  BY DEF Words
<1>6. Positions(A)
  <2>1. A \subseteq 1..Len(r)
    BY <1>1
  <2> HIDE DEF A
  <2> QED
    BY <1>1, <2>1, PositionsInText
<1> HIDE DEF A, B, g
<1>7. g \in Bijection(A, B)
  BY <1>2, <1>3, <1>4 DEF Bijection, Injection, Surjection, IsInjective
<1> QED
  BY <1>5, <1>6, <1>7, FS_Bijection DEF ExistsBijection, Positions

\* ReplaceRuns, one position after the other.
LEMMA RunsAre ==
    ASSUME NEW t \in Texts, NEW kinds
    PROVE  /\ Positions(Stays(t, kinds)) /\ Stays(t, kinds) \subseteq 1..Len(t)
           /\ ReplaceRuns(t, kinds) \in Texts
           /\ Len(ReplaceRuns(t, kinds)) = Cardinality(Stays(t, kinds))
           /\ \A j \in 1..Len(ReplaceRuns(t, kinds)) :
                 /\ Nth(Stays(t, kinds), j) \in Stays(t, kinds)
                 /\ ReplaceRuns(t, kinds)[j] = Replaced(t[Nth(Stays(t, kinds), j)], kinds)
<1> DEFINE S == Stays(t, kinds)
           R == ReplaceRuns(t, kinds)
           n == Cardinality(S)
<1>1. Len(t) \in Nat /\ DOMAIN t = 1..Len(t) /\ \A i \in 1..Len(t) : t[i] \in Kinds
  BY DEF Texts, Kinds
<1>2. S \subseteq 1..Len(t)
  BY <1>1 DEF Stays
<1>3. R = [j \in 1..n |-> Replaced(t[Nth(S, j)], kinds)]
  BY DEF ReplaceRuns, Replaced
<1> HIDE DEF S, R
<1>4. Positions(S)
  BY <1>1, <1>2, PositionsInText
<1>5. n \in Nat
  BY <1>4 DEF Positions
<1>6. \A j \in 1..n : Nth(S, j) \in S
  BY <1>4, NthIs
<1>7. \A j \in 1..n : Replaced(t[Nth(S, j)], kinds) \in Kinds
  BY <1>1, <1>2, <1>6 DEF Replaced, Kinds
<1> HIDE DEF n
<1>8. R \in Texts /\ Len(R) = n
  BY <1>3, <1>5, <1>7 DEF Texts, Kinds
<1>9. \A j \in 1..Len(R) : Nth(S, j) \in S /\ R[j] = Replaced(t[Nth(S, j)], kinds)
  BY <1>3, <1>6, <1>8
<1> QED
  BY <1>2, <1>4, <1>8, <1>9 DEF S, R, n

\* No letter is lost, of two runs that meet or of one at an end.
LEMMA RunsWords ==
    ASSUME NEW t \in Texts, NEW kinds, "w" \notin kinds
    PROVE  Words(ReplaceRuns(t, kinds)) = Words(t)
<1> DEFINE S == Stays(t, kinds)
           R == ReplaceRuns(t, kinds)
           f == [j \in 1..Len(R) |-> Nth(S, j)]
<1>0. Len(t) \in Nat /\ DOMAIN t = 1..Len(t)
  BY DEF Texts, Kinds
<1>1. /\ Positions(S) /\ S \subseteq 1..Len(t) /\ R \in Texts /\ Len(R) = Cardinality(S)
      /\ \A j \in 1..Len(R) : Nth(S, j) \in S /\ R[j] = Replaced(t[Nth(S, j)], kinds)
  BY RunsAre
<1>2. \A i \in 1..Len(t) : t[i] = "w" => i \in S
  BY <1>0 DEF Stays
<1> HIDE DEF S, R
<1>3. \A j \in 1..Len(R) : R[j] = "w" => f[j] \in 1..Len(t) /\ t[f[j]] = "w"
  BY <1>1 DEF Replaced
<1>4. ASSUME NEW j \in 1..Len(R), NEW k \in 1..Len(R), f[j] = f[k] PROVE j = k
  <2>1. j = Rank(S, Nth(S, j)) /\ k = Rank(S, Nth(S, k))
    BY <1>1, NthIs
  <2> QED
    BY <1>4, <2>1
<1>5. ASSUME NEW i \in 1..Len(t), t[i] = "w" PROVE \E j \in 1..Len(R) : R[j] = "w" /\ f[j] = i
  <2>1. i \in S
    BY <1>2, <1>5
  <2>2. Rank(S, i) \in 1..Cardinality(S) /\ Nth(S, Rank(S, i)) = i
    BY <1>1, <2>1, NthRank
  <2>3. R[Rank(S, i)] = "w"
    BY <1>1, <1>5, <2>2 DEF Replaced
  <2> QED
    BY <1>1, <2>2, <2>3
<1> HIDE DEF f
<1>6. Matches(R, t, f)
  BY <1>3, <1>4, <1>5 DEF Matches
<1>7. Words(R) = Words(t)
  BY <1>1, <1>6, SameWords
<1> QED
  BY <1>7 DEF R

\* Two neighbours in the result come from two neighbours in the text, not both of one run.
LEMMA RunsPairs ==
    ASSUME NEW t \in Texts, NEW kinds, NEW x, NEW y, Pair(ReplaceRuns(t, kinds), x, y)
    PROVE  \E u, v \in Kinds :
              /\ Pair(t, u, v) /\ ~(u \in kinds /\ v \in kinds)
              /\ Replaced(u, kinds) = x /\ Replaced(v, kinds) = y
<1> DEFINE S == Stays(t, kinds)
           R == ReplaceRuns(t, kinds)
<1>0. Len(t) \in Nat /\ DOMAIN t = 1..Len(t) /\ \A i \in 1..Len(t) : t[i] \in Kinds
  BY DEF Texts, Kinds
<1>1. /\ Positions(S) /\ S \subseteq 1..Len(t) /\ R \in Texts /\ Len(R) = Cardinality(S)
      /\ \A j \in 1..Len(R) : Nth(S, j) \in S /\ R[j] = Replaced(t[Nth(S, j)], kinds)
  BY RunsAre
<1>2. \A i \in 1..Len(t) : i \in S <=> (t[i] \in kinds => i = 1 \/ t[i - 1] \notin kinds)
  BY <1>0 DEF Stays
<1>3. PICK j \in 1..(Len(R) - 1) : R[j] = x /\ R[j + 1] = y
  BY DEF Pair
<1> HIDE DEF S, R
<1> DEFINE a == Nth(S, j)
           b == Nth(S, j + 1)
<1>4. Len(R) \in Nat /\ j \in 1..Len(R) /\ j + 1 \in 1..Len(R)
  BY <1>1, <1>3 DEF Texts, Kinds
<1>5. a \in S /\ b \in S /\ x = Replaced(t[a], kinds) /\ y = Replaced(t[b], kinds)
  BY <1>1, <1>3, <1>4
<1>6. a < b /\ \A i \in S : ~(a < i /\ i < b)
  BY <1>1, <1>3, NthNeighbours
<1> HIDE DEF a, b
<1>7. /\ a \in 1..Len(t) /\ b \in 1..Len(t) /\ b - 1 \in 1..Len(t) /\ a + 1 \in 1..Len(t)
      /\ b - 1 \in 1..(Len(t) - 1)
  BY <1>0, <1>1, <1>5, <1>6
<1>8. ~(t[b] \in kinds /\ t[b - 1] \in kinds)
  BY <1>2, <1>5, <1>6, <1>7
<1>9. Replaced(t[b - 1], kinds) = x
  <2>1. CASE a = b - 1
    BY <1>5, <2>1
  <2>2. CASE a # b - 1
    <3>1. a < a + 1 /\ a + 1 < b /\ a < b - 1 /\ b - 1 < b
      BY <1>6, <1>7, <2>2
    <3>2. a + 1 \notin S /\ b - 1 \notin S
      BY <1>6, <3>1
    <3>3. t[b - 1] \in kinds
      BY <1>2, <1>7, <3>2
    <3>4. t[(a + 1) - 1] \in kinds
      BY <1>2, <1>7, <3>2
    <3>5. (a + 1) - 1 = a
      BY <1>7
    <3> QED
      BY <1>5, <3>3, <3>4, <3>5 DEF Replaced
  <2> QED
    BY <2>1, <2>2
<1>10. Pair(t, t[b - 1], t[b])
  <2>1. (b - 1) + 1 = b
    BY <1>7
  <2> QED
    BY <1>7, <2>1 DEF Pair
<1>11. t[b - 1] \in Kinds /\ t[b] \in Kinds
  BY <1>0, <1>7
<1> QED
  BY <1>5, <1>8, <1>9, <1>10, <1>11

\* Strip cuts off nothing but characters of these kinds, and all of them.
LEMMA StripIs ==
    ASSUME NEW t \in Texts, NEW kinds
    PROVE  /\ Strip(t, kinds) \in Texts
           /\ \/ Strip(t, kinds) = <<>> /\ \A i \in 1..Len(t) : t[i] \in kinds
              \/ \E lo, hi \in 1..Len(t) :
                    /\ lo <= hi /\ t[lo] \notin kinds /\ t[hi] \notin kinds
                    /\ \A i \in 1..Len(t) : t[i] \notin kinds => lo <= i /\ i <= hi
                    /\ Len(Strip(t, kinds)) = hi - lo + 1
                    /\ \A j \in 1..(hi - lo + 1) : Strip(t, kinds)[j] = t[lo + j - 1]
<1> DEFINE inner == {i \in DOMAIN t : t[i] \notin kinds}
           X == Strip(t, kinds)
<1>1. Len(t) \in Nat /\ DOMAIN t = 1..Len(t) /\ \A i \in 1..Len(t) : t[i] \in Kinds
  BY DEF Texts, Kinds
<1>2. inner \subseteq 1..Len(t) /\ \A i \in 1..Len(t) : i \in inner <=> t[i] \notin kinds
  BY <1>1
<1>3. X = IF inner = {} THEN <<>> ELSE SubSeq(t, Min(inner), Max(inner))
  BY DEF Strip
<1> HIDE DEF inner, X
<1>4. CASE inner = {}
  <2>1. X = <<>> /\ \A i \in 1..Len(t) : t[i] \in kinds
    BY <1>2, <1>3, <1>4
  <2> QED
    BY <2>1 DEF X, Texts, Kinds
<1>5. CASE inner # {}
  <2>1. Positions(inner)
    BY <1>1, <1>2, PositionsInText
  <2> DEFINE lo == Min(inner)
             hi == Max(inner)
  <2>2. lo \in inner /\ hi \in inner /\ \A i \in inner : lo <= i /\ i <= hi
    BY <1>5, <2>1, Extremes
  <2>3. X = SubSeq(t, lo, hi)
    BY <1>3, <1>5
  <2> HIDE DEF lo, hi
  <2>4. lo \in 1..Len(t) /\ hi \in 1..Len(t) /\ lo <= hi
    BY <1>2, <2>2
  <2>5. X = [j \in 1..(hi - lo + 1) |-> t[lo + j - 1]]
    BY <1>1, <2>3, <2>4 DEF Texts, Kinds
  <2>6. hi - lo + 1 \in Nat
    BY <1>1, <2>4
  <2>7. \A j \in 1..(hi - lo + 1) : lo + j - 1 \in 1..Len(t)
    BY <1>1, <2>4
  <2>8. \A j \in 1..(hi - lo + 1) : t[lo + j - 1] \in Kinds
    BY <1>1, <2>7
  <2>9. X \in Texts /\ Len(X) = hi - lo + 1 /\ \A j \in 1..(hi - lo + 1) : X[j] = t[lo + j - 1]
    BY <2>5, <2>6, <2>8 DEF Texts, Kinds
  <2>10. t[lo] \notin kinds /\ t[hi] \notin kinds /\ \A i \in 1..Len(t) : t[i] \notin kinds => lo <= i /\ i <= hi
    BY <1>2, <2>2, <2>4
  <2> QED
    BY <2>4, <2>9, <2>10 DEF X
<1> QED
  BY <1>4, <1>5

\* What it leaves are neighbours as they were.
LEMMA StripKeeps ==
    ASSUME NEW t \in Texts, NEW kinds, "w" \notin kinds
    PROVE  /\ Words(Strip(t, kinds)) = Words(t)
           /\ \A x, y : Pair(Strip(t, kinds), x, y) => Pair(t, x, y)
           /\ \A j \in 1..Len(Strip(t, kinds)) : \E i \in 1..Len(t) : Strip(t, kinds)[j] = t[i]
<1> DEFINE X == Strip(t, kinds)
<1>1. X \in Texts
  BY StripIs
<1>2. Len(t) \in Nat
  BY DEF Texts, Kinds
<1>3. CASE X = <<>> /\ \A i \in 1..Len(t) : t[i] \in kinds
  <2>1. Len(X) = 0
    BY <1>3
  <2> HIDE DEF X
  <2>2. \A i \in 1..Len(t) : t[i] # "w"
    BY <1>3
  <2>3. \A j \in 1..Len(X) : FALSE
    BY <2>1
  <2>4. Matches(X, t, <<>>)
    BY <2>2, <2>3 DEF Matches
  <2>6. Words(X) = Words(t)
    BY <1>1, <2>4, SameWords
  <2>5. \A x, y : ~Pair(X, x, y)
    BY <2>1 DEF Pair
  <2> QED
    BY <2>3, <2>5, <2>6 DEF X
<1>4. ASSUME NEW lo \in 1..Len(t), NEW hi \in 1..Len(t), lo <= hi,
             \A i \in 1..Len(t) : t[i] \notin kinds => lo <= i /\ i <= hi,
             Len(X) = hi - lo + 1, \A j \in 1..(hi - lo + 1) : X[j] = t[lo + j - 1]
      PROVE  /\ Words(X) = Words(t)
             /\ \A x, y : Pair(X, x, y) => Pair(t, x, y)
             /\ \A j \in 1..Len(X) : \E i \in 1..Len(t) : X[j] = t[i]
  <2> HIDE DEF X
  <2> DEFINE f == [j \in 1..Len(X) |-> lo + j - 1]
  <2>1. \A j \in 1..Len(X) : f[j] = lo + j - 1 /\ f[j] \in 1..Len(t) /\ t[f[j]] = X[j]
    BY <1>2, <1>4
  <2>2. \A j, k \in 1..Len(X) : X[j] = "w" /\ X[k] = "w" /\ f[j] = f[k] => j = k
    BY <2>1
  <2>8. \A j \in 1..Len(X) : X[j] = "w" => f[j] \in 1..Len(t) /\ t[f[j]] = "w"
    BY <2>1
  <2>3. ASSUME NEW i \in 1..Len(t), t[i] = "w" PROVE \E j \in 1..Len(X) : X[j] = "w" /\ f[j] = i
    <3>1. lo <= i /\ i <= hi
      BY <1>4, <2>3
    <3>2. i - lo + 1 \in 1..Len(X) /\ lo + (i - lo + 1) - 1 = i
      BY <1>2, <1>4, <3>1
    <3> QED
      BY <2>1, <2>3, <3>2
  <2>9. Matches(X, t, f)
    BY <2>2, <2>3, <2>8 DEF Matches
  <2> HIDE DEF f
  <2>4. Words(X) = Words(t)
    BY <1>1, <2>9, SameWords
  <2>5. ASSUME NEW x, NEW y, Pair(X, x, y) PROVE Pair(t, x, y)
    <3>1. PICK j \in 1..(Len(X) - 1) : X[j] = x /\ X[j + 1] = y
      BY <2>5 DEF Pair
    <3>2. j \in 1..Len(X) /\ j + 1 \in 1..Len(X)
      BY <1>2, <1>4, <3>1
    <3>3. lo + j - 1 \in 1..(Len(t) - 1) /\ lo + (j + 1) - 1 = (lo + j - 1) + 1
      BY <1>2, <1>4, <3>1
    <3>4. X[j] = t[lo + j - 1] /\ X[j + 1] = t[lo + (j + 1) - 1]
      BY <1>4, <3>2
    <3>5. t[lo + j - 1] = x /\ t[(lo + j - 1) + 1] = y
      BY <3>1, <3>3, <3>4
    <3> QED
      BY <3>3, <3>5 DEF Pair
  <2> QED
    BY <2>1, <2>4, <2>5
<1> QED
  BY <1>3, <1>4, StripIs

\* Both ends of what it leaves are of other kinds.
LEMMA StripEnds ==
    ASSUME NEW t \in Texts, NEW kinds, Strip(t, kinds) # <<>>
    PROVE  LET X == Strip(t, kinds)
           IN  X[1] \notin kinds /\ X[Len(X)] \notin kinds
<1> DEFINE X == Strip(t, kinds)
<1>1. PICK lo, hi \in 1..Len(t) :
          /\ lo <= hi /\ t[lo] \notin kinds /\ t[hi] \notin kinds
          /\ Len(X) = hi - lo + 1 /\ \A j \in 1..(hi - lo + 1) : X[j] = t[lo + j - 1]
  BY StripIs
<1>2. Len(t) \in Nat
  BY DEF Texts, Kinds
<1> HIDE DEF X
<1>3. /\ 1 \in 1..(hi - lo + 1) /\ hi - lo + 1 \in 1..(hi - lo + 1)
      /\ lo + 1 - 1 = lo /\ lo + (hi - lo + 1) - 1 = hi
  BY <1>1, <1>2
<1>4. X[1] = t[lo] /\ X[Len(X)] = t[hi]
  BY <1>1, <1>3
<1> QED
  BY <1>1, <1>4 DEF X

\* At most one space on either side, and on the right only of something.
LEMMA SymbolsAre ==
    ASSUME NEW t \in Texts
    PROVE  \E a, b \in {0, 1} :
              LET X == Strip(t, {"s", "p", "f"})
                  Y == symbolsBeginningOrEndOfLines(t)
              IN  /\ Y \in Texts /\ Len(Y) = a + Len(X) + b /\ (b = 1 => Len(X) # 0)
                  /\ \A j \in 1..Len(Y) : j <= a => Y[j] = "s"
                  /\ \A j \in 1..Len(Y) : a < j /\ j <= a + Len(X) => Y[j] = X[j - a]
                  /\ \A j \in 1..Len(Y) : a + Len(X) < j => Y[j] = "s"
<1> DEFINE W == {"s", "p", "f"}
           X == Strip(t, W)
           Y == symbolsBeginningOrEndOfLines(t)
           Space(there) == IF there THEN <<"s">> ELSE <<>>
           A == Space(t[1] \in W)
           B == Space(t[Len(t)] \in W /\ X # <<>>)
<1>1. X \in Texts
  BY StripIs
<1>2. Len(X) \in Nat /\ (X = <<>> <=> Len(X) = 0)
  BY <1>1 DEF Texts, Kinds
<1>3. CASE t = <<>>
  <2>1. Len(X) = 0
    <3>1. \A lo \in 1..Len(t) : FALSE
      BY <1>3
    <3>2. X = <<>>
      BY <3>1, StripIs
    <3> QED
      BY <1>2, <3>2
  <2>2. Y = <<>>
    BY <1>3 DEF symbolsBeginningOrEndOfLines
  <2> HIDE DEF X, Y, W
  <2>3. Y \in Texts /\ Len(Y) = 0 + Len(X) + 0 /\ \A j \in 1..Len(Y) : FALSE
    BY <2>1, <2>2 DEF Texts, Kinds
  <2> QED
    BY <2>3 DEF X, Y, W
<1>4. CASE t # <<>>
  <2>1. Y = A \o X \o B
    BY <1>4 DEF symbolsBeginningOrEndOfLines
  <2>2. (A = <<>> \/ A = <<"s">>) /\ (B = <<>> \/ (B = <<"s">> /\ Len(X) # 0))
    BY <1>2
  <2> HIDE DEF A, B, X, Y, W
  <2>3. A \in Texts /\ B \in Texts
    <3>1. <<>> \in Texts /\ <<"s">> \in Texts
      BY DEF Texts, Kinds
    <3> QED
      BY <2>2, <3>1
  <2>4. Len(A) \in {0, 1} /\ Len(B) \in {0, 1} /\ (Len(B) = 1 => Len(X) # 0)
    BY <2>2
  <2>5. (\A j \in 1..Len(A) : A[j] = "s") /\ (\A j \in 1..Len(B) : B[j] = "s")
    BY <2>2
  <2>6. A \o X \in Texts /\ Len(A \o X) = Len(A) + Len(X)
            /\ \A j \in 1..Len(A \o X) : (A \o X)[j] = IF j <= Len(A) THEN A[j] ELSE X[j - Len(A)]
    BY <1>1, <2>3 DEF Texts, Kinds
  <2>7. Y \in Texts /\ Len(Y) = Len(A \o X) + Len(B)
            /\ \A j \in 1..Len(Y) : Y[j] = IF j <= Len(A \o X) THEN (A \o X)[j] ELSE B[j - Len(A \o X)]
    BY <2>1, <2>3, <2>6 DEF Texts, Kinds
  <2> DEFINE a == Len(A)
             b == Len(B)
             n == Len(X)
             front == A \o X
  <2>8. Y \in Texts /\ Len(Y) = a + n + b
    BY <2>6, <2>7
  <2>9. \A j \in 1..(a + n) : front[j] = IF j <= a THEN A[j] ELSE X[j - a]
    BY <2>6
  <2>10. \A j \in 1..(a + n + b) : Y[j] = IF j <= a + n THEN front[j] ELSE B[j - (a + n)]
    BY <2>6, <2>7
  <2>11. (\A j \in 1..a : A[j] = "s") /\ (\A j \in 1..b : B[j] = "s")
    BY <2>5
  <2>12. a \in {0, 1} /\ b \in {0, 1} /\ n \in Nat /\ (b = 1 => n # 0)
    BY <1>2, <2>4
  <2> HIDE DEF a, b, n, front
  <2>13. \A j \in 1..(a + n + b) : j <= a => Y[j] = "s"
    <3>1. \A j \in 1..(a + n + b) : j <= a => j \in 1..a /\ j \in 1..(a + n) /\ j <= a + n
      BY <2>12
    <3> QED
      BY <2>9, <2>10, <2>11, <3>1
  <2>14. \A j \in 1..(a + n + b) : a < j /\ j <= a + n => Y[j] = X[j - a]
    <3>1. \A j \in 1..(a + n + b) : a < j /\ j <= a + n => j \in 1..(a + n) /\ ~(j <= a)
      BY <2>12
    <3> QED
      BY <2>9, <2>10, <3>1
  <2>15. \A j \in 1..(a + n + b) : a + n < j => Y[j] = "s"
    <3>1. \A j \in 1..(a + n + b) : a + n < j => j - (a + n) \in 1..b /\ ~(j <= a + n)
      BY <2>12
    <3> QED
      BY <2>10, <2>11, <3>1
  <2>16. \E c, d \in {0, 1} :
              /\ Y \in Texts /\ Len(Y) = c + n + d /\ (d = 1 => n # 0)
              /\ \A j \in 1..Len(Y) : j <= c => Y[j] = "s"
              /\ \A j \in 1..Len(Y) : c < j /\ j <= c + n => Y[j] = X[j - c]
              /\ \A j \in 1..Len(Y) : c + n < j => Y[j] = "s"
    BY <2>8, <2>12, <2>13, <2>14, <2>15
  <2> QED
    BY <2>16 DEF n, X, Y, W
<1> QED
  BY <1>3, <1>4

\* Beside these spaces there is a letter, so that neither makes two.
LEMMA SymbolsKeep ==
    ASSUME NEW t \in Texts
    PROVE  LET Y == symbolsBeginningOrEndOfLines(t)
           IN  /\ Y \in Texts /\ Words(Y) = Words(t)
               /\ \A x, y : Pair(Y, x, y) /\ x # "w" /\ y # "w" => Pair(t, x, y)
               /\ \A j \in 1..Len(Y) : Y[j] = "s" \/ \E i \in 1..Len(t) : Y[j] = t[i]
               /\ \A j \in 1..Len(Y) : (\A k \in 1..Len(Y) : k < j => Y[k] = "s") => Y[j] \in {"w", "s"}
               /\ \A j \in 1..Len(Y) : (\A k \in 1..Len(Y) : k > j => Y[k] = "s") => Y[j] \in {"w", "s"}
<1> DEFINE X == Strip(t, {"s", "p", "f"})
           Y == symbolsBeginningOrEndOfLines(t)
<1>1. PICK a, b \in {0, 1} :
          /\ Y \in Texts /\ Len(Y) = a + Len(X) + b /\ (b = 1 => Len(X) # 0)
          /\ \A j \in 1..Len(Y) : j <= a => Y[j] = "s"
          /\ \A j \in 1..Len(Y) : a < j /\ j <= a + Len(X) => Y[j] = X[j - a]
          /\ \A j \in 1..Len(Y) : a + Len(X) < j => Y[j] = "s"
  BY SymbolsAre
<1>2. X \in Texts
  BY StripIs
<1>3. /\ Words(X) = Words(t)
      /\ \A x, y : Pair(X, x, y) => Pair(t, x, y)
      /\ \A j \in 1..Len(X) : \E i \in 1..Len(t) : X[j] = t[i]
  BY StripKeeps
<1>4. Len(X) # 0 => X[1] = "w" /\ X[Len(X)] = "w"
  <2>1. Len(X) # 0 => X # <<>>
    OBVIOUS
  <2>2. X # <<>> => X[1] \notin {"s", "p", "f"} /\ X[Len(X)] \notin {"s", "p", "f"}
    BY StripEnds
  <2> HIDE DEF X
  <2>3. Len(X) # 0 => 1 \in 1..Len(X) /\ Len(X) \in 1..Len(X)
    BY <1>2 DEF Texts, Kinds
  <2>4. \A j \in 1..Len(X) : X[j] \in Kinds
    BY <1>2 DEF Texts, Kinds
  <2> QED
    BY <2>1, <2>2, <2>3, <2>4 DEF Kinds
<1> HIDE DEF X, Y
<1>5. Len(X) \in Nat
  BY <1>2 DEF Texts, Kinds
<1>6. \A j \in 1..Len(Y) : Y[j] # "s" => j - a \in 1..Len(X) /\ Y[j] = X[j - a]
  BY <1>1, <1>5
<1>7. \A i \in 1..Len(X) : i + a \in 1..Len(Y) /\ Y[i + a] = X[i]
  <2>1. \A i \in 1..Len(X) : i + a \in 1..Len(Y) /\ a < i + a /\ i + a <= a + Len(X) /\ (i + a) - a = i
    BY <1>1, <1>5
  <2> QED
    BY <1>1, <2>1
<1>8. Words(Y) = Words(X)
  <2> DEFINE f == [j \in 1..Len(Y) |-> j - a]
  <2>1. \A j \in 1..Len(Y) : f[j] = j - a
    OBVIOUS
  <2>2. \A j \in 1..Len(Y) : Y[j] = "w" => f[j] \in 1..Len(X) /\ X[f[j]] = "w"
    BY <1>6, <2>1
  <2>3. \A j, k \in 1..Len(Y) : Y[j] = "w" /\ Y[k] = "w" /\ f[j] = f[k] => j = k
    BY <1>1, <2>1
  <2>4. ASSUME NEW i \in 1..Len(X), X[i] = "w" PROVE \E j \in 1..Len(Y) : Y[j] = "w" /\ f[j] = i
    <3>1. i + a \in 1..Len(Y) /\ Y[i + a] = "w" /\ f[i + a] = i
      BY <1>1, <1>5, <1>7, <2>4
    <3> QED
      BY <3>1
  <2>5. Matches(Y, X, f)
    BY <2>2, <2>3, <2>4 DEF Matches
  <2> HIDE DEF f
  <2> QED
    BY <1>1, <1>2, <2>5, SameWords
<1>9. ASSUME NEW x, NEW y, Pair(Y, x, y), x # "w", y # "w" PROVE Pair(X, x, y)
  <2>1. PICK j \in 1..(Len(Y) - 1) : Y[j] = x /\ Y[j + 1] = y
    BY <1>9 DEF Pair
  <2>2. Len(X) # 0
    BY <1>1, <2>1
  <2>3. X[1] = "w" /\ X[Len(X)] = "w" /\ Y[1 + a] = "w" /\ Y[Len(X) + a] = "w"
    BY <1>4, <1>5, <1>7, <2>2
  <2>4. j # 1 + a /\ j + 1 # 1 + a /\ j # Len(X) + a /\ j + 1 # Len(X) + a
    BY <1>9, <2>1, <2>3
  <2>5. /\ j - a \in 1..(Len(X) - 1) /\ (j + 1) - a = (j - a) + 1
        /\ j - a \in 1..Len(X) /\ (j + 1) - a \in 1..Len(X)
    BY <1>1, <1>5, <2>1, <2>2, <2>4
  <2>6. j \in 1..Len(Y) /\ a < j /\ j <= a + Len(X) /\ j + 1 \in 1..Len(Y) /\ a < j + 1 /\ j + 1 <= a + Len(X)
    BY <1>1, <1>5, <2>1, <2>5
  <2>7. X[j - a] = x /\ X[(j - a) + 1] = y
    BY <1>1, <2>1, <2>5, <2>6
  <2> QED
    BY <2>5, <2>7 DEF Pair
<1>10. \A j \in 1..Len(Y) : Y[j] = "s" \/ \E i \in 1..Len(t) : Y[j] = t[i]
  BY <1>3, <1>6
<1>11. ASSUME NEW j \in 1..Len(Y), \A k \in 1..Len(Y) : k < j => Y[k] = "s" PROVE Y[j] \in {"w", "s"}
  <2> SUFFICES ASSUME Y[j] # "s" PROVE Y[j] = "w"
    OBVIOUS
  <2>1. j - a \in 1..Len(X) /\ Y[j] = X[j - a]
    BY <1>6
  <2>2. 1 \in 1..Len(X) /\ 1 + a \in 1..Len(Y) /\ Y[1 + a] = "w"
    BY <1>4, <1>5, <1>7, <2>1
  <2>3. ~(1 + a < j)
    BY <1>11, <2>2
  <2>4. j = 1 + a
    BY <1>5, <2>1, <2>3
  <2> QED
    BY <2>2, <2>4
<1>12. ASSUME NEW j \in 1..Len(Y), \A k \in 1..Len(Y) : k > j => Y[k] = "s" PROVE Y[j] \in {"w", "s"}
  <2> SUFFICES ASSUME Y[j] # "s" PROVE Y[j] = "w"
    OBVIOUS
  <2>1. j - a \in 1..Len(X) /\ Y[j] = X[j - a]
    BY <1>6
  <2>2. Len(X) \in 1..Len(X) /\ Len(X) + a \in 1..Len(Y) /\ Y[Len(X) + a] = "w"
    BY <1>4, <1>5, <1>7, <2>1
  <2>3. ~(Len(X) + a > j)
    BY <1>12, <2>2
  <2>4. j = Len(X) + a
    BY <1>5, <2>1, <2>3
  <2> QED
    BY <2>2, <2>4
<1> QED
  BY <1>1, <1>3, <1>8, <1>9, <1>10, <1>11, <1>12 DEF Y

\* RunsPairs for the one kind that each pattern replaces.
LEMMA ReplacedPair ==
    ASSUME NEW t \in Texts, NEW kind \in {"s", "p", "f"}, NEW x, NEW y, Pair(ReplaceRuns(t, {kind}), x, y)
    PROVE  \E u, v \in Kinds :
              /\ Pair(t, u, v) /\ ~(u = kind /\ v = kind)
              /\ ((u = x /\ u # kind) \/ (u = kind /\ x = "s"))
              /\ ((v = y /\ v # kind) \/ (v = kind /\ y = "s"))
<1>1. PICK u, v \in Kinds :
          /\ Pair(t, u, v) /\ ~(u \in {kind} /\ v \in {kind})
          /\ Replaced(u, {kind}) = x /\ Replaced(v, {kind}) = y
  BY RunsPairs
<1> QED
  BY <1>1 DEF Replaced

\* The kind that is replaced is gone, and no other one is new but the space.
LEMMA Lacking ==
    ASSUME NEW t \in Texts, NEW kind \in {"p", "f"}
    PROVE  /\ ReplaceRuns(t, {kind}) \in Texts
           /\ \A j \in 1..Len(ReplaceRuns(t, {kind})) :
                 /\ ReplaceRuns(t, {kind})[j] # kind
                 /\ ReplaceRuns(t, {kind})[j] = "s" \/ \E i \in 1..Len(t) : ReplaceRuns(t, {kind})[j] = t[i]
<1> DEFINE R == ReplaceRuns(t, {kind})
           S == Stays(t, {kind})
<1>1. /\ S \subseteq 1..Len(t) /\ R \in Texts
      /\ \A j \in 1..Len(R) : Nth(S, j) \in S /\ R[j] = Replaced(t[Nth(S, j)], {kind})
  BY RunsAre
<1> HIDE DEF R, S
<1>2. \A j \in 1..Len(R) : R[j] # kind /\ (R[j] = "s" \/ \E i \in 1..Len(t) : R[j] = t[i])
  BY <1>1 DEF Replaced
<1> QED
  BY <1>1, <1>2 DEF R

\* What CleanedTexts says of a text, for every text and pattern.
LEMMA CleanedContent ==
    ASSUME NEW text \in Texts, NEW pattern
    PROVE  LET clean == CleanContent(text, pattern)
           IN  /\ Words(clean) = Words(text)
               /\ "f" \notin ToSet(clean)
               /\ clean # <<>> => clean[1] = "w" /\ clean[Len(clean)] = "w"
               /\ Adjacent(clean, "s", "s") => \E j, k \in Blank(pattern) : j # k /\ Adjacent(text, j, k)
<1> DEFINE t1 == extraSpaces(text)
           t2 == nonAsciiCharacters(t1)
           t3 == symbolsBeginningOrEndOfLines(t2)
           t4 == IF pattern = "symbols" THEN ReplaceRuns(t3, {"p"}) ELSE t3
           clean == Strip(t4, {"s"})
<1>1. clean = CleanContent(text, pattern)
  BY DEF CleanContent, trim
<1>2. /\ t1 \in Texts /\ Words(t1) = Words(text)
      /\ \A x, y : Pair(t1, x, y) => Pair(text, x, y) /\ ~(x = "s" /\ y = "s")
  <2>1. t1 = ReplaceRuns(text, {"s"})
    BY DEF extraSpaces
  <2> HIDE DEF t1
  <2>2. t1 \in Texts /\ Words(t1) = Words(text)
    BY <2>1, RunsAre, RunsWords
  <2>3. ASSUME NEW x, NEW y, Pair(t1, x, y) PROVE Pair(text, x, y) /\ ~(x = "s" /\ y = "s")
    <3>1. PICK u, v \in Kinds :
              /\ Pair(text, u, v) /\ ~(u = "s" /\ v = "s")
              /\ ((u = x /\ u # "s") \/ (u = "s" /\ x = "s"))
              /\ ((v = y /\ v # "s") \/ (v = "s" /\ y = "s"))
      BY <2>1, <2>3, ReplacedPair
    <3> QED
      BY <3>1
  <2> QED
    BY <2>2, <2>3
<1>3. /\ t2 \in Texts /\ Words(t2) = Words(t1) /\ \A j \in 1..Len(t2) : t2[j] # "f"
      /\ \A x, y : Pair(t2, x, y) =>
             \E u, v \in Kinds : /\ Pair(t1, u, v) /\ ~(u = "f" /\ v = "f")
                                 /\ ((u = x /\ u # "f") \/ (u = "f" /\ x = "s"))
                                 /\ ((v = y /\ v # "f") \/ (v = "f" /\ y = "s"))
  <2>1. t2 = ReplaceRuns(t1, {"f"})
    BY DEF nonAsciiCharacters
  <2> HIDE DEF t1, t2
  <2> QED
    BY <1>2, <2>1, Lacking, RunsWords, ReplacedPair DEF Kinds
<1> HIDE DEF t1, t2
<1>4. /\ t3 \in Texts /\ Words(t3) = Words(t2) /\ \A j \in 1..Len(t3) : t3[j] # "f"
      /\ \A x, y : Pair(t3, x, y) /\ x # "w" /\ y # "w" => Pair(t2, x, y)
      /\ \A j \in 1..Len(t3) : (\A k \in 1..Len(t3) : k < j => t3[k] = "s") => t3[j] \in {"w", "s"}
      /\ \A j \in 1..Len(t3) : (\A k \in 1..Len(t3) : k > j => t3[k] = "s") => t3[j] \in {"w", "s"}
  BY <1>3, SymbolsKeep
<1> HIDE DEF t3
<1>5. /\ t4 \in Texts /\ Words(t4) = Words(t3) /\ \A j \in 1..Len(t4) : t4[j] # "f"
      /\ \A j \in 1..Len(t4) : (\A k \in 1..Len(t4) : k < j => t4[k] = "s") => t4[j] \in {"w", "s"}
      /\ \A j \in 1..Len(t4) : (\A k \in 1..Len(t4) : k > j => t4[k] = "s") => t4[j] \in {"w", "s"}
      /\ Pair(t4, "s", "s") =>
             \E u, v \in Blank(pattern) \ {"f"} : Pair(t3, u, v) /\ ~(u = "p" /\ v = "p")
  <2>1. CASE pattern = "symbols"
    <3>1. t4 = ReplaceRuns(t3, {"p"})
      BY <2>1
    <3> HIDE DEF t4
    <3>2. t4 \in Texts /\ Words(t4) = Words(t3)
      BY <1>4, <3>1, Lacking, RunsWords
    <3>3. \A j \in 1..Len(t4) : t4[j] # "p" /\ t4[j] # "f"
      BY <1>4, <3>1, Lacking
    <3>4. \A j \in 1..Len(t4) : t4[j] \in {"w", "s"}
      <4>1. \A j \in 1..Len(t4) : t4[j] \in Kinds
        BY <3>2 DEF Texts, Kinds
      <4> QED
        BY <3>3, <4>1 DEF Kinds
    <3>5. ASSUME Pair(t4, "s", "s")
          PROVE  \E u, v \in Blank(pattern) \ {"f"} : Pair(t3, u, v) /\ ~(u = "p" /\ v = "p")
      <4>1. PICK u, v \in Kinds :
                /\ Pair(t3, u, v) /\ ~(u = "p" /\ v = "p")
                /\ ((u = "s" /\ u # "p") \/ (u = "p" /\ "s" = "s"))
                /\ ((v = "s" /\ v # "p") \/ (v = "p" /\ "s" = "s"))
        BY <1>4, <3>1, <3>5, ReplacedPair
      <4>2. u \in Blank(pattern) \ {"f"} /\ v \in Blank(pattern) \ {"f"}
        BY <2>1, <4>1 DEF Blank
      <4> QED
        BY <4>1, <4>2
    <3> QED
      BY <3>2, <3>3, <3>4, <3>5
  <2>2. CASE pattern # "symbols"
    <3>1. t4 = t3
      BY <2>2
    <3>2. "s" \in Blank(pattern) \ {"f"}
      BY DEF Blank
    <3> HIDE DEF t4
    <3> QED
      BY <1>4, <3>1, <3>2
  <2> QED
    BY <2>1, <2>2
<1> HIDE DEF t4
<1>6. clean \in Texts /\ Words(clean) = Words(text)
  <2>1. clean \in Texts /\ Words(clean) = Words(t4)
    BY <1>5, StripIs, StripKeeps
  <2> HIDE DEF clean
  <2> QED
    BY <1>2, <1>3, <1>4, <1>5, <2>1
<1>7. "f" \notin ToSet(clean)
  <2>1. \A j \in 1..Len(clean) : \E i \in 1..Len(t4) : clean[j] = t4[i]
    BY <1>5, StripKeeps
  <2> HIDE DEF clean
  <2>2. DOMAIN clean = 1..Len(clean)
    BY <1>6 DEF Texts, Kinds
  <2> QED
    BY <1>5, <2>1, <2>2 DEF ToSet
<1>8. ASSUME clean # <<>> PROVE clean[1] = "w" /\ clean[Len(clean)] = "w"
  <2>1. PICK lo, hi \in 1..Len(t4) :
            /\ lo <= hi /\ t4[lo] \notin {"s"} /\ t4[hi] \notin {"s"}
            /\ \A i \in 1..Len(t4) : t4[i] \notin {"s"} => lo <= i /\ i <= hi
            /\ Len(clean) = hi - lo + 1 /\ \A j \in 1..(hi - lo + 1) : clean[j] = t4[lo + j - 1]
    BY <1>5, <1>8, StripIs
  <2> HIDE DEF clean
  <2>2. Len(t4) \in Nat
    BY <1>5 DEF Texts, Kinds
  <2>3. t4[lo] = "w"
    <3>1. \A k \in 1..Len(t4) : k < lo => t4[k] = "s"
      BY <2>1, <2>2
    <3> QED
      BY <1>5, <2>1, <3>1
  <2>4. t4[hi] = "w"
    <3>1. \A k \in 1..Len(t4) : k > hi => t4[k] = "s"
      BY <2>1, <2>2
    <3> QED
      BY <1>5, <2>1, <3>1
  <2>5. /\ 1 \in 1..(hi - lo + 1) /\ hi - lo + 1 \in 1..(hi - lo + 1)
        /\ lo + 1 - 1 = lo /\ lo + (hi - lo + 1) - 1 = hi
    BY <2>1, <2>2
  <2> QED
    BY <2>1, <2>3, <2>4, <2>5
<1>9. ASSUME Adjacent(clean, "s", "s") PROVE \E j, k \in Blank(pattern) : j # k /\ Adjacent(text, j, k)
  <2>1. Pair(clean, "s", "s")
    BY <1>9 DEF Adjacent, Pair
  <2>2. Pair(t4, "s", "s")
    BY <1>5, <2>1, StripKeeps
  <2> HIDE DEF clean
  <2>3. PICK u, v \in Blank(pattern) \ {"f"} : Pair(t3, u, v) /\ ~(u = "p" /\ v = "p")
    BY <1>5, <2>2
  <2>4. u \in {"s", "p"} /\ v \in {"s", "p"}
    BY DEF Blank
  <2>5. Pair(t2, u, v)
    BY <1>4, <2>3, <2>4
  <2>6. PICK j, k \in Kinds : /\ Pair(t1, j, k) /\ ~(j = "f" /\ k = "f")
                              /\ ((j = u /\ j # "f") \/ (j = "f" /\ u = "s"))
                              /\ ((k = v /\ k # "f") \/ (k = "f" /\ v = "s"))
    BY <1>3, <2>5
  <2>7. Pair(text, j, k) /\ ~(j = "s" /\ k = "s")
    BY <1>2, <2>6
  <2>8. j # k /\ j \in Blank(pattern) /\ k \in Blank(pattern)
    <3>1. "f" \in Blank(pattern)
      BY DEF Blank
    <3> QED
      BY <2>3, <2>4, <2>6, <2>7, <3>1
  <2>9. Adjacent(text, j, k)
    BY <2>7 DEF Adjacent, Pair
  <2> QED
    BY <2>8, <2>9
<1> QED
  BY <1>1, <1>6, <1>7, <1>8, <1>9

(***************************************************************************)
(* CleanedTexts, for texts of every length: what a call returns has every  *)
(* letter of its own text, nothing that is not ASCII, a letter at both     *)
(* ends, and two spaces in succession only where a character that is       *)
(* replaced after the spaces stood beside one, or beside another such      *)
(* character (ContentCleaner.cpp:38, :58).                                 *)
(***************************************************************************)
THEOREM TextsCleaned == Spec => []CleanedTexts
<1>1. ASSUME HInv, NEW c \in Callers, pc[c] = "cleaned"
      PROVE  /\ custom[c] = "bad" => docs[c] = <<>>
             /\ \A i \in DOMAIN docs[c] :
                   LET text == docs[c][i]
                       clean == documents[c][i]
                       blank == {"s", "f"} \cup (IF custom[c] = "symbols" THEN {"p"} ELSE {})
                   IN  /\ Words(clean) = Words(text)
                       /\ "f" \notin ToSet(clean)
                       /\ clean # <<>> => clean[1] = "w" /\ clean[Len(clean)] = "w"
                       /\ Adjacent(clean, "s", "s") => \E j, k \in blank : j # k /\ Adjacent(text, j, k)
  <2>1. \A i \in DOMAIN docs[c] : Cleaned(c, i)
    BY <1>1 DEF HInv, Local, Cleans
  <2>2. docs[c] \in Seq(Texts) /\ DOMAIN docs[c] = 1..Len(docs[c]) /\ Len(docs[c]) \in Nat
    BY <1>1, DocsSeq DEF Texts, Kinds
  <2>3. custom[c] = "bad" => docs[c] = <<>>
    <3>1. custom[c] = "bad" => 1 \notin DOMAIN docs[c]
      BY <2>1 DEF Cleaned
    <3> QED
      BY <2>2, <3>1
  <2>4. ASSUME NEW i \in DOMAIN docs[c]
        PROVE  /\ docs[c][i] \in Texts
               /\ documents[c][i] = CleanContent(docs[c][i], custom[c])
    BY <2>1, <2>2 DEF Cleaned
  <2> QED
    BY <2>3, <2>4, CleanedContent DEF Blank
<1>2. HInv => CleanedTexts
  BY <1>1 DEF CleanedTexts
<1> QED
  BY <1>2, CallsInductive, PTL

-----------------------------------------------------------------------------
(***************************************************************************)
(* The history against HistorySpec.                                        *)
(***************************************************************************)
\* What Promised is: the owner of the mutex is the only one.
AsPromised ==
    /\ messages \in Seq(added \X Nat)
    /\ (\A c \in Callers : pc[c] # "insert") => Promised = messages
    /\ \A c \in Callers :
          pc[c] = "insert" => Promised = messages \o Stretch(number[c], Done(c), total[c])

LEMMA PromisedIs == HInv => AsPromised
<1> SUFFICES ASSUME HInv PROVE AsPromised
  OBVIOUS
<1>1. messages \in Seq(added \X Nat)
  BY MessageSeq
<1>2. messages \o <<>> = messages
  BY <1>1
<1>3. ASSUME \A c \in Callers : pc[c] # "insert" PROVE Promised = messages
  BY <1>2, <1>3 DEF Promised
<1>4. ASSUME NEW c \in Callers, pc[c] = "insert"
      PROVE  Promised = messages \o Stretch(number[c], Done(c), total[c])
  <2>1. {d \in Callers : pc[d] = "insert"} = {c}
    BY <1>4 DEF HInv, Mutex
  <2>2. (CHOOSE d \in {c} : TRUE) = c
    OBVIOUS
  <2> QED
    BY <2>1, <2>2 DEF Promised, Stretch
<1> QED
  BY <1>1, <1>3, <1>4 DEF AsPromised

LEMMA PromisedStays ==
    ASSUME HInv, HInv', messages' = messages,
           \A d \in Callers : /\ pc[d] = "insert" <=> pc'[d] = "insert"
                              /\ pc[d] = "insert" => number'[d] = number[d] /\ total'[d] = total[d]
    PROVE  Promised' = Promised
<1>1. (HInv => AsPromised)'
  BY PromisedIs, PTL
<1>2. AsPromised /\ AsPromised'
  BY <1>1, PromisedIs
<1>3. CASE \A c \in Callers : pc[c] # "insert"
  BY <1>2, <1>3 DEF AsPromised
<1>4. ASSUME NEW c \in Callers, pc[c] = "insert" PROVE Promised' = Promised
  <2>1. Done(c)' = Done(c)
    BY <1>4 DEF Done
  <2> QED
    BY <1>2, <1>4, <2>1 DEF AsPromised
<1> QED
  BY <1>3, <1>4

LEMMA ConcatElements ==
    ASSUME NEW S, NEW s \in Seq(S), NEW t \in Seq(S), NEW m, m = Len(s), NEW d, d = Len(t)
    PROVE  /\ s \o t \in Seq(S) /\ Len(s \o t) = m + d
           /\ \A i \in 1..(m + d) : (s \o t)[i] = IF i <= m THEN s[i] ELSE t[i - m]
OBVIOUS

\* A message that is appended has been promised.
Joins(s, b, x, y) ==
    Append(s, <<b, x + 1>>) \o Stretch(b, x + 1, y) = s \o Stretch(b, x, y)

LEMMA StretchConcat ==
    ASSUME NEW M, NEW s \in Seq(M \X Nat), NEW b \in M, NEW x \in Nat, NEW y \in Nat, x < y
    PROVE  Joins(s, b, x, y)
<1> DEFINE d == y - (x + 1)
           u == Stretch(b, x, y)
           v == Stretch(b, x + 1, y)
           S == M \X Nat
           n == Len(s)
           a == <<b, x + 1>>
<1>1. x + 1 \in Nat /\ x <= y /\ x + 1 <= y /\ d \in Nat /\ y - x = d + 1 /\ n \in Nat /\ a \in S
  OBVIOUS
<1>2. v \in Seq(S) /\ Len(v) = d /\ \A i \in 1..d : v[i] = <<b, x + 1 + i>>
  BY <1>1, StretchSeq
<1>3. u \in Seq(S) /\ Len(u) = d + 1 /\ \A i \in 1..(d + 1) : u[i] = <<b, x + i>>
  <2> HIDE DEF d, S
  <2>1. Stretch(b, x, y) \in Seq(M \X Nat)
    BY StretchSeq
  <2>2. Len(Stretch(b, x, y)) = y - x
    BY <1>1, StretchSeq
  <2>3. \A i \in 1..(y - x) : Stretch(b, x, y)[i] = <<b, x + i>>
    BY StretchSeq
  <2>4. u \in Seq(S) /\ Len(u) = y - x /\ \A i \in 1..(y - x) : u[i] = <<b, x + i>>
    BY <2>1, <2>2, <2>3 DEF S
  <2> HIDE DEF u
  <2> QED
    BY <1>1, <2>4
<1>4. s \in Seq(S)
  OBVIOUS
<1>5. u[1] = a /\ \A i \in 1..d : u[i + 1] = v[i]
  <2>1. u[1] = a
    BY <1>1, <1>3
  <2>2. ASSUME NEW i \in 1..d PROVE u[i + 1] = v[i]
    <3>1. i + 1 \in 1..(d + 1) /\ x + (i + 1) = x + 1 + i
      BY <1>1
    <3> HIDE DEF u, v, d
    <3> QED
      BY <1>2, <1>3, <3>1
  <2> QED
    BY <2>1, <2>2
<1> HIDE DEF d, u, v, S, n, a
<1> DEFINE l == Append(s, a) \o v
           r == s \o u
<1>6. Append(s, a) \in Seq(S) /\ n + 1 = Len(Append(s, a))
      /\ \A i \in 1..(n + 1) : Append(s, a)[i] = IF i <= n THEN s[i] ELSE a
  BY <1>1, <1>4 DEF n
<1>7. l \in Seq(S) /\ Len(l) = n + 1 + d
      /\ \A i \in 1..(n + 1 + d) : l[i] = IF i <= n + 1 THEN Append(s, a)[i] ELSE v[i - (n + 1)]
  <2> DEFINE q == Append(s, a)
             m == n + 1
  <2>1. q \in Seq(S) /\ m = Len(q) /\ d = Len(v) /\ v \in Seq(S)
    BY <1>2, <1>6
  <2> HIDE DEF q, m
  <2>2. q \o v \in Seq(S) /\ Len(q \o v) = m + d
        /\ \A i \in 1..(m + d) : (q \o v)[i] = IF i <= m THEN q[i] ELSE v[i - m]
    BY <2>1, ConcatElements
  <2> QED
    BY <2>2 DEF q, m
<1>8. r \in Seq(S) /\ Len(r) = n + 1 + d
      /\ \A i \in 1..(n + 1 + d) : r[i] = IF i <= n THEN s[i] ELSE u[i - n]
  <2>1. n = Len(s) /\ d + 1 = Len(u) /\ n + (d + 1) = n + 1 + d
    BY <1>1, <1>3 DEF n
  <2>2. r \in Seq(S) /\ Len(r) = n + (d + 1)
        /\ \A i \in 1..(n + (d + 1)) : r[i] = IF i <= n THEN s[i] ELSE u[i - n]
    BY <1>3, <1>4, <2>1, ConcatElements
  <2> HIDE DEF r
  <2> QED
    BY <2>1, <2>2
<1> HIDE DEF l, r
<1>9. ASSUME NEW i \in 1..(n + 1 + d) PROVE l[i] = r[i]
  <2>1. CASE i <= n
    <3>1. i <= n + 1 /\ i \in 1..(n + 1)
      BY <1>1, <2>1
    <3>2. r[i] = s[i] /\ l[i] = s[i]
      BY <1>6, <1>7, <1>8, <2>1, <3>1
    <3> QED
      BY <3>2
  <2>2. CASE i = n + 1
    <3>1. i - n = 1 /\ ~(i <= n) /\ i <= n + 1 /\ i \in 1..(n + 1)
      BY <1>1, <2>2
    <3>2. r[i] = u[1] /\ l[i] = a
      BY <1>6, <1>7, <1>8, <3>1
    <3> QED
      BY <1>5, <3>2
  <2>3. CASE n + 1 < i
    <3>1. i - (n + 1) \in 1..d /\ i - n = (i - (n + 1)) + 1 /\ ~(i <= n) /\ ~(i <= n + 1)
      BY <1>1, <2>3
    <3>2. r[i] = u[i - n] /\ l[i] = v[i - (n + 1)]
      BY <1>7, <1>8, <3>1
    <3> QED
      BY <1>5, <3>1, <3>2
  <2> QED
    BY <1>1, <2>1, <2>2, <2>3
<1>10. l = r
  BY <1>7, <1>8, <1>9
<1> QED
  BY <1>10 DEF Joins, l, r, u, v, a

\* What the abstract history does not see.
LEMMA Hidden ==
    ASSUME HInv, HInv', NEW c \in Callers, UNCHANGED <<messages, added>>,
           \A d \in Callers \ {c} : pc'[d] = pc[d] /\ number'[d] = number[d]
                                    /\ total'[d] = total[d] /\ result'[d] = result[d],
           pc[c] # "insert", pc'[c] # "insert", pc[c] # "got",
           pc'[c] = "got" => result'[c] = <<>>
    PROVE  UNCHANGED History!vars
<1>1. Promised' = Promised
  BY PromisedStays
<1>2. Returned' = Returned
  <2>1. \A d \in Callers : (IF pc'[d] = "got" THEN result'[d] ELSE <<>>)
                               = (IF pc[d] = "got" THEN result[d] ELSE <<>>)
    OBVIOUS
  <2> QED
    BY <2>1 DEF Returned
<1> QED
  BY <1>1, <1>2 DEF History!vars

LEMMA CleanerRefines ==
    ASSUME HInv, HInv', NEW c \in Callers, UNCHANGED chat, CleanerCall(c) \/ CleanerStep(c)
    PROVE  UNCHANGED History!vars
<1>1. pc[c] \in Elsewhere /\ \E place \in Elsewhere : pc' = [pc EXCEPT ![c] = place]
  BY DEF CleanerCall, CleanerStep, ProcessDocument, ProcessDocuments, Call, ForkCleaning,
         JoinCleaning, TakeDocuments, Clean, Goto, Elsewhere, HInv, Types
<1>2. pc'[c] \in Elsewhere /\ \A d \in Callers \ {c} : pc'[d] = pc[d]
  BY <1>1 DEF HInv, Types
<1>3. UNCHANGED <<messages, total, number, result, added>>
  BY DEF chat
<1> QED
  BY <1>1, <1>2, <1>3, Hidden DEF Elsewhere

LEMMA AddingRefines ==
    ASSUME HInv, HInv', NEW c \in Callers, add_message(c) \/ add_benchmark_messages_omp(c)
    PROVE  UNCHANGED History!vars
<1>1. /\ pc[c] = "idle" /\ NewBatch(c)
      /\ \E place \in {"add", "make"} : pc' = [pc EXCEPT ![c] = place]
      /\ \E n \in Lengths : total' = [total EXCEPT ![c] = n]
  BY DEF add_message, add_benchmark_messages_omp, Goto
<1>2. /\ pc'[c] \in {"add", "make"}
      /\ \A d \in Callers \ {c} : pc'[d] = pc[d] /\ total'[d] = total[d]
  BY <1>1 DEF HInv, Types
<1>3. UNCHANGED <<messages, result, added>> /\ \A d \in Callers \ {c} : number'[d] = number[d]
  BY <1>1, Batched
<1> QED
  BY <1>1, <1>2, <1>3, Hidden

LEMMA MakingRefines ==
    ASSUME HInv, HInv', NEW c \in Callers,
           JoinMaking(c) \/ \E m \in DOMAIN team[c] : MakeMessage(c, m) \/ CopyMessage(c, m)
    PROVE  UNCHANGED History!vars
<1>1. CASE JoinMaking(c)
  <2>1. pc[c] = "make" /\ pc' = [pc EXCEPT ![c] = "add"]
        /\ UNCHANGED <<messages, total, number, result, added>>
    BY <1>1 DEF JoinMaking, Goto, chat
  <2>2. pc'[c] = "add" /\ \A d \in Callers \ {c} : pc'[d] = pc[d]
    BY <2>1 DEF HInv, Types
  <2> QED
    BY <2>1, <2>2, Hidden
<1>2. CASE \E m \in DOMAIN team[c] : MakeMessage(c, m)
  <2>1. pc[c] = "make" /\ UNCHANGED <<pc, messages, total, number, result, added>>
    BY <1>2 DEF MakeMessage
  <2> QED
    BY <2>1, Hidden
<1>3. CASE \E m \in DOMAIN team[c] : CopyMessage(c, m)
  <2>1. PICK i : result' = [result EXCEPT ![c][i] = messages[i]]
    BY <1>3 DEF CopyMessage
  <2>2. pc[c] = "copy" /\ UNCHANGED <<pc, messages, total, number, added>>
    BY <1>3 DEF CopyMessage
  <2>3. \A d \in Callers \ {c} : result'[d] = result[d]
    BY <2>1 DEF HInv, Types
  <2> QED
    BY <2>2, <2>3, Hidden
<1> QED
  BY <1>1, <1>2, <1>3

\* With the mutex the batch is promised whole.
LEMMA LockForAddingRefines ==
    ASSUME HInv, HInv', NEW c \in Callers, LockForAdding(c)
    PROVE  History!Add
<1> DEFINE b == number[c]
           n == total[c]
<1>1. /\ pc[c] = "add" /\ CanOwn /\ added' = added \cup {b}
      /\ pc' = [pc EXCEPT ![c] = "insert"]
      /\ UNCHANGED <<messages, total, number, result>>
  BY DEF LockForAdding, Goto
<1>2. pc'[c] = "insert" /\ \A d \in Callers \ {c} : pc'[d] = pc[d]
  BY <1>1 DEF HInv, Types
<1>3. b \in Batches \ added /\ n \in Lengths /\ n \in Nat
  BY <1>1, ChatAssumption DEF HInv, Local, Adds, Adding
<1>4. AsPromised /\ AsPromised'
  <2>1. (HInv => AsPromised)'
    BY PromisedIs, PTL
  <2> QED
    BY <2>1, PromisedIs
<1>5. Promised = messages
  BY <1>1, <1>4 DEF CanOwn, AsPromised
<1>6. Done(c)' = 0
  <2>1. Done(c)' = Done(c)
    BY <1>1 DEF Done
  <2> QED
    BY <1>1, <2>1, NotYetDone
<1>7. Promised' = messages \o Stretch(b, 0, n)
  BY <1>1, <1>2, <1>4, <1>6 DEF AsPromised
<1>8. Stretch(b, 0, n) = History!Batch(b, n)
  <2>1. n - 0 = n
    BY <1>3
  <2>2. \A i \in 1..n : 0 + i = i
    BY <1>3
  <2> QED
    BY <2>1, <2>2 DEF Stretch, History!Batch
<1>9. Returned' = Returned
  <2>1. \A d \in Callers : (IF pc'[d] = "got" THEN result'[d] ELSE <<>>)
                               = (IF pc[d] = "got" THEN result[d] ELSE <<>>)
    BY <1>1, <1>2
  <2> QED
    BY <2>1 DEF Returned
<1> HIDE DEF b, n
<1> QED
  BY <1>1, <1>3, <1>5, <1>7, <1>8, <1>9 DEF History!Add

LEMMA InsertRefines ==
    ASSUME HInv, HInv', NEW c \in Callers, Insert(c)
    PROVE  UNCHANGED History!vars
<1> DEFINE b == number[c]
           n == total[c]
           k == Done(c)
<1>1. /\ pc[c] = "insert" /\ b \in added /\ k < n
      /\ messages' = Append(messages, <<b, k + 1>>)
      /\ Done(c)' = k + 1
      /\ UNCHANGED <<pc, total, number, result, added>>
  BY InsertNext
<1>2. AsPromised /\ AsPromised'
  <2>1. (HInv => AsPromised)'
    BY PromisedIs, PTL
  <2> QED
    BY <2>1, PromisedIs
<1>3. Promised = messages \o Stretch(b, k, n)
  BY <1>1, <1>2 DEF AsPromised
<1>4. Promised' = Append(messages, <<b, k + 1>>) \o Stretch(b, k + 1, n)
  BY <1>1, <1>2 DEF AsPromised
<1>5. k \in Nat /\ n \in Nat /\ messages \in Seq(added \X Nat)
  BY MessageSeq DEF HInv, Types
<1>6. Promised' = Promised
  <2> DEFINE M == added
             s == messages
  <2>1. s \in Seq(M \X Nat) /\ b \in M /\ k \in Nat /\ n \in Nat /\ k < n
    BY <1>1, <1>5
  <2>2. Joins(s, b, k, n)
    <3> HIDE DEF M, s, b, k, n
    <3> QED
      BY <2>1, StretchConcat
  <2> QED
    BY <1>3, <1>4, <2>2 DEF Joins
<1>7. Returned' = Returned
  BY <1>1 DEF Returned
<1> QED
  BY <1>1, <1>6, <1>7 DEF History!vars

LEMMA UnlockAddedRefines ==
    ASSUME HInv, HInv', NEW c \in Callers, UnlockAdded(c)
    PROVE  UNCHANGED History!vars
<1>1. /\ pc[c] = "insert" /\ Unfinished(c) = {}
      /\ pc' = [pc EXCEPT ![c] = "idle"]
      /\ UNCHANGED <<messages, result, added>>
  BY DEF UnlockAdded, Goto
<1>2. pc'[c] = "idle" /\ \A d \in Callers \ {c} : pc'[d] = pc[d]
  BY <1>1 DEF HInv, Types
<1>3. AsPromised /\ AsPromised'
  <2>1. (HInv => AsPromised)'
    BY PromisedIs, PTL
  <2> QED
    BY <2>1, PromisedIs
<1>4. Promised = messages
  <2>1. Done(c) = total[c] /\ total[c] \in Nat
    BY <1>1, AllInserted DEF HInv, Types
  <2>2. Stretch(number[c], Done(c), total[c]) = <<>>
    BY <2>1, StretchEmpty
  <2>3. messages \in Seq(added \X Nat)
    BY MessageSeq
  <2>4. messages \o <<>> = messages
    BY <2>3
  <2> QED
    BY <1>1, <1>3, <2>2, <2>4 DEF AsPromised
<1>5. Promised' = messages
  <2>1. \A d \in Callers : pc'[d] # "insert"
    BY <1>1, <1>2 DEF HInv, Mutex
  <2> QED
    BY <1>1, <1>3, <2>1 DEF AsPromised
<1>6. Returned' = Returned
  <2>1. \A d \in Callers : (IF pc'[d] = "got" THEN result'[d] ELSE <<>>)
                               = (IF pc[d] = "got" THEN result[d] ELSE <<>>)
    BY <1>1, <1>2
  <2> QED
    BY <2>1 DEF Returned
<1> QED
  BY <1>1, <1>4, <1>5, <1>6 DEF History!vars

LEMMA get_messagesRefines ==
    ASSUME HInv, HInv', NEW c \in Callers, get_messages(c)
    PROVE  UNCHANGED History!vars
<1>1. pc[c] = "idle" /\ UNCHANGED <<messages, total, number, added>> /\ result[c] = <<>>
  BY DEF get_messages, HInv, Local, Copies
<1>2. CASE messages = <<>>
  <2>1. pc' = [pc EXCEPT ![c] = "got"] /\ UNCHANGED result
    BY <1>2 DEF get_messages, Goto
  <2>2. pc'[c] = "got" /\ \A d \in Callers \ {c} : pc'[d] = pc[d]
    BY <2>1 DEF HInv, Types
  <2> QED
    BY <1>1, <2>1, <2>2, Hidden
<1>3. CASE messages # <<>>
  <2>1. /\ pc' = [pc EXCEPT ![c] = "copy"]
        /\ result' = [result EXCEPT ![c] = [i \in DOMAIN messages |-> <<>>]]
    BY <1>3 DEF get_messages, Goto
  <2>2. pc'[c] = "copy" /\ \A d \in Callers \ {c} : pc'[d] = pc[d] /\ result'[d] = result[d]
    BY <2>1 DEF HInv, Types
  <2> QED
    BY <1>1, <2>2, Hidden
<1> QED
  BY <1>2, <1>3

\* The read takes place when the copy is complete: nothing was added since it began.
LEMMA JoinCopyingRefines ==
    ASSUME HInv, HInv', NEW c \in Callers, JoinCopying(c)
    PROVE  History!Read(c)
<1>1. /\ pc[c] = "copy" /\ Finished(c, Len(messages)) /\ pc' = [pc EXCEPT ![c] = "got"]
      /\ UNCHANGED <<messages, total, number, result, added>>
  BY DEF JoinCopying, Goto, chat
<1>2. pc'[c] = "got" /\ \A d \in Callers \ {c} : pc'[d] = pc[d]
  BY <1>1 DEF HInv, Types
<1>3. result[c] = messages
  BY <1>1, AllCopied
<1>4. \A d \in Callers : pc[d] # "insert"
  BY <1>1 DEF HInv, Mutex
<1>5. Promised = messages
  BY <1>4, PromisedIs DEF AsPromised
<1>6. Promised' = Promised
  BY <1>1, <1>2, <1>4, PromisedStays
<1>7. Returned' = [Returned EXCEPT ![c] = Promised]
  BY <1>1, <1>2, <1>3, <1>5 DEF Returned
<1> QED
  BY <1>1, <1>6, <1>7 DEF History!Read

LEMMA TakeMessagesRefines ==
    ASSUME HInv, HInv', NEW c \in Callers, TakeMessages(c)
    PROVE  History!Take(c)
<1>1. /\ pc[c] = "got" /\ pc' = [pc EXCEPT ![c] = "idle"] /\ result' = [result EXCEPT ![c] = <<>>]
      /\ UNCHANGED <<messages, total, number, added>>
  BY DEF TakeMessages, Goto
<1>2. pc'[c] = "idle" /\ \A d \in Callers \ {c} : pc'[d] = pc[d] /\ result'[d] = result[d]
  BY <1>1 DEF HInv, Types
<1>3. Promised' = Promised
  BY <1>1, <1>2, PromisedStays
<1>4. Returned' = [Returned EXCEPT ![c] = <<>>]
  BY <1>1, <1>2 DEF Returned
<1> QED
  BY <1>1, <1>3, <1>4 DEF History!Take

LEMMA clearRefines ==
    ASSUME HInv, HInv', NEW c \in Callers, clear(c)
    PROVE  History!Clear
<1>1. CanOwn /\ messages' = <<>> /\ UNCHANGED <<pc, total, number, result, added>>
  BY DEF clear
<1>2. AsPromised'
  <2>1. (HInv => AsPromised)'
    BY PromisedIs, PTL
  <2> QED
    BY <2>1
<1>3. Promised' = <<>>
  BY <1>1, <1>2 DEF CanOwn, AsPromised
<1>4. Returned' = Returned
  BY <1>1 DEF Returned
<1> QED
  BY <1>1, <1>3, <1>4 DEF History!Clear

LEMMA ChatRefines ==
    ASSUME HInv, HInv', NEW c \in Callers, ChatCall(c) \/ ChatStep(c)
    PROVE  History!Next \/ UNCHANGED History!vars
BY AddingRefines, MakingRefines, LockForAddingRefines, InsertRefines, UnlockAddedRefines,
   get_messagesRefines, JoinCopyingRefines, TakeMessagesRefines, clearRefines
DEF ChatCall, ChatStep, History!Next

LEMMA StutterRefines ==
    ASSUME HInv, HInv', UNCHANGED vars
    PROVE  UNCHANGED History!vars
<1> USE DEF vars, chat
<1>1. Promised' = Promised
  BY PromisedStays
<1>2. Returned' = Returned
  BY DEF Returned
<1> QED
  BY <1>1, <1>2 DEF History!vars

LEMMA InitRefines == Init => History!Init
<1> SUFFICES ASSUME Init PROVE History!Init
  OBVIOUS
<1>1. messages = <<>> /\ added = {} /\ \A c \in Callers : pc[c] = "idle"
  BY DEF Init, OpenMPInit, ChatInit
<1>2. Promised = <<>>
  BY <1>1, InitiallyHolds, PromisedIs DEF AsPromised
<1>3. Returned = [c \in Callers |-> <<>>]
  BY <1>1 DEF Returned
<1> QED
  BY <1>1, <1>2, <1>3 DEF History!Init

(***************************************************************************)
(* The history keeps the promise of HistorySpec for any number of threads, *)
(* of members of their teams, of batches and of messages in them: batches  *)
(* are added once, whole and in order, and a read returns what was there   *)
(* at one moment (ChatHistory.cpp:14 to :104).                             *)
(***************************************************************************)
THEOREM HistoryImplemented == Spec => ImplementsHistorySpec
<1>1. HInv /\ HInv' /\ [Next]_vars => [History!Next]_(History!vars)
  <2> SUFFICES ASSUME HInv, HInv', [Next]_vars PROVE [History!Next]_(History!vars)
    OBVIOUS
  <2>1. CASE UNCHANGED vars
    BY <2>1, StutterRefines
  <2>2. CASE Next
    <3>1. PICK c \in Callers : Begin(c) \/ Continue(c)
      BY <2>2 DEF Next
    <3>2. CASE (CleanerCall(c) \/ CleanerStep(c)) /\ UNCHANGED chat
      BY <3>2, CleanerRefines
    <3>3. CASE ChatCall(c) \/ ChatStep(c)
      BY <3>3, ChatRefines
    <3> QED
      BY <3>1, <3>2, <3>3 DEF Begin, Continue
  <2> QED
    BY <2>1, <2>2
<1> QED
  BY <1>1, InitRefines, CallsInductive, PTL DEF Spec, ImplementsHistorySpec, History!Spec
=============================================================================
