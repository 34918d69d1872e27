------------------------------- MODULE OpenMP --------------------------------
(***************************************************************************)
(* What the components take from the OpenMP runtime, which is external:    *)
(* the number of threads that omp_set_num_threads sets for the thread that *)
(* calls it and that every later region of this thread takes its team      *)
(* from; a team; and the static schedule of a loop, which gives each       *)
(* member one stretch of the iterations, in the order of thread numbers.   *)
(* Also the place of each calling thread.                                  *)
(***************************************************************************)
EXTENDS Integers, Sequences

CONSTANTS
    Callers,     \* the threads of the program
    Processors   \* omp_get_max_threads() at first

ASSUME OpenMPAssumption == Processors \in Nat \ {0}

VARIABLES
    pc,        \* pc[c]: where caller c is
    nthreads,  \* nthreads[c]: omp_get_max_threads() for c
    team       \* team[c]: the next iteration of each member of c's team

Goto(c, label) == pc' = [pc EXCEPT ![c] = label]

OpenMPInit ==
    /\ pc = [c \in Callers |-> "idle"]
    /\ nthreads = [c \in Callers |-> Processors]
    /\ team = [c \in Callers |-> <<>>]

\* The iterations of member m of a team of p that runs n of them are
\* First(m, p, n) + 1 .. First(m + 1, p, n).
First(m, p, n) == LET q == n \div p
                      r == n % p
                  IN  m * q + (IF m < r THEN m ELSE r)

\* A region begins.
Fork(c, n) == team' = [team EXCEPT ![c] = [m \in 1..nthreads[c] |-> First(m - 1, nthreads[c], n) + 1]]

Running(c, m, n) == team[c][m] <= First(m, Len(team[c]), n)
Advance(c, m) == team' = [team EXCEPT ![c][m] = @ + 1]
Finished(c, n) == \A m \in 1..Len(team[c]) : ~Running(c, m, n)
Disband(c) == team' = [team EXCEPT ![c] = <<>>]
=============================================================================
