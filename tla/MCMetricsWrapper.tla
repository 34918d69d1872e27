-------------------------- MODULE MCMetricsWrapper ---------------------------
(***************************************************************************)
(* Values for TLC: two threads of one process and one of another, and two  *)
(* configurations of one index, with other dimensions and prefixes.        *)
(***************************************************************************)
EXTENDS MetricsWrapper

CONSTANTS a1, a2, b1, A, B

MCProcessOf == (a1 :> A) @@ (a2 :> A) @@ (b1 :> B)
Symmetry == Permutations({a1, a2})

MCConfigs == {
    [dim |-> 1, index |-> "i", prefix |-> <<1>>],
    [dim |-> 2, index |-> "i", prefix |-> <<1, 2>>]}

MCInputs == {
    <<[dim |-> 1, kind |-> "plain"], [dim |-> 1, kind |-> "NaN"]>>,
    <<[dim |-> 2, kind |-> "plain"], [dim |-> 2, kind |-> "notUTF8"]>>}
=============================================================================
