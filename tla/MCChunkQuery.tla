---------------------------- MODULE MCChunkQuery -----------------------------
(* ChunkQuery for TLC: stores and models are interchangeable. *)
EXTENDS ChunkQuery, TLC
Symmetry == Permutations(Stores) \cup Permutations(Models)
=============================================================================
