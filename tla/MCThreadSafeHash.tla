-------------------------- MODULE MCThreadSafeHash --------------------------
(***************************************************************************)
(* Two buckets, two nodes, and two keys in bucket 1.  The ids go up to     *)
(* five, so that bucket 1 has the counters 1 and 2 before it starts again; *)
(* callers give id 3, which bucket 1 may also generate, and id 0, which    *)
(* puts an element in bucket 0 under a key of the other.                   *)
(***************************************************************************)
EXTENDS HashIterators, TLC

SameBucket == [k \in Keys |-> 1]

\* The keys have one hash value, so nothing tells them apart, nor the threads
\* and the nodes.  Every property of the run is a safety property.
Interchangeable == Permutations(Threads) \cup Permutations(Nodes) \cup Permutations(Keys)
=============================================================================
