---------------------------- MODULE MCCommonHash ----------------------------
(***************************************************************************)
(* Three buckets, so that an iterator has an empty one to pass in the      *)
(* middle; three nodes; a key in the first bucket and one in the third;    *)
(* ids up to five, so that a bucket generates one id before it starts      *)
(* again.  The caller may give the ids 0, which needs a key of the first   *)
(* bucket, and 4, which the second bucket generates too.                   *)
(***************************************************************************)
EXTENDS CommonHash

CONSTANTS k1, k2

FirstAndThird == (k1 :> 3) @@ (k2 :> 2)

Interchangeable == Permutations(Nodes)
=============================================================================
