---------------------------- MODULE MCThreadPool ----------------------------
(***************************************************************************)
(* The thread pool with every argument of deleteWorker that matters: none, *)
(* some, all and more than all of its threads.                             *)
(***************************************************************************)
EXTENDS ThreadPool

OneByOne      == {1}
NoneToTooMany == 0..Cardinality(Workers)
=============================================================================
