--------------------------- MODULE ThreadSafeHash ---------------------------
(***************************************************************************)
(* Sdf_cl_commonThreadSafeHash (common/src/sdfhashtable.cpp): a chained    *)
(* hash table with one mutex per bucket, reference counts and correlation  *)
(* ids.  This module has the methods that add, find or remove an element;  *)
(* HashIterators adds the iterators and the destructor.                    *)
(*                                                                         *)
(* An element is addressed by its key or by its correlation id: each       *)
(* method exists for both, and a reference below is one or the other.      *)
(* What a caller must not do is in the guards of the Begin actions and in  *)
(* the variable usage: the methods do not check it.                        *)
(***************************************************************************)
EXTENDS Integers, FiniteSets, SequencesExt

CONSTANTS Threads,
          Nodes,            (* addresses of Sdf_st_commonHashElement; a bound *)
          Keys,
          fpHashFunc,       (* the hash value of each key                    *)
          numberOfBuckets,
          U32Max,           (* the largest correlation id                    *)
          GivenIds,         (* the ids that callers choose; a bound          *)
          LongLived,        (* may an element outlive the reuse of its id?   *)
          None

Buckets == 0..(numberOfBuckets - 1)
Ids     == 0..U32Max

ASSUME HashAssumption ==
  /\ numberOfBuckets \in Nat \ {0} /\ U32Max \in Nat
  /\ \A b \in Buckets : U32Max >= numberOfBuckets + b
  /\ fpHashFunc \in [Keys -> Nat]
  /\ IsFiniteSet(Nodes) /\ IsFiniteSet(Threads)
  /\ Keys \cap Nat = {}
  /\ None \notin Threads \cup Nodes \cup Keys \cup Nat
  /\ GivenIds \subseteq Ids
  /\ LongLived \in BOOLEAN

VARIABLES usage,             (* how the owner uses this table, see below     *)
          ppHashChains,      (* the chain of each bucket, head first         *)
          element,           (* the contents of the nodes                    *)
          bucketCounter,
          numberOfElements,
          pBucketLock,       (* the owner of each bucket's mutex             *)
          pc, call,          (* where each thread is, in which method        *)
          held               (* what each thread has fetched                 *)

tableVars == <<ppHashChains, element, bucketCounter>>
vars == <<usage, tableVars, numberOfElements, pBucketLock, pc, call, held>>

\* "key": elements are added once per key, or appended, and found by their key;
\* "id": they are found by the id that the table returned or was given;
\* "exclusive": as "id", but elements are only fetched exclusively; "iterated" and
\* "xiterated": as "id", but elements are reached by one kind of iterators.
Usages == {"key", "id", "exclusive", "iterated", "xiterated"}

AddOps    == [key |-> {"addUnique", "addUniqueId", "addS"}, id |-> {"add", "addUniqueId"},
              exclusive |-> {"add"}, iterated |-> {"add"}, xiterated |-> {"add"}]
AccessOps == [key |-> {"fetch", "remove", "xFetch"}, id |-> {"fetch", "remove", "xFetch"},
              exclusive |-> {"xFetch", "xFetchRemove"},
              iterated |-> {"remove"}, xiterated |-> {"remove"}]
Generating == {"add", "addUniqueId"}
Adding     == {"add", "addUnique", "addUniqueId", "addS", "addGiven"}

References == IF usage = "key" THEN Keys ELSE Ids

NoElement == [key |-> None, id |-> 0, refs |-> 0]   \* what the constructor leaves
NoCall    == [op |-> "none", ref |-> None, key |-> None, node |-> None]
Nothing   == [ref |-> None, node |-> None]

Init == /\ usage \in Usages
        /\ ppHashChains = [b \in Buckets |-> <<>>]
        /\ element = [n \in Nodes |-> NoElement]
        /\ bucketCounter = [b \in Buckets |-> 1]
        /\ numberOfElements = 0
        /\ pBucketLock = [b \in Buckets |-> None]
        /\ pc = [t \in Threads |-> "idle"]
        /\ call = [t \in Threads |-> NoCall]
        /\ held = [t \in Threads |-> Nothing]

Bucket(ref) == (IF ref \in Keys THEN fpHashFunc[ref] ELSE ref) % numberOfBuckets

Matches(n, ref) == IF ref \in Keys THEN element[n].key = ref ELSE element[n].id = ref

Linked == UNION {Range(ppHashChains[b]) : b \in Buckets}

\* The first element of the chain that matches, or None.
Find(ref) ==
  LET chain == ppHashChains[Bucket(ref)]
      hits  == {i \in 1..Len(chain) : Matches(chain[i], ref)}
  IN  IF hits = {} THEN None ELSE chain[CHOOSE i \in hits : \A j \in hits : i <= j]

Goto(t, place) == pc' = [pc EXCEPT ![t] = place]

-----------------------------------------------------------------------------
(***************************************************************************)
(* Correlation ids                                                         *)
(***************************************************************************)
\* The largest counter whose id fits in 32 bits.
Limit(b) == (U32Max - b) \div numberOfBuckets

\* The counter an id is made from: it starts again at 1 past the limit.
Counter(b) == IF bucketCounter[b] > Limit(b) THEN 1 ELSE bucketCounter[b]

NewId(b) == Counter(b) * numberOfBuckets + b

\* Mutant: a counter equal to the given id's is left alone.
CounterAfterLax(b, id) ==
  LET given == (id - b) \div numberOfBuckets
      next  == IF given > bucketCounter[b] THEN given + 1 ELSE bucketCounter[b]
  IN  IF next > Limit(b) /\ next # bucketCounter[b] THEN 1 ELSE next

\* The counter after an element was added under an id chosen by the caller.
CounterAfter(b, id) ==
  LET given == (id - b) \div numberOfBuckets
  IN  IF given < bucketCounter[b] THEN bucketCounter[b]
      ELSE IF given + 1 > Limit(b) THEN 1 ELSE given + 1

-----------------------------------------------------------------------------
(***************************************************************************)
(* Calls, and the contract of the caller                                   *)
(***************************************************************************)
\* Threads on their way to link an element into bucket b.
Adders(b) == {t \in Threads : /\ call[t].op \in Adding
                              /\ pc[t] \in {"first", "lock", "locked"}
                              /\ Bucket(call[t].ref) = b}

\* The nodes that are not allocated; a destructor may have left some behind.
Free == {n \in Nodes \ Linked : element[n] = NoElement}

\* Bound: there is a free node for every addition under way.
NodeLeft == Cardinality(UNION {Adders(b) : b \in Buckets}) < Cardinality(Free)

\* Unless elements are LongLived, a bucket starts its ids again only when it is
\* empty, and the caller does not choose an id while the table generates one.
MayGenerate(b) ==
  \/ LongLived
  \/ /\ \A t \in Adders(b) : call[t].op # "addGiven"
     /\ bucketCounter[b] + Cardinality(Adders(b)) > Limit(b)
          => ppHashChains[b] = <<>> /\ Adders(b) = {}

MayGive(b, id) ==
  \/ LongLived
  \/ /\ Adders(b) = {}
     /\ id \notin {element[n].id : n \in Linked}
     /\ id \div numberOfBuckets < Limit(b)

Begin(t, op, ref, key) ==
  /\ pc[t] = "idle"
  /\ call' = [call EXCEPT ![t] = [op |-> op, ref |-> ref, key |-> key, node |-> None]]
  /\ Goto(t, IF op = "addS" THEN "first" ELSE "lock")
  /\ UNCHANGED <<usage, tableVars, numberOfElements, pBucketLock, held>>

BeginAdd(t, op, key) == /\ op \in AddOps[usage]
                        /\ NodeLeft
                        /\ op \in Generating => MayGenerate(Bucket(key))
                        /\ Begin(t, op, key, key)

\* add(dCorrelationId, pKey, pData): the id alone decides the bucket.
BeginAddGiven(t, id, key) == /\ usage # "key"
                             /\ NodeLeft
                             /\ MayGive(Bucket(id), id)
                             /\ Begin(t, "addGiven", id, key)

BeginAccess(t, op, ref) == /\ op \in AccessOps[usage]
                           /\ op = "fetch" => held[t] = Nothing
                           /\ Begin(t, op, ref, None)

\* A thread releases what it has fetched, by the reference it used.
BeginRelease(t) == /\ held[t] # Nothing
                   /\ Begin(t, "release", held[t].ref, None)

-----------------------------------------------------------------------------
(***************************************************************************)
(* The methods: lock the bucket, work on its chain, count, unlock          *)
(***************************************************************************)
LockBucket(t) == LET b == Bucket(call[t].ref)
                 IN  /\ pc[t] = "lock"
                     /\ pBucketLock[b] = None
                     /\ pBucketLock' = [pBucketLock EXCEPT ![b] = t]
                     /\ Goto(t, "locked")
                     /\ UNCHANGED <<usage, tableVars, numberOfElements, call, held>>

\* addUnique: an element with that key exists.
Duplicate(t) == /\ pc[t] = "locked"
                /\ call[t].op \in {"addUnique", "addUniqueId"}
                /\ Find(call[t].ref) # None
                /\ Goto(t, "unlock")
                /\ UNCHANGED <<usage, tableVars, numberOfElements, pBucketLock, call, held>>

\* The node goes to the head of the chain, with addS to its end.
Push(b, n, op) == ppHashChains' = [ppHashChains EXCEPT ![b] =
                                     IF op = "addS" THEN Append(@, n) ELSE <<n>> \o @]

Link(t) ==
  LET op == call[t].op
      b  == Bucket(call[t].ref)
      id == IF op \in Generating THEN NewId(b) ELSE IF op = "addGiven" THEN call[t].ref ELSE 0
  IN  /\ pc[t] = "locked"
      /\ op \in Adding
      /\ op \in {"addUnique", "addUniqueId"} => Find(call[t].ref) = None
      /\ \E n \in Free :
           /\ element' = [element EXCEPT ![n] = [key |-> call[t].key, id |-> id, refs |-> 1]]
           /\ Push(b, n, op)
      /\ bucketCounter' = [bucketCounter EXCEPT ![b] =
           IF op \in Generating THEN Counter(b) + 1
           ELSE IF op = "addGiven" THEN CounterAfter(b, call[t].ref) ELSE @]
      /\ Goto(t, IF op = "addS" THEN "unlock" ELSE "count")
      /\ UNCHANGED <<usage, numberOfElements, pBucketLock, call, held>>

\* Mutant: the miss returns without unlocking.
NotFoundLocked(t) ==
  /\ pc[t] = "locked"
  /\ call[t].op \in {"fetch", "release", "remove", "xFetch", "xFetchRemove"}
  /\ Find(call[t].ref) = None
  /\ call' = [call EXCEPT ![t] = NoCall]
  /\ Goto(t, "idle")
  /\ UNCHANGED <<usage, tableVars, numberOfElements, pBucketLock, held>>

\* The element that the accesses below look for is not there.
NotFound(t) ==
  /\ pc[t] = "locked"
  /\ call[t].op \in {"fetch", "release", "remove", "xFetch", "xFetchRemove"}
  /\ Find(call[t].ref) = None
  /\ Goto(t, IF call[t].op \in {"xFetch", "xFetchRemove"} THEN "exclusive" ELSE "unlock")
  /\ UNCHANGED <<usage, tableVars, numberOfElements, pBucketLock, call, held>>

Found(t, op) == pc[t] = "locked" /\ call[t].op = op /\ Find(call[t].ref) # None

Fetch(t) == LET n == Find(call[t].ref)
            IN  /\ Found(t, "fetch")
                /\ element' = [element EXCEPT ![n].refs = @ + 1]
                /\ held' = [held EXCEPT ![t] = [ref |-> call[t].ref, node |-> n]]
                /\ Goto(t, "unlock")
                /\ UNCHANGED <<usage, ppHashChains, bucketCounter, numberOfElements, pBucketLock, call>>

Release(t) == LET n == Find(call[t].ref)
              IN  /\ Found(t, "release")
                  /\ element' = [element EXCEPT ![n].refs = @ - 1]
                  /\ held' = [held EXCEPT ![t] = Nothing]
                  /\ Goto(t, "unlock")
                  /\ UNCHANGED <<usage, ppHashChains, bucketCounter, numberOfElements, pBucketLock, call>>

\* Mutant: the head of the chain is overwritten, as if the node had no predecessor.
UnlinkHead(n) ==
  /\ ppHashChains' = [b \in Buckets |->
       LET at == {i \in 1..Len(ppHashChains[b]) : ppHashChains[b][i] = n}
       IN  IF at = {} THEN ppHashChains[b]
           ELSE SubSeq(ppHashChains[b], 1 + CHOOSE i \in at : TRUE, Len(ppHashChains[b]))]
  /\ element' = [element EXCEPT ![n] = NoElement]

\* The chains without the node.
Without(n) == [b \in Buckets |-> RemoveFirst(ppHashChains[b], n)]

\* The node is taken out of its chain and deleted.
Unlink(n) == /\ ppHashChains' = Without(n)
             /\ element' = [element EXCEPT ![n] = NoElement]

\* Mutant: the count does not go up again.
RemoveUncounts(t) ==
  LET n == Find(call[t].ref)
  IN  /\ Found(t, "remove")
      /\ IF element[n].refs - 1 = 0
         THEN Unlink(n) /\ Goto(t, "count")
         ELSE /\ element' = [element EXCEPT ![n].refs = @ - 1]
              /\ UNCHANGED ppHashChains /\ Goto(t, "unlock")
      /\ UNCHANGED <<usage, bucketCounter, numberOfElements, pBucketLock, call, held>>

\* remove: the count goes down, and up again if somebody has the element.
RemoveElement(t) ==
  LET n == Find(call[t].ref)
  IN  /\ Found(t, "remove")
      /\ IF element[n].refs - 1 = 0
         THEN Unlink(n) /\ Goto(t, "count")
         ELSE UNCHANGED <<ppHashChains, element>> /\ Goto(t, "unlock")
      /\ UNCHANGED <<usage, bucketCounter, numberOfElements, pBucketLock, call, held>>

\* Mutant: the bucket is unlocked when xFetch returns.
XFetchUnlocked(t) == /\ Found(t, "xFetch")
                     /\ call' = [call EXCEPT ![t].node = Find(call[t].ref)]
                     /\ pBucketLock' = [pBucketLock EXCEPT ![Bucket(call[t].ref)] = None]
                     /\ Goto(t, "exclusive")
                     /\ UNCHANGED <<usage, tableVars, numberOfElements, held>>

\* xFetch returns with the bucket locked, whether or not it found the element.
XFetch(t) == /\ Found(t, "xFetch")
             /\ call' = [call EXCEPT ![t].node = Find(call[t].ref)]
             /\ Goto(t, "exclusive")
             /\ UNCHANGED <<usage, tableVars, numberOfElements, pBucketLock, held>>

\* xFetchRemove too; it does not look at the reference count.
XFetchRemove(t) == /\ Found(t, "xFetchRemove")
                   /\ Unlink(Find(call[t].ref))
                   /\ Goto(t, "count")
                   /\ UNCHANGED <<usage, bucketCounter, numberOfElements, pBucketLock, call, held>>

\* numberOfElements changes under hashLock, which nothing else is done under:
\* after the chain has changed, except in addS.
Count(t) ==
  LET op == call[t].op
  IN  /\ pc[t] \in {"first", "count"}
      /\ numberOfElements' = IF op \in Adding THEN numberOfElements + 1 ELSE numberOfElements - 1
      /\ Goto(t, CASE pc[t] = "first"      -> "lock"
                   [] op = "xFetchRemove"  -> "exclusive"
                   [] OTHER                -> "unlock")
      /\ UNCHANGED <<usage, tableVars, pBucketLock, call, held>>

\* pthread_mutex_unlock on the bucket of the reference, whoever has locked it.
Return(t) == /\ pBucketLock' = [pBucketLock EXCEPT ![Bucket(call[t].ref)] = None]
             /\ call' = [call EXCEPT ![t] = NoCall]
             /\ Goto(t, "idle")
             /\ UNCHANGED <<usage, tableVars, numberOfElements, held>>

Unlock(t)   == pc[t] = "unlock" /\ Return(t)
XRelease(t) == pc[t] = "exclusive" /\ Return(t)

-----------------------------------------------------------------------------
Step(t) == \/ Duplicate(t) \/ Link(t) \/ NotFound(t) \/ Fetch(t) \/ Release(t)
           \/ RemoveElement(t) \/ XFetch(t) \/ XFetchRemove(t)
           \/ Count(t) \/ Unlock(t) \/ XRelease(t)

Calls(t) == \/ \E k \in Keys : \/ \E op \in Generating \cup {"addUnique", "addS"} : BeginAdd(t, op, k)
                               \/ \E id \in GivenIds : BeginAddGiven(t, id, k)
            \/ \E ref \in References, op \in {"fetch", "remove", "xFetch", "xFetchRemove"} :
                 BeginAccess(t, op, ref)
            \/ BeginRelease(t)

Next == \E t \in Threads : Calls(t) \/ LockBucket(t) \/ Step(t)

Spec == Init /\ [][Next]_vars
-----------------------------------------------------------------------------
Places == {"idle", "first", "lock", "locked", "count", "unlock", "exclusive"}

TypeOK ==
  /\ usage \in Usages
  /\ ppHashChains \in [Buckets -> Seq(Nodes)]
  /\ element \in [Nodes -> [key : Keys \cup {None}, id : Ids, refs : Nat]]
  /\ bucketCounter \in [Buckets -> Nat]
  /\ numberOfElements \in Nat
  /\ pBucketLock \in [Buckets -> Threads \cup {None}]
  /\ pc \in [Threads -> Places]
  /\ call \in [Threads -> [op : Adding \cup {"none", "fetch", "release", "remove", "xFetch", "xFetchRemove"},
                           ref : Keys \cup Ids \cup {None}, key : Keys \cup {None},
                           node : Nodes \cup {None}]]
  /\ held \in [Threads -> [ref : Keys \cup Ids \cup {None}, node : Nodes \cup {None}]]

\* A node is in one place of one chain, the chain its key (its id, in a table of
\* ids) is looked for in.
ChainsAreSound ==
  \A b, c \in Buckets : \A i \in 1..Len(ppHashChains[b]), j \in 1..Len(ppHashChains[c]) :
    /\ ppHashChains[b][i] = ppHashChains[c][j] => b = c /\ i = j
    /\ LET e == element[ppHashChains[b][i]]
       IN  b = Bucket(IF usage = "key" THEN e.key ELSE e.id)

\* A reference names one element for as long as the element is in the table: no
\* generated id is that of an element still there, also when ids given by the
\* caller lie ahead of the counter, and when the counter starts again.
UniqueIds == usage # "key" =>
  \A m, n \in Linked : m # n => element[m].id # element[n].id

\* numberOfElements is the number of elements, but for the threads between the
\* change of the chain and the counting of it; addS counts first.
CountAccounted ==
  LET at(place, ops) == Cardinality({t \in Threads : pc[t] = place /\ call[t].op \in ops})
  IN  numberOfElements + at("count", Adding) =
        Cardinality(Linked) + at("lock", {"addS"}) + at("locked", {"addS"})
          + at("count", {"remove", "xFetchRemove"})

-----------------------------------------------------------------------------
\* The table implements a register of elements with atomic operations.
Register == INSTANCE ElementRegister
              WITH Holders  <- Threads,
                   Elements <- Nodes,
                   Nobody   <- None,
                   entries  <- Linked,
                   fetched  <- [t \in Threads |-> held[t].node],
                   locked   <- [t \in Threads |-> call[t].node]

ImplementsRegister == Register!Spec
=============================================================================
