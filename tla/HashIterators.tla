---------------------------- MODULE HashIterators ----------------------------
(***************************************************************************)
(* The iterators of Sdf_cl_commonThreadSafeHash, forEach and the           *)
(* destructor (common/src/sdfhashtable.cpp:865-903, 1598-1928), against    *)
(* the methods of ThreadSafeHash in other threads.                         *)
(*                                                                         *)
(* initIterator/next keep the element they stand on by its reference       *)
(* count, xInitIterator/xNext by the lock of its bucket.  The part of a    *)
(* method between a lock and the unlock of the same bucket is one step.    *)
(*                                                                         *)
(* Both kinds read the first head without the lock.  The caller must see   *)
(* to it that no element is removed meanwhile: the guards named Quiet.     *)
(***************************************************************************)
EXTENDS ThreadSafeHash

VARIABLES iter,        (* the iterator of each thread                        *)
          destroying   (* the thread that runs the destructor, or None       *)

iterVars == <<vars, iter, destroying>>

\* place: where the method is; todo: the elements in the table since the iteration
\* began (kept) that it has still to come to.
NoIterator == [kind |-> "none", place |-> "stand", node |-> None, bucket |-> 0,
               kept |-> {}, todo |-> {}]

\* An iterator that has the elements of the scope before it.
IteratorAt(kind, place, n, b, scope) ==
  [kind |-> kind, place |-> place, node |-> n, bucket |-> b, kept |-> scope, todo |-> scope \ {n}]

IterInit == Init /\ iter = [t \in Threads |-> NoIterator] /\ destroying = None

last == numberOfBuckets - 1

HeadOf(b) == IF ppHashChains[b] = <<>> THEN None ELSE ppHashChains[b][1]

\* pNext of a node in bucket b.
After(b, n) ==
  LET at == {i \in 1..(Len(ppHashChains[b]) - 1) : ppHashChains[b][i] = n}
  IN  IF at = {} THEN None ELSE ppHashChains[b][1 + CHOOSE i \in at : TRUE]

\* The iterator of t comes to node n of bucket b, and the method to the place.
Come(t, place, n, b) ==
  iter' = [iter EXCEPT ![t].place = place, ![t].node = n, ![t].bucket = b, ![t].todo = @ \ {n}]

Counted(d1, n1, d2, n2) ==
  element' = [n \in Nodes |-> [element[n] EXCEPT
                !.refs = @ + (IF n = n1 THEN d1 ELSE 0) + (IF n = n2 THEN d2 ELSE 0)]]

Standing(t, kind) == /\ pc[t] = "idle" /\ destroying = None
                     /\ iter[t].kind = kind /\ iter[t].place = "stand"

Starting(t, kind, b, scope) ==
  /\ Standing(t, "none")
  /\ iter' = [iter EXCEPT ![t] = IteratorAt(kind, "init", HeadOf(b), b, scope)]
  /\ UNCHANGED <<vars, destroying>>

Initialising == {t \in Threads : iter[t].place = "init"}

\* Nobody is in a method that removes an element or changes reference counts.
Quiet(t) == /\ Initialising \subseteq {t}
            /\ \A u \in Threads \ {t} : pc[u] = "idle" \/ call[u].op \in Adding

-----------------------------------------------------------------------------
(***************************************************************************)
(* Iterators that count references                                         *)
(***************************************************************************)
InitIterator(t) == usage = "iterated" /\ Quiet(t) /\ Starting(t, "shared", 0, Linked)

InitIteratorInChain(t, id) == /\ usage = "iterated" /\ Quiet(t)
                              /\ Starting(t, "chain", Bucket(id), Range(ppHashChains[Bucket(id)]))

\* The head that was read is counted, without a lock; none: next looks further.
InitCount(t) ==
  /\ iter[t].kind \in {"shared", "chain"} /\ iter[t].place = "init"
  /\ Counted(1, iter[t].node, 0, None)
  /\ Come(t, IF iter[t].kind = "shared" /\ iter[t].node = None THEN "next" ELSE "stand",
          iter[t].node, iter[t].bucket)
  /\ UNCHANGED <<usage, ppHashChains, bucketCounter, numberOfElements, pBucketLock, pc, call,
                 held, destroying>>

\* Mutant: the element that the iterator comes to is not counted.
NextUncounted(t) ==
  LET n == iter[t].node
      b == iter[t].bucket
      m == After(b, n)
  IN  /\ \/ Standing(t, "shared") /\ n # None
         \/ iter[t].kind = "shared" /\ iter[t].place = "next"
      /\ pBucketLock[b] = None /\ Initialising = {}
      /\ Counted(-1, n, 0, m)
      /\ IF m # None \/ b = last THEN Come(t, "stand", m, b) ELSE Come(t, "walk", None, b + 1)
      /\ UNCHANGED <<usage, ppHashChains, bucketCounter, numberOfElements, pBucketLock, pc, call,
                     held, destroying>>

\* next: releases the element, takes the one after it; at the end of the chain it
\* goes on with the other buckets.
NextElement(t) ==
  LET n == iter[t].node
      b == iter[t].bucket
      m == After(b, n)
  IN  /\ \/ Standing(t, "shared") /\ n # None
         \/ iter[t].kind = "shared" /\ iter[t].place = "next"
      /\ pBucketLock[b] = None /\ Initialising = {}
      /\ Counted(-1, n, 1, m)
      /\ IF m # None \/ b = last THEN Come(t, "stand", m, b) ELSE Come(t, "walk", None, b + 1)
      /\ UNCHANGED <<usage, ppHashChains, bucketCounter, numberOfElements, pBucketLock, pc, call,
                     held, destroying>>

\* One turn of the loop over the buckets.
Walk(t) ==
  LET b == iter[t].bucket
  IN  /\ iter[t].kind = "shared" /\ iter[t].place = "walk"
      /\ pBucketLock[b] = None /\ Initialising = {}
      /\ Counted(0, None, 1, HeadOf(b))
      /\ IF HeadOf(b) # None \/ b = last THEN Come(t, "stand", HeadOf(b), b)
         ELSE Come(t, "walk", None, b + 1)
      /\ UNCHANGED <<usage, ppHashChains, bucketCounter, numberOfElements, pBucketLock, pc, call,
                     held, destroying>>

NextInChain(t) ==
  LET b == iter[t].bucket
      m == After(b, iter[t].node)
  IN  /\ Standing(t, "chain") /\ iter[t].node # None
      /\ pBucketLock[b] = None /\ Initialising = {}
      /\ Counted(-1, iter[t].node, 1, m)
      /\ Come(t, "stand", m, b)
      /\ UNCHANGED <<usage, ppHashChains, bucketCounter, numberOfElements, pBucketLock, pc, call,
                     held, destroying>>

-----------------------------------------------------------------------------
(***************************************************************************)
(* Iterators that keep the bucket locked, and forEach                      *)
(***************************************************************************)
XInitIterator(t) == usage = "xiterated" /\ Quiet(t) /\ Starting(t, "x", 0, Linked)

\* With a key or an id: when its chain is empty there is nothing to lock.
XInitIteratorInChain(t, id) ==
  LET b == Bucket(id)
  IN  /\ usage = "xiterated" /\ Quiet(t)
      /\ HeadOf(b) # None
      /\ Starting(t, "xchain", b, Range(ppHashChains[b]))

\* The bucket of the head that was read is locked; no head: xNext looks further.
XInitLock(t) ==
  LET b == iter[t].bucket
  IN  /\ iter[t].kind \in {"x", "xchain"} /\ iter[t].place = "init"
      /\ pBucketLock[b] = None
      /\ pBucketLock' = [pBucketLock EXCEPT ![b] = t]
      /\ Come(t, IF iter[t].node = None THEN "next" ELSE "stand", iter[t].node, b)
      /\ UNCHANGED <<usage, tableVars, numberOfElements, pc, call, held, destroying>>

\* xNext: within the chain it has the lock; at its end it gives it back, and goes on
\* with the other buckets, also if the iterator was made for one chain.
XNext(t) ==
  LET b == iter[t].bucket
      m == After(b, iter[t].node)
  IN  /\ iter[t].kind \in {"x", "xchain"}
      /\ \/ pc[t] = "idle" /\ iter[t].place = "stand" /\ iter[t].node # None
         \/ iter[t].place = "next"
      /\ IF m # None THEN UNCHANGED pBucketLock
                     ELSE pBucketLock' = [pBucketLock EXCEPT ![b] = None]
      /\ IF m # None \/ b = last THEN Come(t, "stand", m, b) ELSE Come(t, "walk", None, b + 1)
      /\ UNCHANGED <<usage, tableVars, numberOfElements, pc, call, held, destroying>>

XWalk(t) ==
  LET b == iter[t].bucket
  IN  /\ iter[t].kind \in {"x", "xchain"} /\ iter[t].place = "walk"
      /\ pBucketLock[b] = None
      /\ IF HeadOf(b) # None
         THEN /\ pBucketLock' = [pBucketLock EXCEPT ![b] = t]
              /\ Come(t, "stand", HeadOf(b), b)
         ELSE /\ UNCHANGED pBucketLock
              /\ IF b = last THEN Come(t, "stand", None, b) ELSE Come(t, "walk", None, b + 1)
      /\ UNCHANGED <<usage, tableVars, numberOfElements, pc, call, held, destroying>>

\* "In case application code wants remove any emenent of the hash table while
\* iterating with xInitIterator then it must use base class API": the element is
\* one of the locked bucket and not the iterator's, and nobody else counts, for
\* the base class changes numberOfElements without hashLock.
BaseRemove(t, n) ==
  /\ iter[t].kind \in {"x", "xchain"} /\ iter[t].place = "stand"
  /\ pc[t] = "idle" /\ pBucketLock[iter[t].bucket] = t
  /\ n \in Range(ppHashChains[iter[t].bucket]) \ {iter[t].node}
  /\ Initialising = {} /\ \A u \in Threads : pc[u] # "count"
  /\ Unlink(n)
  /\ numberOfElements' = numberOfElements - 1
  /\ iter' = [u \in Threads |-> [iter[u] EXCEPT !.kept = @ \ {n}, !.todo = @ \ {n}]]
  /\ UNCHANGED <<usage, bucketCounter, pBucketLock, pc, call, held, destroying>>

\* completeXIteration unlocks if the iterator stands on an element.  Iterators that
\* count references have no such method: they go on to the end.
EndIteration(t) ==
  LET i == iter[t]
  IN  /\ Standing(t, i.kind) /\ i.kind # "none"
      /\ i.kind \in {"shared", "chain"} => i.node = None
      /\ pBucketLock' = IF i.kind \in {"x", "xchain"} /\ i.node # None
                        THEN [pBucketLock EXCEPT ![i.bucket] = None] ELSE pBucketLock
      /\ iter' = [iter EXCEPT ![t] = NoIterator]
      /\ UNCHANGED <<usage, tableVars, numberOfElements, pc, call, held, destroying>>

\* forEach starts with the first bucket.
ForEach(t) == /\ usage = "xiterated" /\ Standing(t, "none")
              /\ iter' = [iter EXCEPT ![t] = IteratorAt("each", "walk", None, 0, Linked)]
              /\ UNCHANGED <<vars, destroying>>

\* One turn: the function is called for every element of the locked bucket, and may
\* end the loop.
ForEachBucket(t) ==
  LET b == iter[t].bucket
  IN  /\ iter[t].kind = "each" /\ iter[t].place = "walk"
      /\ pBucketLock[b] = None
      /\ \/ iter' = [iter EXCEPT ![t].todo = @ \ Range(ppHashChains[b]),
                                 ![t].bucket = IF b = last THEN b ELSE b + 1,
                                 ![t].place = IF b = last THEN "stand" ELSE "walk"]
         \/ iter' = [iter EXCEPT ![t] = NoIterator]
      /\ UNCHANGED <<vars, destroying>>

-----------------------------------------------------------------------------
(***************************************************************************)
(* The destructor; no other thread uses the table any more                 *)
(***************************************************************************)
BeginDestroy(t) ==
  /\ destroying = None
  /\ \A u \in Threads : pc[u] = "idle" /\ held[u] = Nothing /\ iter[u] = NoIterator
  /\ destroying' = t
  /\ LET full == {c \in Buckets : ppHashChains[c] # <<>>}
         b    == IF full = {} THEN last ELSE Min(full)
     IN  /\ iter' = [iter EXCEPT ![t] = IteratorAt("destroy", "stand", HeadOf(b), b, {})]
         /\ Counted(1, HeadOf(b), 0, None)
  /\ UNCHANGED <<usage, ppHashChains, bucketCounter, numberOfElements, pBucketLock, pc, call, held>>

\* One turn: the key is saved, the iterator goes on, and remove(key) takes out the
\* first element of that key, unless somebody holds a reference to it.
DestroyElement(t) ==
  LET n     == iter[t].node
      later == {c \in (iter[t].bucket + 1)..last : ppHashChains[c] # <<>>}
      b     == IF After(iter[t].bucket, n) # None \/ later = {} THEN iter[t].bucket
               ELSE Min(later)
      m     == IF After(iter[t].bucket, n) # None THEN After(iter[t].bucket, n)
               ELSE IF later = {} THEN None ELSE HeadOf(b)
      v     == Find(element[n].key)
      refs  == [k \in Nodes |-> element[k].refs + (IF k = m THEN 1 ELSE 0) - (IF k = n THEN 1 ELSE 0)]
      gone  == IF v # None /\ refs[v] = 1 THEN {v} ELSE {}
  IN  /\ destroying = t /\ iter[t].kind = "destroy" /\ n # None
      /\ ppHashChains' = IF gone = {} THEN ppHashChains ELSE Without(v)
      /\ element' = [k \in Nodes |-> IF k \in gone THEN NoElement
                                     ELSE [element[k] EXCEPT !.refs = refs[k]]]
      /\ numberOfElements' = numberOfElements - Cardinality(gone)
      /\ iter' = [iter EXCEPT ![t].node = m, ![t].bucket = b]
      /\ UNCHANGED <<usage, bucketCounter, pBucketLock, pc, call, held, destroying>>

\* What the destructor of the base class does not find either: it looks for an element
\* by its id, but if the id is 0 by its key, in the bucket of the key.
Unreachable(n) == element[n].id = 0 /\ Find(element[n].key) = None

\* The destructor of the base class deletes what is left, the elements that are not
\* found by their key; the unreachable ones are never freed.  A new table may then
\* be made, of other nodes.
EndDestroy(t) == /\ destroying = t /\ iter[t].kind = "destroy" /\ iter[t].node = None
                 /\ ppHashChains' = [b \in Buckets |-> <<>>]
                 /\ element' = [n \in Nodes |-> IF n \in Linked /\ ~ Unreachable(n)
                                                THEN NoElement ELSE element[n]]
                 /\ bucketCounter' = [b \in Buckets |-> 1]
                 /\ numberOfElements' = 0
                 /\ iter' = [iter EXCEPT ![t] = NoIterator]
                 /\ destroying' = None
                 /\ UNCHANGED <<usage, pBucketLock, pc, call, held>>

-----------------------------------------------------------------------------
\* A method of ThreadSafeHash.  While the head is read without a lock others only
\* add; while a bucket is kept locked its owner calls nothing else.
Method(t) ==
  /\ destroying = None
  /\ Calls(t) \/ LockBucket(t) \/ Step(t)
  /\ iter[t].kind \in {"none", "shared", "chain"} /\ iter[t].place = "stand"
  /\ Initialising # {} => call'[t].op \in Adding \cup {"none"}
  /\ iter' = [u \in Threads |-> [iter[u] EXCEPT !.kept = @ \cap Linked', !.todo = @ \cap Linked']]
  /\ UNCHANGED destroying

IterStep(t) == \/ InitIterator(t) \/ InitCount(t) \/ NextElement(t) \/ Walk(t) \/ NextInChain(t)
               \/ XInitIterator(t) \/ XInitLock(t) \/ XNext(t) \/ XWalk(t)
               \/ \E id \in Ids : InitIteratorInChain(t, id) \/ XInitIteratorInChain(t, id)
               \/ \E n \in Nodes : BaseRemove(t, n)
               \/ EndIteration(t) \/ ForEach(t) \/ ForEachBucket(t)
               \/ BeginDestroy(t) \/ DestroyElement(t) \/ EndDestroy(t)

IterNext == \E t \in Threads : Method(t) \/ IterStep(t)

IterSpec == IterInit /\ [][IterNext]_iterVars
-----------------------------------------------------------------------------
Kinds == {"none", "shared", "chain", "x", "xchain", "each", "destroy"}

IterTypeOK ==
  /\ TypeOK
  /\ iter \in [Threads -> [kind : Kinds, place : {"stand", "init", "next", "walk"},
                           node : Nodes \cup {None}, bucket : Buckets,
                           kept : SUBSET Nodes, todo : SUBSET Nodes]]
  /\ destroying \in Threads \cup {None}

\* The table that the methods, the base class and the destructor leave: sound chains,
\* unique ids, and a count that is right but for the threads about to count.
TableIsSound == IterTypeOK /\ ChainsAreSound /\ UniqueIds /\ CountAccounted

\* The reference count of an element is one for the table, one for each thread that
\* has fetched it and not released it, and one for each iterator that stands on it:
\* a release by key or id, later and after any additions and removals, decrements
\* the element that was fetched.
RefsAccounted ==
  \A n \in Linked :
    element[n].refs = 1 + Cardinality({t \in Threads : held[t].node = n})
                        + Cardinality({t \in Threads :
                             /\ iter[t].kind \in {"shared", "chain", "destroy"}
                             /\ iter[t].place # "init" /\ iter[t].node = n})

\* What a thread has fetched, or exclusively fetched, or has its iterator on, is not
\* removed and freed under it.
HeldIsLinked ==
  \A t \in Threads : {held[t].node, call[t].node, iter[t].node} \subseteq Linked \cup {None}

HeldIsSafe == RefsAccounted /\ HeldIsLinked

\* A method that returns leaves no bucket locked, found or not found, added or
\* duplicate; an exclusive fetch, until it is given back, and an iterator of the
\* exclusive kind have one bucket: the one the iterator is in.
NoBucketLeftLocked ==
  \A t \in Threads, b \in Buckets :
    (pc[t] \in {"idle", "first", "lock"} /\ pBucketLock[b] = t) =>
      /\ iter[t].kind \in {"x", "xchain"} /\ iter[t].bucket = b
      /\ iter[t].node # None \/ iter[t].place = "next"

\* A bucket is unlocked by the thread that locked it, and elements are linked into a
\* chain, and unlinked, only by the bucket's owner or the destructor.  Nothing is said
\* of what the elements contain: initIterator raises a reference count unlocked.
BucketsAreOwned ==
  [][\A b \in Buckets :
       LET owner == pBucketLock[b]
       IN  /\ (owner # None /\ pBucketLock'[b] = None) => pc'[owner] # pc[owner] \/ iter'[owner] # iter[owner]
           /\ (ppHashChains'[b] # ppHashChains[b] /\ destroying = None)
                => /\ owner # None
                   /\ \/ pc[owner] = "locked" /\ pc'[owner] # "locked"
                      \/ iter[owner].kind \in {"x", "xchain"}]_iterVars

\* An iteration comes to an element that stays in the table once, and when it ends by
\* itself it has come to all of them, whatever other threads add and remove: every
\* kind of iterator, while the buckets are locked one at a time.
IterationsComplete ==
  [][\A t \in Threads :
       LET old == iter[t] new == iter'[t]
       IN  (old.kind \notin {"none", "destroy"} /\ new.kind = old.kind /\ new # old) =>
             /\ (new.node # old.node /\ new.node \in old.kept) => new.node \in old.todo
             /\ (new.place = "stand" /\ new.node = None) => new.todo = {}]_iterVars
=============================================================================
