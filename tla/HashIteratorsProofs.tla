------------------------ MODULE HashIteratorsProofs ------------------------
(***************************************************************************)
(* Proofs about HashIterators.tla, and with it ThreadSafeHash.tla, for any *)
(* threads, nodes, keys, hash function, number of buckets and largest id,  *)
(* and for elements that do not outlive the reuse of their ids             *)
(* (~ LongLived).                                                          *)
(***************************************************************************)
EXTENDS HashIterators, ListLemmas

Chain(ref) == ppHashChains[Bucket(ref)]

\* A node is in one place of one chain, which its key (its id, in a table of ids)
\* leads to.
OnePlace == /\ \A b \in Buckets : Distinct(ppHashChains[b])
            /\ \A b, c \in Buckets : b # c => Range(ppHashChains[b]) \cap Range(ppHashChains[c]) = {}

Placed == \A b \in Buckets : \A n \in Range(ppHashChains[b]) :
            /\ element[n].key \in Keys
            /\ b = Bucket(IF usage = "key" THEN element[n].key ELSE element[n].id)

\* The element that the reference leads to: the first of its chain that matches.
IsFirst(n, ref) == /\ n \in Range(Chain(ref)) /\ Matches(n, ref)
                   /\ \A m \in Nodes : Precedes(Chain(ref), m, n) => ~ Matches(m, ref)

-----------------------------------------------------------------------------
Looking == {"fetch", "remove", "xFetch", "xFetchRemove"}
Busy    == {"locked", "count", "unlock", "exclusive"}
Shared  == {"shared", "chain"}
Excl    == {"x", "xchain"}

\* A call has the arguments of its method, in a table that is used that way, and is
\* where that method may be.
CallFits(t) ==
  LET c == call[t]
  IN  /\ pc[t] = "idle" => c = NoCall
      /\ c.op = "none" => pc[t] = "idle"
      /\ pc[t] = "first" => c.op = "addS"
      /\ pc[t] = "count" => c.op \in (Adding \ {"addS"}) \cup {"remove", "xFetchRemove"}
      /\ pc[t] = "exclusive" => c.op \in {"xFetch", "xFetchRemove"}
      /\ c.op \in Adding \ {"addGiven"} => c.op \in AddOps[usage] /\ c.ref \in Keys /\ c.key = c.ref
      /\ c.op = "addGiven" => usage # "key" /\ c.ref \in Ids /\ c.key \in Keys
      /\ c.op \in Looking => c.op \in AccessOps[usage] /\ c.ref \in References
      /\ c.op = "release" => c.ref \in References
      /\ pc[t] \in {"lock", "locked"} =>
           /\ c.op = "fetch" => held[t] = Nothing
           /\ c.op = "release" => held[t] # Nothing /\ held[t].ref = c.ref

\* What a thread has fetched is what its reference leads to.
HeldFits(t) ==
  held[t] # Nothing => /\ usage \in {"key", "id"}
                       /\ held[t].node \in Nodes /\ held[t].ref \in References
                       /\ IsFirst(held[t].node, held[t].ref)

\* What it has fetched exclusively is in the bucket that it has locked.
XFits(t) ==
  call[t].node # None => /\ pc[t] = "exclusive" /\ call[t].op = "xFetch"
                         /\ call[t].node \in Range(Chain(call[t].ref))

\* An iterator is where its method may be, on an element of its bucket.
IterFits(t) ==
  LET i == iter[t]
  IN  /\ i.kind = "none" => i = NoIterator
      /\ i.kind \in Shared => usage = "iterated"
      /\ i.kind \in Excl \cup {"each"} => usage = "xiterated"
      /\ i.kind \in Excl \cup {"each", "destroy"} => pc[t] = "idle"
      /\ i.place # "stand" => pc[t] = "idle"
      /\ i.place = "init" => i.kind \in Shared \cup Excl
      /\ i.place = "next" => i.kind \in {"shared"} \cup Excl /\ i.node = None
      /\ i.place = "walk" => i.kind \in {"shared", "each"} \cup Excl /\ i.node = None
      /\ i.kind = "each" => i.node = None
      /\ i.kind = "destroy" <=> destroying = t
      /\ i.node # None => i.node \in Range(ppHashChains[i.bucket])
      /\ i.place = "stand" /\ i.node = None /\ i.kind \in {"shared", "each"} \cup Excl => i.bucket = last

\* A bucket is locked by the thread whose method works on it, or whose iterator is in it.
Has(t, b) == \/ pc[t] \in Busy /\ b = Bucket(call[t].ref)
             \/ /\ iter[t].kind \in Excl /\ iter[t].bucket = b
                /\ iter[t].place = "next" \/ (iter[t].place = "stand" /\ iter[t].node # None)

LocksFit == \A t \in Threads, b \in Buckets : pBucketLock[b] = t <=> Has(t, b)

\* While a head is read without the lock, nobody else does anything but add; while the
\* destructor runs, nobody does anything.
Alone == /\ \A t \in Initialising : Quiet(t)
         /\ destroying # None =>
              \A u \in Threads : /\ pc[u] = "idle" /\ held[u] = Nothing
                                 /\ u # destroying => iter[u] = NoIterator

\* The counter of a bucket is beyond the ids in it.  An id that is going to be generated
\* is within the limit, or the first of an empty bucket; a given one is new.
IdsFit ==
  usage # "key" =>
    \A b \in Buckets :
      /\ \A n \in Range(ppHashChains[b]) : element[n].id \div numberOfBuckets < bucketCounter[b]
      /\ \A t \in Adders(b) :
           /\ call[t].op = "addGiven" =>
                /\ Adders(b) = {t}
                /\ \A n \in Linked : element[n].id # call[t].ref
                /\ call[t].ref \div numberOfBuckets < Limit(b)
           /\ call[t].op \in Generating =>
                \/ bucketCounter[b] + Cardinality(Adders(b)) <= Limit(b) + 1
                \/ Adders(b) = {t} /\ ppHashChains[b] = <<>>

\* A thread that has yet to count what it added has it in its bucket.
ToCountIsThere == \A t \in Threads : pc[t] = "count" /\ call[t].op \in Adding => Chain(call[t].ref) # <<>>

\* What an iterator has still to come to, and of that what it must.
Ahead(i) ==
  {m \in Nodes :
     IF i.place = "walk" THEN \E c \in Buckets : c >= i.bucket /\ m \in Range(ppHashChains[c])
     ELSE \/ Precedes(ppHashChains[i.bucket], i.node, m)
          \/ i.kind # "chain" /\ \E c \in Buckets : c > i.bucket /\ m \in Range(ppHashChains[c])}

TodoFits(t) ==
  iter[t].kind \notin {"none", "destroy"} =>
    iter[t].kept \subseteq Linked /\ iter[t].todo = iter[t].kept \cap Ahead(iter[t])

TableType == /\ usage \in Usages
             /\ ppHashChains \in [Buckets -> Seq(Nodes)]
             /\ element \in [Nodes -> [key : Keys \cup {None}, id : Ids, refs : Nat]]
             /\ bucketCounter \in [Buckets -> Nat]

TInv == TableType /\ OnePlace /\ Placed

\* The inductive invariant.
IInv == /\ IterTypeOK
        /\ OnePlace /\ Placed
        /\ \A t \in Threads : CallFits(t) /\ HeldFits(t) /\ XFits(t) /\ IterFits(t)
        /\ LocksFit /\ Alone
        /\ RefsAccounted
        /\ CountAccounted /\ ToCountIsThere
        /\ UniqueIds /\ IdsFit
        /\ \A t \in Threads : TodoFits(t)

-----------------------------------------------------------------------------
(***************************************************************************)
(* Ids and buckets                                                         *)
(***************************************************************************)
LEMMA BucketsAre ==
  /\ \A ref \in Keys \cup Nat : Bucket(ref) \in Buckets
  /\ 0 \in Buckets /\ last \in Buckets
  /\ Buckets \subseteq Nat /\ Ids \subseteq Nat
<1> USE HashAssumption
<1>1. ASSUME NEW ref \in Keys \cup Nat PROVE Bucket(ref) \in Buckets
  <2>1. (IF ref \in Keys THEN fpHashFunc[ref] ELSE ref) \in Nat
    OBVIOUS
  <2>2. \A x \in Nat : x % numberOfBuckets \in 0..(numberOfBuckets - 1)
    OBVIOUS
  <2> QED BY <2>1, <2>2 DEF Bucket, Buckets
<1>2. 0 \in Buckets /\ last \in Buckets /\ Buckets \subseteq Nat
  BY DEF Buckets, last
<1>3. Ids \subseteq Nat
  BY DEF Ids
<1> QED BY <1>1, <1>2, <1>3

\* A generated id is at most the largest one, and leads back to the bucket and the
\* counter that it was made from, also when the counter starts again.
LEMMA GeneratedIds ==
  ASSUME TableType, NEW b \in Buckets
  PROVE  /\ Counter(b) \in Nat /\ Limit(b) \in Nat
         /\ NewId(b) \in Ids
         /\ Bucket(NewId(b)) = b
         /\ NewId(b) \div numberOfBuckets = Counter(b)
<1> USE HashAssumption
<1> DEFINE c == Counter(b)
<1>1. b \in 0..(numberOfBuckets - 1) /\ b \in Nat /\ U32Max \in Nat /\ numberOfBuckets \in Nat \ {0}
      /\ U32Max >= numberOfBuckets + b
  BY DEF Buckets
<1>2. bucketCounter[b] \in Nat
  BY DEF TableType
<1>3. 1 <= (U32Max - b) \div numberOfBuckets /\ (U32Max - b) \div numberOfBuckets \in Int
  <2>1. 1 <= (U32Max - b) \div numberOfBuckets
    BY <1>1, Z3
  <2> QED BY <1>1, <2>1
<1>4. c \in Nat /\ c <= (U32Max - b) \div numberOfBuckets
  BY <1>2, <1>3 DEF Counter, Limit
<1> HIDE DEF c
<1>5. c * numberOfBuckets + b \in 0..U32Max
  BY <1>1, <1>4, CounterFits
<1>6. (c * numberOfBuckets + b) % numberOfBuckets = b
      /\ (c * numberOfBuckets + b) \div numberOfBuckets = c
  BY <1>1, <1>4, CounterAndBucket
<1>7. NewId(b) = c * numberOfBuckets + b
  BY DEF NewId, c
<1>8. NewId(b) \in Ids /\ NewId(b) \notin Keys
  BY <1>5, <1>7 DEF Ids
<1>9. Limit(b) \in Nat
  BY <1>3 DEF Limit
<1> QED BY <1>4, <1>6, <1>7, <1>8, <1>9 DEF c, Bucket

-----------------------------------------------------------------------------
(***************************************************************************)
(* The table                                                               *)
(***************************************************************************)
LEMMA LinkedIs ==
  ASSUME ppHashChains \in [Buckets -> Seq(Nodes)]
  PROVE  /\ Linked \in SUBSET Nodes
         /\ IsFiniteSet(Linked) /\ Cardinality(Linked) \in Nat
         /\ \A n : n \in Linked <=> \E b \in Buckets : n \in Range(ppHashChains[b])
<1>1. \A b \in Buckets : Range(ppHashChains[b]) \subseteq Nodes
  BY DEF Range
<1>2. Linked \in SUBSET Nodes
  BY <1>1 DEF Linked
<1>3. IsFiniteSet(Linked) /\ Cardinality(Linked) \in Nat
  BY <1>2, HashAssumption, FS_Subset, FS_CardinalityType
<1> QED BY <1>2, <1>3 DEF Linked

\* A lookup gives the element that the reference leads to, if there is one.
LEMMA FindIs ==
  ASSUME TInv, NEW ref \in Keys \cup Nat
  PROVE  /\ Find(ref) \in Nodes \cup {None}
         /\ Find(ref) = None => \A n \in Range(Chain(ref)) : ~ Matches(n, ref)
         /\ Find(ref) # None => IsFirst(Find(ref), ref)
         /\ \A n : IsFirst(n, ref) => Find(ref) = n
<1> DEFINE q == Chain(ref)
           hits == {i \in 1..Len(q) : Matches(q[i], ref)}
           k == CHOOSE i \in hits : \A j \in hits : i <= j
<1>1. q \in Seq(Nodes) /\ Distinct(q) /\ None \notin Nodes
  BY BucketsAre, HashAssumption DEF TInv, TableType, OnePlace, Chain
<1>2. Find(ref) = IF hits = {} THEN None ELSE q[k]
  BY DEF Find, Chain
<1>3. hits \in SUBSET Nat /\ hits \subseteq 1..Len(q)
  BY <1>1
<1>4. hits # {} => k \in hits /\ \A j \in hits : k <= j
  <2> HIDE DEF hits
  <2>1. hits # {} => Min(hits) \in hits /\ \A j \in hits : Min(hits) <= j
    BY <1>3, LeastNatural
  <2>2. hits # {} => \E i \in hits : \A j \in hits : i <= j
    BY <2>1
  <2> QED BY <2>2
<1> HIDE DEF k
<1>5. \A i \in 1..Len(q) : q[i] \in Nodes /\ q[i] \in Range(q) /\ (Matches(q[i], ref) <=> i \in hits)
  BY <1>1 DEF Range
<1>6. \A n \in Range(q) : \E i \in 1..Len(q) : q[i] = n
  BY DEF Range
<1>7. \A i, j \in 1..Len(q) : Precedes(q, q[i], q[j]) <=> i < j
  BY <1>1 DEF Precedes, Distinct
<1> DEFINE first(n) == /\ n \in Range(q) /\ Matches(n, ref)
                       /\ \A m \in Nodes : Precedes(q, m, n) => ~ Matches(m, ref)
<1>8. \A n : IsFirst(n, ref) <=> first(n)
  BY DEF IsFirst
<1>9. \A m, n : Precedes(q, m, n) => m \in Range(q)
  BY DEF Precedes, Range
<1>10. Len(q) \in Nat
  BY <1>1
<1> HIDE DEF q, hits
<1>11. Find(ref) \in Nodes \cup {None}
  BY <1>2, <1>3, <1>4, <1>5
<1>12. Find(ref) = None => \A n \in Range(q) : ~ Matches(n, ref)
  BY <1>1, <1>2, <1>3, <1>4, <1>5, <1>6
<1>13. hits # {} => first(q[k])
  <2> SUFFICES ASSUME hits # {}, NEW m \in Nodes, Precedes(q, m, q[k]), Matches(m, ref) PROVE FALSE
    BY <1>3, <1>4, <1>5
  <2>1. PICK i \in 1..Len(q) : q[i] = m
    BY <1>6, <1>9
  <2>2. i \in hits /\ k \in 1..Len(q)
    BY <1>3, <1>4, <1>5, <2>1
  <2>3. i < k /\ k <= i
    BY <1>4, <1>7, <2>1, <2>2
  <2> QED BY <2>2, <2>3
<1>14. ASSUME NEW n, first(n) PROVE Find(ref) = n
  <2>1. PICK j \in 1..Len(q) : q[j] = n
    BY <1>6, <1>14
  <2>2. j \in hits
    BY <1>5, <1>14, <2>1
  <2>3. k \in 1..Len(q) /\ k <= j /\ k \in hits
    BY <1>3, <1>4, <2>2
  <2>4. ~ (k < j)
    BY <1>5, <1>7, <1>14, <2>1, <2>3
  <2>5. k = j
    BY <2>3, <2>4
  <2> QED BY <1>2, <2>1, <2>2, <2>5
<1> HIDE DEF first
<1>15. Find(ref) # None => first(Find(ref))
  BY <1>2, <1>13
<1>16. \A n : first(n) => Find(ref) = n
  BY <1>14
<1> QED BY <1>8, <1>11, <1>12, <1>15, <1>16 DEF q

\* The chains, the keys and the ids stay as they are.
SameTable == /\ ppHashChains' = ppHashChains /\ usage' = usage
             /\ \A n \in Nodes : element'[n].key = element[n].key /\ element'[n].id = element[n].id

LEMMA SameIs ==
  ASSUME TInv, SameTable
  PROVE  /\ OnePlace' /\ Placed' /\ Linked' = Linked
         /\ \A n \in Nodes : \A ref : IsFirst(n, ref)' <=> IsFirst(n, ref)
         /\ \A i : Ahead(i)' = Ahead(i)
<1> USE DEF SameTable
<1>1. \A b \in Buckets : Range(ppHashChains[b]) \subseteq Nodes
  BY DEF TInv, TableType, Range
<1>2. OnePlace'
  BY DEF TInv, OnePlace
<1>3. Placed'
  BY <1>1 DEF TInv, Placed, Bucket
<1>4. Linked' = Linked
  BY DEF Linked
<1>5. ASSUME NEW n \in Nodes, NEW ref PROVE IsFirst(n, ref)' <=> IsFirst(n, ref)
  <2>1. Chain(ref)' = Chain(ref)
    BY DEF Chain, Bucket
  <2>2. \A m \in Nodes : Matches(m, ref)' <=> Matches(m, ref)
    BY DEF Matches
  <2> QED BY <2>1, <2>2 DEF IsFirst
<1>6. \A i : Ahead(i)' = Ahead(i)
  BY DEF Ahead
<1> QED BY <1>2, <1>3, <1>4, <1>5, <1>6

\* A new node at either end of the chain that it belongs to.
LEMMA NodeAdded ==
  ASSUME TInv, NEW b \in Buckets, NEW n \in Nodes \ Linked,
         NEW e \in [key : Keys, id : Ids, refs : Nat],
         b = Bucket(IF usage = "key" THEN e.key ELSE e.id),
         NEW chain \in {Append(ppHashChains[b], n), <<n>> \o ppHashChains[b]},
         ppHashChains' = [ppHashChains EXCEPT ![b] = chain],
         element' = [element EXCEPT ![n] = e],
         usage' = usage
  PROVE  /\ ppHashChains' \in [Buckets -> Seq(Nodes)]
         /\ element' \in [Nodes -> [key : Keys \cup {None}, id : Ids, refs : Nat]]
         /\ OnePlace' /\ Placed'
         /\ Linked' = Linked \cup {n} /\ Cardinality(Linked') = Cardinality(Linked) + 1
         /\ \A c \in Buckets : \A m : m \in Range(ppHashChains'[c]) <=>
                                        m \in Range(ppHashChains[c]) \/ (c = b /\ m = n)
         /\ \A c \in Buckets : c # b => ppHashChains'[c] = ppHashChains[c]
         /\ \A c \in Buckets : \A x, y :
              /\ Precedes(ppHashChains[c], x, y) => Precedes(ppHashChains'[c], x, y)
              /\ Precedes(ppHashChains'[c], x, y) => Precedes(ppHashChains[c], x, y) \/ x = n \/ y = n
<1> USE DEF TInv
<1>1. /\ ppHashChains \in [Buckets -> Seq(Nodes)]
      /\ element \in [Nodes -> [key : Keys \cup {None}, id : Ids, refs : Nat]]
  BY DEF TableType
<1>2. /\ Linked \in SUBSET Nodes /\ IsFiniteSet(Linked) /\ Cardinality(Linked) \in Nat
      /\ \A m : m \in Linked <=> \E c \in Buckets : m \in Range(ppHashChains[c])
  BY <1>1, LinkedIs
<1>3. ppHashChains[b] \in Seq(Nodes) /\ n \in Nodes /\ n \notin Range(ppHashChains[b]) /\ Distinct(ppHashChains[b])
  BY <1>1, <1>2 DEF OnePlace
<1>4. /\ chain \in Seq(Nodes)
      /\ Range(chain) = Range(ppHashChains[b]) \cup {n}
      /\ Distinct(chain)
  <2> DEFINE q == ppHashChains[b]
  <2>0. q \in Seq(Nodes) /\ n \in Nodes /\ n \notin Range(q) /\ \A i, j \in 1..Len(q) : i # j => q[i] # q[j]
    BY <1>3 DEF Distinct
  <2>1. CASE chain = Append(q, n)
    <3> HIDE DEF q
    <3>1. \A i, j \in 1..Len(Append(q, n)) : i # j => Append(q, n)[i] # Append(q, n)[j]
      BY <2>0, PushBack, Zenon
    <3>2. Append(q, n) \in Seq(Nodes) /\ Range(Append(q, n)) = Range(q) \cup {n}
      BY <2>0, PushBack, Zenon
    <3>3. Distinct(Append(q, n))
      BY <3>1, Zenon DEF Distinct
    <3> QED BY <2>1, <3>2, <3>3, Zenon DEF q
  <2>2. CASE chain = <<n>> \o q
    <3> HIDE DEF q
    <3>1. \A i, j \in 1..Len(<<n>> \o q) : i # j => (<<n>> \o q)[i] # (<<n>> \o q)[j]
      BY <2>0, PushFront, Zenon
    <3>2. <<n>> \o q \in Seq(Nodes) /\ Range(<<n>> \o q) = Range(q) \cup {n}
      BY <2>0, PushFront, ZenonT(30)
    <3>3. Distinct(<<n>> \o q)
      BY <3>1, Zenon DEF Distinct
    <3> QED BY <2>2, <3>2, <3>3, Zenon DEF q
  <2> QED BY <2>1, <2>2
<1>5. \A x, y : /\ Precedes(ppHashChains[b], x, y) => Precedes(chain, x, y)
                /\ Precedes(chain, x, y) => Precedes(ppHashChains[b], x, y) \/ x = n \/ y = n
  <2> DEFINE q == ppHashChains[b]
  <2>1. q \in Seq(Nodes) /\ n \in Nodes /\ chain \in {Append(q, n), <<n>> \o q}
    BY <1>3
  <2> HIDE DEF q
  <2>2. \A r \in {Append(q, n), <<n>> \o q} : \A x, y :
          /\ Precedes(q, x, y) => Precedes(r, x, y)
          /\ Precedes(r, x, y) => Precedes(q, x, y) \/ x = n \/ y = n
    BY <2>1, PushedOrder, Zenon
  <2> QED BY <2>1, <2>2, Zenon DEF q
<1>6. /\ ppHashChains'[b] = chain
      /\ \A c \in Buckets : c # b => ppHashChains'[c] = ppHashChains[c]
  BY <1>1
<1>7. ASSUME NEW c \in Buckets, NEW m
      PROVE  m \in Range(ppHashChains'[c]) <=> m \in Range(ppHashChains[c]) \/ (c = b /\ m = n)
  <2>1. CASE c = b
    BY <1>4, <1>6, <2>1
  <2>2. CASE c # b
    BY <1>6, <2>2
  <2> QED BY <2>1, <2>2
<1>8. Linked' = Linked \cup {n}
  <2>1. Linked' = UNION {Range(ppHashChains'[c]) : c \in Buckets}
    BY DEF Linked
  <2>2. \A m : m \in Linked' <=> \E c \in Buckets : m \in Range(ppHashChains'[c])
    BY <2>1
  <2> HIDE DEF Linked
  <2> QED BY <1>2, <1>7, <2>2
<1>9. Cardinality(Linked \cup {n}) = Cardinality(Linked) + 1
  BY <1>2, FS_AddElement
<1>10. OnePlace'
  <2>1. \A c \in Buckets : Distinct(ppHashChains'[c])
    BY <1>4, <1>6 DEF OnePlace
  <2>2. \A c, d \in Buckets : c # d => Range(ppHashChains'[c]) \cap Range(ppHashChains'[d]) = {}
    <3>1. \A c \in Buckets : n \notin Range(ppHashChains[c])
      BY <1>2
    <3> SUFFICES ASSUME NEW c \in Buckets, NEW d \in Buckets, c # d,
                        NEW m, m \in Range(ppHashChains'[c]), m \in Range(ppHashChains'[d])
                 PROVE  FALSE
      BY Zenon
    <3>2. m \in Range(ppHashChains[c]) /\ m \in Range(ppHashChains[d])
      BY <1>7, <3>1
    <3> QED BY <3>2 DEF OnePlace
  <2> QED BY <2>1, <2>2 DEF OnePlace
<1>11. Placed'
  <2>1. element'[n] = e /\ \A m \in Nodes \ {n} : element'[m] = element[m]
    BY <1>1
  <2>2. SUFFICES ASSUME NEW c \in Buckets, NEW m \in Range(ppHashChains'[c])
                 PROVE  /\ element'[m].key \in Keys
                        /\ c = Bucket(IF usage = "key" THEN element'[m].key ELSE element'[m].id)
    BY DEF Placed, Bucket
  <2>3. CASE m = n
    <3>1. c = b
      BY <1>2, <1>7, <2>3
    <3> QED BY <2>1, <2>3, <3>1
  <2>4. CASE m # n
    <3>1. m \in Range(ppHashChains[c]) /\ m \in Nodes
      BY <1>2, <1>7, <2>4
    <3> QED BY <2>1, <2>4, <3>1 DEF Placed
  <2> QED BY <2>3, <2>4
<1>12. ASSUME NEW c \in Buckets, NEW x, NEW y
       PROVE  /\ Precedes(ppHashChains[c], x, y) => Precedes(ppHashChains'[c], x, y)
              /\ Precedes(ppHashChains'[c], x, y) => Precedes(ppHashChains[c], x, y) \/ x = n \/ y = n
  <2>1. CASE c = b
    BY <1>5, <1>6, <2>1
  <2>2. CASE c # b
    BY <1>6, <2>2
  <2> QED BY <2>1, <2>2
<1>13. ppHashChains' \in [Buckets -> Seq(Nodes)]
  BY <1>1, <1>4
<1>14. element' \in [Nodes -> [key : Keys \cup {None}, id : Ids, refs : Nat]]
  <2>1. e \in [key : Keys \cup {None}, id : Ids, refs : Nat]
    OBVIOUS
  <2> QED BY <1>1, <2>1
<1> QED BY <1>6, <1>7, <1>8, <1>9, <1>10, <1>11, <1>12, <1>13, <1>14

\* A node that is taken out.
LEMMA NodeRemoved ==
  ASSUME TInv, NEW n \in Linked,
         ppHashChains' = Without(n), usage' = usage,
         \A m \in Nodes \ {n} : element'[m].key = element[m].key /\ element'[m].id = element[m].id
  PROVE  /\ ppHashChains' \in [Buckets -> Seq(Nodes)]
         /\ OnePlace' /\ Placed'
         /\ Linked' = Linked \ {n} /\ Cardinality(Linked') = Cardinality(Linked) - 1
         /\ Cardinality(Linked') \in Nat
         /\ \A c \in Buckets : \A m : m \in Range(ppHashChains'[c]) <=> m \in Range(ppHashChains[c]) /\ m # n
         /\ \A c \in Buckets : n \notin Range(ppHashChains[c]) => ppHashChains'[c] = ppHashChains[c]
         /\ \A c \in Buckets : \A x, y :
              Precedes(ppHashChains'[c], x, y) <=> Precedes(ppHashChains[c], x, y) /\ x # n /\ y # n
<1> USE DEF TInv
<1>1. ppHashChains \in [Buckets -> Seq(Nodes)]
  BY DEF TableType
<1>2. /\ Linked \in SUBSET Nodes /\ IsFiniteSet(Linked) /\ Cardinality(Linked) \in Nat
      /\ \A m : m \in Linked <=> \E c \in Buckets : m \in Range(ppHashChains[c])
  BY <1>1, LinkedIs
<1>3. \A c \in Buckets : ppHashChains'[c] = RemoveFirst(ppHashChains[c], n)
  BY DEF Without
<1>4. ASSUME NEW c \in Buckets
      PROVE  /\ ppHashChains'[c] \in Seq(Nodes) /\ Distinct(ppHashChains'[c])
             /\ Range(ppHashChains'[c]) = Range(ppHashChains[c]) \ {n}
             /\ n \notin Range(ppHashChains[c]) => ppHashChains'[c] = ppHashChains[c]
             /\ \A x, y : Precedes(ppHashChains'[c], x, y) <=>
                            Precedes(ppHashChains[c], x, y) /\ x # n /\ y # n
  <2> DEFINE q == ppHashChains[c]
             r == ppHashChains'[c]
  <2>1. q \in Seq(Nodes) /\ Distinct(q) /\ r = RemoveFirst(q, n)
    BY <1>1, <1>3 DEF OnePlace
  <2> HIDE DEF q, r
  <2>2. CASE n \in Range(q)
    <3>1. /\ RemoveFirst(q, n) \in Seq(Nodes) /\ Distinct(RemoveFirst(q, n))
          /\ Range(RemoveFirst(q, n)) = Range(q) \ {n}
          /\ \A x, y : Precedes(RemoveFirst(q, n), x, y) <=> Precedes(q, x, y) /\ x # n /\ y # n
      BY <2>1, <2>2, TakeOut
    <3>2. /\ r \in Seq(Nodes) /\ Distinct(r) /\ Range(r) = Range(q) \ {n}
          /\ \A x, y : Precedes(r, x, y) <=> Precedes(q, x, y) /\ x # n /\ y # n
      BY <2>1, <3>1, Zenon
    <3> QED BY <2>2, <3>2 DEF q, r
  <2>3. CASE n \notin Range(q)
    <3>1. \A i \in 1..Len(q) : q[i] # n
      BY <2>3 DEF Range
    <3>2. r = q
      BY <2>1, <3>1, Zenon DEF RemoveFirst
    <3>3. \A x, y : Precedes(q, x, y) => x \in Range(q) /\ y \in Range(q)
      BY DEF Precedes, Range
    <3>4. /\ Range(r) = Range(q) \ {n}
          /\ \A x, y : Precedes(r, x, y) <=> Precedes(q, x, y) /\ x # n /\ y # n
      BY <2>3, <3>2, <3>3
    <3> QED BY <2>1, <3>2, <3>4 DEF q, r
  <2> QED BY <2>2, <2>3
<1>5. ppHashChains' \in [Buckets -> Seq(Nodes)]
  BY <1>4 DEF Without
<1>10. \A c \in Buckets : \A m : m \in Range(ppHashChains'[c]) <=> m \in Range(ppHashChains[c]) /\ m # n
  BY <1>4
<1>6. Linked' = Linked \ {n}
  <2>1. Linked' = UNION {Range(ppHashChains'[c]) : c \in Buckets}
    BY DEF Linked
  <2>2. \A m : m \in Linked' <=> \E c \in Buckets : m \in Range(ppHashChains'[c])
    BY <2>1
  <2> HIDE DEF Linked
  <2> QED BY <1>2, <1>10, <2>2
<1>7. Cardinality(Linked \ {n}) = Cardinality(Linked) - 1 /\ Cardinality(Linked \ {n}) \in Nat
  BY <1>2, FS_RemoveElement, FS_CardinalityType
<1>8. OnePlace'
  <2>1. \A c \in Buckets : Distinct(ppHashChains'[c])
    BY <1>4
  <2>2. \A c, d \in Buckets : c # d => Range(ppHashChains'[c]) \cap Range(ppHashChains'[d]) = {}
    BY <1>4 DEF OnePlace
  <2> QED BY <2>1, <2>2 DEF OnePlace
<1>9. Placed'
  <2>1. SUFFICES ASSUME NEW c \in Buckets, NEW m \in Range(ppHashChains'[c])
                 PROVE  /\ element'[m].key \in Keys
                        /\ c = Bucket(IF usage = "key" THEN element'[m].key ELSE element'[m].id)
    BY DEF Placed, Bucket
  <2>2. m \in Range(ppHashChains[c]) /\ m \in Nodes \ {n}
    BY <1>2, <1>4
  <2> QED BY <2>2 DEF Placed
<1> QED BY <1>4, <1>5, <1>6, <1>7, <1>8, <1>9, <1>10

-----------------------------------------------------------------------------
(***************************************************************************)
(* Positions of an iterator                                                *)
(***************************************************************************)
\* pNext of a node of a chain, and what comes after it.
LEMMA AfterOrder ==
  ASSUME TInv, NEW b \in Buckets, NEW n
  PROVE  /\ After(b, n) = None => \A y : ~ Precedes(ppHashChains[b], n, y)
         /\ After(b, n) # None =>
              /\ After(b, n) \in Range(ppHashChains[b]) /\ After(b, n) # n
              /\ n \in Range(ppHashChains[b])
              /\ \A y : Precedes(ppHashChains[b], n, y) <=>
                          y = After(b, n) \/ Precedes(ppHashChains[b], After(b, n), y)
              /\ ~ Precedes(ppHashChains[b], After(b, n), After(b, n))
<1> DEFINE q == ppHashChains[b]
           at == {i \in 1..(Len(q) - 1) : q[i] = n}
           k == CHOOSE i \in at : TRUE
<1>1. q \in Seq(Nodes) /\ Distinct(q) /\ None \notin Nodes
  BY HashAssumption DEF TInv, TableType, OnePlace
<1>2. After(b, n) = IF at = {} THEN None ELSE q[1 + k]
  BY DEF After
<1>3. at # {} => k \in 1..(Len(q) - 1) /\ q[k] = n
  OBVIOUS
<1>4. Len(q) \in Nat
  BY <1>1
<1> HIDE DEF k
<1>5. CASE at = {}
  <2>1. \A i \in 1..Len(q) : q[i] = n => i = Len(q)
    BY <1>4, <1>5
  <2>2. \A y : ~ Precedes(q, n, y)
    <3> HIDE DEF q, at
    <3> QED BY <1>4, <2>1 DEF Precedes
  <2> QED BY <1>2, <1>5, <2>2
<1>6. CASE at # {}
  <2>1. k \in 1..Len(q) /\ k # Len(q) /\ q[k] = n
    BY <1>3, <1>4, <1>6
  <2>2. After(b, n) = q[k + 1]
    BY <1>2, <1>3, <1>4, <1>6
  <2> HIDE DEF q, at
  <2>3. k + 1 \in 1..Len(q) /\ \A y : Precedes(q, n, y) <=> y = q[k + 1] \/ Precedes(q, q[k + 1], y)
    BY <1>1, <2>1, AfterNext
  <2>4. ~ Precedes(q, q[k + 1], q[k + 1])
    BY <1>1, <2>3, AfterNext
  <2>5. q[k + 1] \in Range(q) /\ q[k + 1] \in Nodes /\ n \in Range(q)
    BY <1>1, <2>1, <2>3 DEF Range
  <2>6. q[k + 1] # n
    BY <1>1, <1>4, <2>1, <2>3 DEF Distinct
  <2> QED BY <1>1, <2>2, <2>3, <2>4, <2>5, <2>6 DEF q
<1> QED BY <1>5, <1>6

\* The head of a chain, if it has one, comes before the rest of it.
LEMMA HeadIs ==
  ASSUME TInv, NEW b \in Buckets
  PROVE  /\ HeadOf(b) \in Nodes \cup {None}
         /\ HeadOf(b) = None <=> ppHashChains[b] = <<>>
         /\ HeadOf(b) = None => \A y : y \notin Range(ppHashChains[b])
         /\ HeadOf(b) # None =>
              /\ HeadOf(b) \in Range(ppHashChains[b])
              /\ \A y : y \in Range(ppHashChains[b]) <=> y = HeadOf(b) \/ Precedes(ppHashChains[b], HeadOf(b), y)
              /\ ~ Precedes(ppHashChains[b], HeadOf(b), HeadOf(b))
<1> DEFINE q == ppHashChains[b]
<1>1. q \in Seq(Nodes) /\ Distinct(q)
  BY DEF TInv, TableType, OnePlace
<1>2. None \notin Nodes
  BY HashAssumption
<1>3. HeadOf(b) = IF q = <<>> THEN None ELSE q[1]
  BY DEF HeadOf
<1> HIDE DEF q
<1>4. CASE q = <<>>
  BY <1>3, <1>4 DEF Range, q
<1>5. CASE q # <<>>
  <2>1. 1 \in 1..Len(q) /\ q[1] \in Nodes /\ q[1] \in Range(q)
    BY <1>1, <1>5 DEF Range
  <2>2. ~ Precedes(q, q[1], q[1]) /\ \A y : y \in Range(q) <=> y = q[1] \/ Precedes(q, q[1], y)
    BY <1>1, <2>1, AfterNext
  <2> QED BY <1>2, <1>3, <1>5, <2>1, <2>2 DEF q
<1> QED BY <1>4, <1>5

-----------------------------------------------------------------------------
(***************************************************************************)
(* Calls                                                                   *)
(***************************************************************************)
Ops == Adding \cup Looking \cup {"none", "release"}

CallType == [op : Ops, ref : Keys \cup Ids \cup {None}, key : Keys \cup {None}, node : Nodes \cup {None}]
HeldType == [ref : Keys \cup Ids \cup {None}, node : Nodes \cup {None}]
IterType == [kind : Kinds, place : {"stand", "init", "next", "walk"}, node : Nodes \cup {None},
             bucket : Buckets, kept : SUBSET Nodes, todo : SUBSET Nodes]

ThreadsType == /\ pBucketLock \in [Buckets -> Threads \cup {None}]
               /\ pc \in [Threads -> Places]
               /\ call \in [Threads -> CallType]
               /\ held \in [Threads -> HeldType]

ItersType == iter \in [Threads -> IterType] /\ destroying \in Threads \cup {None}

LEMMA Types ==
  /\ IterTypeOK <=> TableType /\ ThreadsType /\ ItersType /\ numberOfElements \in Nat
  /\ IterTypeOK' <=> TableType' /\ ThreadsType' /\ ItersType' /\ numberOfElements' \in Nat
<1>1. Adding \cup {"none", "fetch", "release", "remove", "xFetch", "xFetchRemove"} = Ops
  BY DEF Ops, Looking
<1> QED BY <1>1 DEF IterTypeOK, TypeOK, TableType, ThreadsType, ItersType, CallType, HeldType, IterType

LEMMA Typed == IInv => TInv /\ ThreadsType /\ ItersType /\ numberOfElements \in Nat
BY Types DEF IInv, TInv

\* Which methods there are for each use of a table.
LEMMA OpsAre ==
  \A u \in Usages :
    /\ AddOps[u] \subseteq Adding \ {"addGiven"}
    /\ u # "key" => AddOps[u] \subseteq Generating
    /\ AccessOps[u] \subseteq Looking
    /\ "fetch" \in AccessOps[u] => u \in {"key", "id"}
    /\ "xFetch" \in AccessOps[u] => u \in {"key", "id", "exclusive"}
    /\ "xFetchRemove" \in AccessOps[u] => u = "exclusive"
BY DEF Usages, AddOps, AccessOps, Adding, Generating, Looking

LEMMA ReferencesAre ==
  ASSUME TInv
  PROVE  /\ References \subseteq Keys \cup Ids /\ References \subseteq Keys \cup Nat
         /\ usage # "key" => References = Ids
         /\ \A r \in References : Bucket(r) \in Buckets
<1>1. References \subseteq Keys \cup Ids /\ Ids \subseteq Nat
  BY BucketsAre DEF References
<1> QED BY <1>1, BucketsAre DEF References

LEMMA CallIs ==
  ASSUME IInv, NEW t \in Threads, call[t].op # "none"
  PROVE  call[t].ref \in Keys \cup Ids /\ call[t].ref \in Keys \cup Nat /\ Bucket(call[t].ref) \in Buckets
<1>1. CallFits(t) /\ call[t].op \in Ops
  BY Typed DEF IInv, ThreadsType, CallType
<1>2. call[t].ref \in Keys \cup Ids
  BY <1>1, ReferencesAre, Typed DEF CallFits, Ops, Adding, Looking
<1> QED BY <1>2, BucketsAre

\* A thread that works on a bucket has locked it, and no other does.
LEMMA Owner ==
  ASSUME IInv, NEW t \in Threads, pc[t] \in Busy
  PROVE  /\ Bucket(call[t].ref) \in Buckets /\ call[t].ref \in Keys \cup Nat
         /\ call[t].op # "none"
         /\ pBucketLock[Bucket(call[t].ref)] = t
         /\ Has(t, Bucket(call[t].ref))
         /\ \A u \in Threads \ {t} : ~ Has(u, Bucket(call[t].ref))
<1>1. call[t].op # "none"
  BY DEF IInv, CallFits, Busy
<1>2. Bucket(call[t].ref) \in Buckets /\ call[t].ref \in Keys \cup Nat
  BY <1>1, CallIs
<1>3. Has(t, Bucket(call[t].ref))
  BY DEF Has
<1> QED BY <1>1, <1>2, <1>3 DEF IInv, LocksFit

-----------------------------------------------------------------------------
(***************************************************************************)
(* What the methods do to calls and locks                                  *)
(***************************************************************************)
Legal(t, op, ref, key) ==
  \/ /\ op \in AddOps[usage] /\ ref \in Keys /\ key = ref
     /\ op \in Generating => MayGenerate(Bucket(ref))
  \/ /\ op = "addGiven" /\ usage # "key" /\ ref \in Ids /\ key \in Keys
     /\ MayGive(Bucket(ref), ref)
  \/ /\ op \in AccessOps[usage] /\ ref \in References /\ key = None
     /\ op = "fetch" => held[t] = Nothing
  \/ op = "release" /\ held[t] # Nothing /\ ref = held[t].ref /\ key = None

LEMMA BeginIs ==
  ASSUME NEW t \in Threads, Calls(t)
  PROVE  \E op, ref, key : Begin(t, op, ref, key) /\ Legal(t, op, ref, key)
<1>1. ASSUME NEW op, NEW k \in Keys, BeginAdd(t, op, k)
      PROVE  Begin(t, op, k, k) /\ Legal(t, op, k, k)
  BY <1>1 DEF BeginAdd, Legal
<1>2. ASSUME NEW id \in GivenIds, NEW k \in Keys, BeginAddGiven(t, id, k)
      PROVE  Begin(t, "addGiven", id, k) /\ Legal(t, "addGiven", id, k)
  BY <1>2, HashAssumption DEF BeginAddGiven, Legal
<1>3. ASSUME NEW ref \in References, NEW op, BeginAccess(t, op, ref)
      PROVE  Begin(t, op, ref, None) /\ Legal(t, op, ref, None)
  BY <1>3 DEF BeginAccess, Legal
<1>4. ASSUME BeginRelease(t)
      PROVE  Begin(t, "release", held[t].ref, None) /\ Legal(t, "release", held[t].ref, None)
  BY <1>4 DEF BeginRelease, Legal
<1> QED BY <1>1, <1>2, <1>3, <1>4 DEF Calls

\* The iterators of other threads lose what is removed; nothing else of them changes.
SameIters == \A u \in Threads : /\ iter'[u].kind = iter[u].kind /\ iter'[u].place = iter[u].place
                                /\ iter'[u].node = iter[u].node /\ iter'[u].bucket = iter[u].bucket
                                /\ iter'[u].kept = iter[u].kept \cap Linked'
                                /\ iter'[u].todo = iter[u].todo \cap Linked'

LEMMA MethodIters ==
  ASSUME IInv, NEW t \in Threads, Method(t)
  PROVE  /\ SameIters /\ ItersType'
         /\ destroying = None /\ destroying' = None
         /\ iter[t].kind \in {"none", "shared", "chain"} /\ iter[t].place = "stand"
<1>1. iter \in [Threads -> IterType]
  BY Typed DEF ItersType
<1>2. destroying = None /\ destroying' = None
  BY DEF Method
<1>3. iter' = [u \in Threads |-> [iter[u] EXCEPT !.kept = @ \cap Linked', !.todo = @ \cap Linked']]
  BY DEF Method
<1> DEFINE L == Linked'
<1>4. \A u \in Threads : iter'[u] = [iter[u] EXCEPT !.kept = @ \cap L, !.todo = @ \cap L]
  BY <1>3
<1> HIDE DEF L
<1>5. ASSUME NEW u \in Threads
      PROVE  /\ iter'[u] \in IterType
             /\ iter'[u].kind = iter[u].kind /\ iter'[u].place = iter[u].place
             /\ iter'[u].node = iter[u].node /\ iter'[u].bucket = iter[u].bucket
             /\ iter'[u].kept = iter[u].kept \cap L /\ iter'[u].todo = iter[u].todo \cap L
  <2> DEFINE i == iter[u]
             k == i.kept \cap L
             d == i.todo \cap L
  <2>1. i \in IterType /\ k \in SUBSET Nodes /\ d \in SUBSET Nodes
    BY <1>1 DEF IterType
  <2>2. iter'[u] = [i EXCEPT !.kept = k, !.todo = d]
    BY <1>4
  <2> HIDE DEF i, k, d
  <2>3. /\ iter'[u].kind = i.kind /\ iter'[u].place = i.place
        /\ iter'[u].node = i.node /\ iter'[u].bucket = i.bucket
        /\ iter'[u].kept = k /\ iter'[u].todo = d
    BY <2>1, <2>2 DEF IterType
  <2>4. iter'[u] \in IterType
    BY <2>1, <2>2 DEF IterType
  <2> QED BY <2>3, <2>4 DEF i, k, d
<1>6. SameIters
  BY <1>5 DEF SameIters, L
<1>7. ItersType'
  BY <1>2, <1>3, <1>5 DEF ItersType
<1> QED BY <1>2, <1>6, <1>7 DEF Method

\* A step of a method concerns its own thread, and leaves the call where the method
\* may be; which it is, and what else it does, are the cases below.
LEMMA BeginCalls ==
  ASSUME IInv, NEW t \in Threads, NEW op, NEW ref, NEW key, Begin(t, op, ref, key), Legal(t, op, ref, key)
  PROVE  /\ ThreadsType' /\ CallFits(t)'
         /\ \A u \in Threads \ {t} : pc'[u] = pc[u] /\ call'[u] = call[u] /\ held'[u] = held[u]
         /\ pc'[t] \notin Busy /\ pc[t] \notin Busy
         /\ call'[t] = [op |-> op, ref |-> ref, key |-> key, node |-> None] /\ op \in Ops \ {"none"}
         /\ ref \in Keys \cup Ids
<1>1. ThreadsType /\ TInv /\ usage \in Usages
  BY Typed DEF TInv, TableType
<1>2. /\ op \in Adding \ {"addGiven"} => op \in AddOps[usage] /\ ref \in Keys /\ key = ref
      /\ op = "addGiven" => usage # "key" /\ ref \in Ids /\ key \in Keys
      /\ op \in Looking => op \in AccessOps[usage] /\ ref \in References /\ (op = "fetch" => held[t] = Nothing)
      /\ op = "release" => ref \in References /\ held[t] # Nothing /\ held[t].ref = ref
      /\ op \in Ops \ {"none"} /\ ref \in Keys \cup Ids /\ key \in Keys \cup {None}
  <2>1. AddOps[usage] \subseteq Adding \ {"addGiven"} /\ AccessOps[usage] \subseteq Looking
    BY <1>1, OpsAre
  <2>2. Adding \cap Looking = {} /\ "addGiven" \in Adding /\ "release" \notin Adding \cup Looking
        /\ "none" \notin Adding \cup Looking
    BY DEF Adding, Looking
  <2>3. References \subseteq Keys \cup Ids
    BY <1>1, ReferencesAre
  <2>4. held[t] # Nothing => held[t].ref \in References
    BY DEF IInv, HeldFits
  <2> QED BY <2>1, <2>2, <2>3, <2>4 DEF Legal, Ops
<1>3. /\ pc[t] = "idle" /\ pc' = [pc EXCEPT ![t] = IF op = "addS" THEN "first" ELSE "lock"]
      /\ call' = [call EXCEPT ![t] = [op |-> op, ref |-> ref, key |-> key, node |-> None]]
      /\ held' = held /\ pBucketLock' = pBucketLock /\ usage' = usage
  BY DEF Begin, Goto
<1>4. [op |-> op, ref |-> ref, key |-> key, node |-> None] \in CallType
  BY <1>2 DEF CallType
<1>5. ThreadsType'
  BY <1>1, <1>3, <1>4 DEF ThreadsType, Places
<1>6. /\ call'[t] = [op |-> op, ref |-> ref, key |-> key, node |-> None] /\ held'[t] = held[t]
      /\ pc'[t] = IF op = "addS" THEN "first" ELSE "lock"
  BY <1>1, <1>3 DEF ThreadsType
<1>7. References' = References
  BY <1>3 DEF References
<1>8. CallFits(t)'
  <2>1. /\ call'[t].op = op /\ call'[t].ref = ref /\ call'[t].key = key /\ held'[t] = held[t]
        /\ pc'[t] \in {"first", "lock"} /\ (pc'[t] = "first" => op = "addS") /\ usage' = usage
        /\ op # "none"
    BY <1>2, <1>3, <1>6
  <2>2. op \in Adding \ {"addGiven"} => op \in AddOps[usage'] /\ ref \in Keys /\ key = ref
    BY <1>2, <2>1
  <2>3. op \in Looking => op \in AccessOps[usage'] /\ ref \in References'
    BY <1>2, <1>7, <2>1
  <2>4. op = "addGiven" => usage' # "key" /\ ref \in Ids /\ key \in Keys
    BY <1>2, <2>1
  <2>5. op = "release" => ref \in References' /\ held'[t] # Nothing /\ held'[t].ref = ref
    BY <1>2, <1>7, <2>1
  <2>6. op = "fetch" => held'[t] = Nothing
    BY <1>2, <2>1 DEF Looking
  <2> QED BY <2>1, <2>2, <2>3, <2>4, <2>5, <2>6 DEF CallFits
<1>9. \A u \in Threads \ {t} : pc'[u] = pc[u] /\ call'[u] = call[u] /\ held'[u] = held[u]
  BY <1>1, <1>3 DEF ThreadsType
<1> QED BY <1>2, <1>3, <1>5, <1>6, <1>8, <1>9 DEF Busy

\* Between the lock and the unlock.
LEMMA StepCalls ==
  ASSUME IInv, NEW t \in Threads, LockBucket(t) \/ Step(t)
  PROVE  /\ pc' \in [Threads -> Places] /\ call' \in [Threads -> CallType] /\ held' \in [Threads -> HeldType]
         /\ CallFits(t)' /\ usage' = usage
         /\ \A u \in Threads \ {t} : pc'[u] = pc[u] /\ call'[u] = call[u] /\ held'[u] = held[u]
         /\ pc[t] # "idle"
         /\ pc'[t] # "idle" => call'[t].op = call[t].op /\ call'[t].ref = call[t].ref /\ call'[t].key = call[t].key
<1>1. ThreadsType /\ CallFits(t)
  BY Typed DEF IInv
<1>2. CASE LockBucket(t) \/ Duplicate(t) \/ Link(t) \/ NotFound(t) \/ RemoveElement(t) \/ XFetchRemove(t) \/ Count(t)
  <2>1. /\ UNCHANGED <<usage, call, held>> /\ call[t].op # "none"
        /\ \/ pc[t] = "lock" /\ pc' = [pc EXCEPT ![t] = "locked"]
           \/ /\ pc[t] = "locked"
              /\ \/ pc' = [pc EXCEPT ![t] = "unlock"]
                 \/ /\ pc' = [pc EXCEPT ![t] = "exclusive"]
                    /\ call[t].op \in {"xFetch", "xFetchRemove"}
                 \/ /\ pc' = [pc EXCEPT ![t] = "count"]
                    /\ call[t].op \in (Adding \ {"addS"}) \cup {"remove", "xFetchRemove"}
           \/ pc[t] = "first" /\ pc' = [pc EXCEPT ![t] = "lock"]
           \/ pc[t] = "count" /\ pc' = [pc EXCEPT ![t] = "exclusive"] /\ call[t].op = "xFetchRemove"
           \/ pc[t] = "count" /\ pc' = [pc EXCEPT ![t] = "unlock"]
    BY <1>1, <1>2 DEF LockBucket, Duplicate, Link, NotFound, RemoveElement, XFetchRemove, Count, Found, Goto,
                      CallFits
  <2>2. pc' \in [Threads -> Places] /\ pc'[t] # "idle"
    BY <1>1, <2>1 DEF ThreadsType, Places
  <2>3. References' = References
    BY <2>1 DEF References
  <2>4. CallFits(t)'
    <3>1. /\ pc'[t] # "first" /\ pc'[t] # "idle" /\ call'[t] = call[t] /\ held'[t] = held[t] /\ usage' = usage
          /\ pc'[t] \in {"lock", "locked"} => pc[t] \in {"lock", "first"}
          /\ pc'[t] = "lock" => call[t].op = "addS"
          /\ pc'[t] = "count" => call[t].op \in (Adding \ {"addS"}) \cup {"remove", "xFetchRemove"}
          /\ pc'[t] = "exclusive" => call[t].op \in {"xFetch", "xFetchRemove"}
      BY <1>1, <2>1 DEF ThreadsType, CallFits
    <3> QED BY <1>1, <2>1, <2>3, <3>1 DEF CallFits
  <2> QED BY <1>1, <2>1, <2>2, <2>4 DEF ThreadsType
<1>3. CASE Fetch(t) \/ Release(t)
  <2>1. /\ UNCHANGED <<usage, call>> /\ pc[t] = "locked" /\ pc' = [pc EXCEPT ![t] = "unlock"]
        /\ call[t].op \in {"fetch", "release"}
        /\ \/ held' = [held EXCEPT ![t] = Nothing]
           \/ held' = [held EXCEPT ![t] = [ref |-> call[t].ref, node |-> Find(call[t].ref)]]
    BY <1>3 DEF Fetch, Release, Found, Goto
  <2>2. [ref |-> call[t].ref, node |-> Find(call[t].ref)] \in HeldType /\ Nothing \in HeldType
    BY <2>1, CallIs, FindIs, Typed DEF HeldType, Nothing
  <2>3. held' \in [Threads -> HeldType]
    BY <1>1, <2>1, <2>2 DEF ThreadsType
  <2>4. References' = References
    BY <2>1 DEF References
  <2>5. CallFits(t)'
    BY <1>1, <2>1, <2>4 DEF CallFits, ThreadsType
  <2> QED BY <1>1, <2>1, <2>3, <2>5 DEF ThreadsType, Places
<1>4. CASE XFetch(t)
  <2>1. /\ UNCHANGED <<usage, held>> /\ pc[t] = "locked" /\ pc' = [pc EXCEPT ![t] = "exclusive"]
        /\ call[t].op = "xFetch"
        /\ call' = [call EXCEPT ![t].node = Find(call[t].ref)]
    BY <1>4 DEF XFetch, Found, Goto
  <2>2. Find(call[t].ref) \in Nodes \cup {None}
    BY <2>1, CallIs, FindIs, Typed
  <2>3. /\ call' \in [Threads -> CallType]
        /\ call'[t].op = call[t].op /\ call'[t].ref = call[t].ref /\ call'[t].key = call[t].key
    BY <1>1, <2>1, <2>2 DEF ThreadsType, CallType
  <2>4. References' = References
    BY <2>1 DEF References
  <2>5. pc'[t] = "exclusive" /\ held'[t] = held[t]
    BY <1>1, <2>1 DEF ThreadsType
  <2>6. CallFits(t)'
    BY <1>1, <2>1, <2>3, <2>4, <2>5 DEF CallFits
  <2> QED BY <1>1, <2>1, <2>3, <2>6 DEF ThreadsType, Places
<1>5. CASE Unlock(t) \/ XRelease(t)
  <2>1. /\ UNCHANGED <<usage, held>> /\ pc[t] \in {"unlock", "exclusive"} /\ pc' = [pc EXCEPT ![t] = "idle"]
        /\ call' = [call EXCEPT ![t] = NoCall]
    BY <1>5 DEF Unlock, XRelease, Return, Goto
  <2>2. NoCall \in CallType
    BY DEF NoCall, CallType, Ops
  <2>3. CallFits(t)'
    BY <1>1, <2>1 DEF CallFits, ThreadsType, NoCall, Adding, Looking
  <2> QED BY <1>1, <2>1, <2>2, <2>3 DEF ThreadsType, Places
<1> QED BY <1>2, <1>3, <1>4, <1>5 DEF Step

\* A step of any method: what the two lemmas above have in common, and its bucket.
LEMMA MethodCalls ==
  ASSUME IInv, NEW t \in Threads, Method(t)
  PROVE  /\ ThreadsType' /\ usage' = usage
         /\ \A u \in Threads : CallFits(u)'
         /\ \A u \in Threads \ {t} : pc'[u] = pc[u] /\ call'[u] = call[u] /\ held'[u] = held[u]
         /\ pc[t] = "idle" \/ (LockBucket(t) \/ Step(t))
         /\ pc[t] = "idle" => pc'[t] \notin Busy
         /\ LET b == Bucket(call[t].ref)
            IN  \/ /\ pBucketLock' = pBucketLock /\ (pc[t] \in Busy <=> pc'[t] \in Busy)
                   /\ pc[t] \in Busy => call'[t].ref = call[t].ref
                \/ /\ pBucketLock[b] = None /\ pBucketLock' = [pBucketLock EXCEPT ![b] = t]
                   /\ pc[t] = "lock" /\ pc'[t] = "locked" /\ call'[t].ref = call[t].ref
                \/ /\ pBucketLock' = [pBucketLock EXCEPT ![b] = None]
                   /\ pc[t] \in Busy /\ pc'[t] = "idle"
<1>1. ThreadsType /\ CallFits(t)
  BY Typed DEF IInv
<1> DEFINE b == Bucket(call[t].ref)
           lock == \/ /\ pBucketLock' = pBucketLock /\ (pc[t] \in Busy <=> pc'[t] \in Busy)
                      /\ pc[t] \in Busy => call'[t].ref = call[t].ref
                   \/ /\ pBucketLock[b] = None /\ pBucketLock' = [pBucketLock EXCEPT ![b] = t]
                      /\ pc[t] = "lock" /\ pc'[t] = "locked" /\ call'[t].ref = call[t].ref
                   \/ /\ pBucketLock' = [pBucketLock EXCEPT ![b] = None]
                      /\ pc[t] \in Busy /\ pc'[t] = "idle"
<1>2. CASE Calls(t)
  <2>1. PICK op, ref, key : Begin(t, op, ref, key) /\ Legal(t, op, ref, key)
    BY <1>2, BeginIs
  <2>2. /\ ThreadsType' /\ CallFits(t)'
        /\ \A u \in Threads \ {t} : pc'[u] = pc[u] /\ call'[u] = call[u] /\ held'[u] = held[u]
        /\ pc'[t] \notin Busy /\ pc[t] \notin Busy
    BY <2>1, BeginCalls
  <2>3. pBucketLock' = pBucketLock /\ usage' = usage /\ pc[t] = "idle"
    BY <2>1 DEF Begin
  <2>4. ASSUME NEW u \in Threads PROVE CallFits(u)'
    <3>1. CASE u # t
      <4>1. References' = References /\ CallFits(u)
        BY <2>3 DEF References, IInv
      <4> QED BY <2>2, <2>3, <3>1, <4>1 DEF CallFits
    <3> QED BY <2>2, <3>1
  <2> QED BY <2>2, <2>3, <2>4
<1>3. CASE LockBucket(t) \/ Step(t)
  <2>1. /\ pc' \in [Threads -> Places] /\ call' \in [Threads -> CallType] /\ held' \in [Threads -> HeldType]
        /\ CallFits(t)' /\ usage' = usage /\ pc[t] # "idle"
        /\ \A u \in Threads \ {t} : pc'[u] = pc[u] /\ call'[u] = call[u] /\ held'[u] = held[u]
        /\ pc'[t] # "idle" => call'[t].op = call[t].op /\ call'[t].ref = call[t].ref
    BY <1>3, StepCalls
  <2>2. call[t].op # "none" /\ b \in Buckets
    BY <1>1, <2>1, CallIs DEF CallFits
  <2>3. ASSUME LockBucket(t) PROVE lock
    <3>1. /\ pBucketLock[b] = None /\ pBucketLock' = [pBucketLock EXCEPT ![b] = t]
          /\ pc[t] = "lock" /\ pc'[t] = "locked"
      BY <1>1, <2>3 DEF LockBucket, Goto, ThreadsType
    <3> QED BY <2>1, <3>1
  <2>4. ASSUME Unlock(t) \/ XRelease(t) PROVE lock
    <3>1. /\ pBucketLock' = [pBucketLock EXCEPT ![b] = None]
          /\ pc[t] \in Busy /\ pc'[t] = "idle"
      BY <1>1, <2>4 DEF Unlock, XRelease, Return, Goto, ThreadsType, Busy
    <3> QED BY <3>1
  <2>5. ASSUME Step(t), ~ (Unlock(t) \/ XRelease(t)) PROVE lock
    <3>1. /\ pBucketLock' = pBucketLock
          /\ \/ pc[t] = "first" /\ pc'[t] = "lock"
             \/ pc[t] \in {"locked", "count"} /\ pc'[t] \in {"unlock", "count", "exclusive"}
      <4>1. CASE Count(t)
        <5>1. CASE pc[t] = "first"
          <6>1. call[t].op # "xFetchRemove"
            BY <1>1, <5>1 DEF CallFits
          <6> QED BY <1>1, <4>1, <5>1, <6>1 DEF Count, Goto, ThreadsType
        <5>2. CASE pc[t] = "count"
          BY <1>1, <4>1, <5>2 DEF Count, Goto, ThreadsType
        <5> QED BY <4>1, <5>1, <5>2 DEF Count
      <4>2. CASE Fetch(t) \/ Release(t) \/ XFetch(t)
        BY <1>1, <4>2 DEF Fetch, Release, XFetch, Found, Goto, ThreadsType
      <4>3. CASE RemoveElement(t) \/ XFetchRemove(t)
        BY <1>1, <4>3 DEF RemoveElement, XFetchRemove, Found, Goto, ThreadsType
      <4>4. CASE Duplicate(t) \/ Link(t) \/ NotFound(t)
        BY <1>1, <4>4 DEF Duplicate, Link, NotFound, Goto, ThreadsType
      <4> QED BY <2>5, <4>1, <4>2, <4>3, <4>4 DEF Step
    <3> QED BY <2>1, <3>1 DEF Busy
  <2>6. lock
    <3> HIDE DEF lock, b
    <3> QED BY <1>3, <2>3, <2>4, <2>5
  <2>7. pBucketLock' \in [Buckets -> Threads \cup {None}]
    BY <1>1, <2>2, <2>6 DEF ThreadsType
  <2>8. ASSUME NEW u \in Threads PROVE CallFits(u)'
    <3>1. CASE u # t
      <4>1. References' = References /\ CallFits(u)
        BY <2>1 DEF References, IInv
      <4> QED BY <2>1, <3>1, <4>1 DEF CallFits
    <3> QED BY <2>1, <3>1
  <2> QED BY <1>3, <2>1, <2>6, <2>7, <2>8 DEF ThreadsType
<1> QED BY <1>2, <1>3 DEF Method

LEMMA MethodLocks ==
  ASSUME IInv, NEW t \in Threads, Method(t)
  PROVE  LocksFit'
<1> DEFINE b == Bucket(call[t].ref)
<1>1. /\ \A u \in Threads \ {t} : pc'[u] = pc[u] /\ call'[u] = call[u]
      /\ \A u \in Threads : CallFits(u)
      /\ \/ /\ pBucketLock' = pBucketLock /\ (pc[t] \in Busy <=> pc'[t] \in Busy)
            /\ pc[t] \in Busy => call'[t].ref = call[t].ref
         \/ /\ pBucketLock[b] = None /\ pBucketLock' = [pBucketLock EXCEPT ![b] = t]
            /\ pc[t] = "lock" /\ pc'[t] = "locked" /\ call'[t].ref = call[t].ref
         \/ /\ pBucketLock' = [pBucketLock EXCEPT ![b] = None]
            /\ pc[t] \in Busy /\ pc'[t] = "idle"
  BY MethodCalls DEF IInv
<1>2. SameIters /\ iter[t].kind \notin Excl
  BY MethodIters DEF Excl
<1>3. ASSUME NEW u \in Threads \ {t}, NEW c PROVE Has(u, c)' <=> Has(u, c)
  BY <1>1, <1>2, <1>3 DEF Has, SameIters, Bucket
<1>4. \A c : /\ Has(t, c) <=> pc[t] \in Busy /\ c = b
             /\ Has(t, c)' <=> pc'[t] \in Busy /\ c = Bucket(call'[t].ref)
  BY <1>2 DEF Has, SameIters, Bucket
<1>5. LocksFit /\ pBucketLock \in [Buckets -> Threads \cup {None}] /\ None \notin Threads
  BY Typed, HashAssumption DEF IInv, ThreadsType
<1> HIDE DEF b
<1>6. SUFFICES ASSUME NEW u \in Threads, NEW c \in Buckets
               PROVE  pBucketLock'[c] = u <=> Has(u, c)'
  BY DEF LocksFit
<1>7. pBucketLock[c] = u <=> Has(u, c)
  BY <1>5 DEF LocksFit
<1>8. pBucketLock[c] = t <=> Has(t, c)
  BY <1>5 DEF LocksFit
<1>9. CASE pBucketLock' = pBucketLock /\ (pc[t] \in Busy <=> pc'[t] \in Busy)
           /\ (pc[t] \in Busy => call'[t].ref = call[t].ref)
  <2>1. Has(t, c)' <=> Has(t, c)
    BY <1>4, <1>9 DEF b
  <2> QED BY <1>3, <1>7, <1>9, <2>1
<1>10. CASE /\ pBucketLock[b] = None /\ pBucketLock' = [pBucketLock EXCEPT ![b] = t]
            /\ pc[t] = "lock" /\ pc'[t] = "locked" /\ call'[t].ref = call[t].ref
  <2>1. Has(t, c)' <=> c = b
    BY <1>4, <1>10 DEF b, Busy
  <2>2. ~ Has(t, c)
    BY <1>4, <1>10 DEF Busy
  <2>3. CASE c = b
    <3>1. pBucketLock'[c] = t /\ pBucketLock[c] = None
      BY <1>5, <1>10, <2>3
    <3> QED BY <1>3, <1>5, <1>7, <2>1, <2>3, <3>1
  <2>4. CASE c # b
    <3>1. pBucketLock'[c] = pBucketLock[c]
      BY <1>5, <1>10, <2>4
    <3> QED BY <1>3, <1>7, <2>1, <2>2, <2>4, <3>1
  <2> QED BY <2>3, <2>4
<1>11. CASE pBucketLock' = [pBucketLock EXCEPT ![b] = None] /\ pc[t] \in Busy /\ pc'[t] = "idle"
  <2>1. ~ Has(t, c)'
    BY <1>4, <1>11 DEF Busy
  <2>2. Has(t, c) <=> c = b
    BY <1>4, <1>11
  <2>3. CASE c = b
    <3>1. pBucketLock'[c] = None /\ pBucketLock[c] = t
      BY <1>5, <1>8, <1>11, <2>2, <2>3
    <3> QED BY <1>3, <1>5, <1>7, <2>1, <3>1
  <2>4. CASE c # b
    <3>1. pBucketLock'[c] = pBucketLock[c]
      BY <1>5, <1>11, <2>4
    <3> QED BY <1>3, <1>7, <1>8, <2>1, <2>2, <2>4, <3>1
  <2> QED BY <2>3, <2>4
<1> QED BY <1>1, <1>9, <1>10, <1>11

LEMMA MethodAlone ==
  ASSUME IInv, NEW t \in Threads, Method(t)
  PROVE  Alone'
<1>1. SameIters /\ destroying' = None /\ iter[t].place = "stand"
  BY MethodIters
<1>2. /\ \A u \in Threads \ {t} : pc'[u] = pc[u] /\ call'[u] = call[u]
      /\ CallFits(t)'
  BY MethodCalls
<1>3. Initialising' = Initialising /\ t \notin Initialising
  BY <1>1 DEF Initialising, SameIters
<1>4. Initialising # {} => call'[t].op \in Adding \cup {"none"}
  BY DEF Method
<1>5. ASSUME NEW w \in Initialising PROVE Quiet(w)'
  <2>1. Quiet(w) /\ w # t /\ w \in Threads
    BY <1>3 DEF IInv, Alone, Initialising
  <2>2. pc'[t] = "idle" \/ call'[t].op \in Adding
    BY <1>2, <1>4 DEF CallFits
  <2> QED BY <1>2, <1>3, <2>1, <2>2 DEF Quiet
<1> QED BY <1>1, <1>3, <1>5 DEF Alone

-----------------------------------------------------------------------------
(***************************************************************************)
(* Tables from which nodes are taken, or none                              *)
(***************************************************************************)
\* The nodes of R leave their chains, and the others stay, as they are.
Shrunk(R) ==
  /\ usage' = usage
  /\ \A c \in Buckets : \A m : m \in Range(ppHashChains'[c]) <=> m \in Range(ppHashChains[c]) /\ m \notin R
  /\ \A c \in Buckets : (\A m \in R : m \notin Range(ppHashChains[c])) => ppHashChains'[c] = ppHashChains[c]
  /\ \A c \in Buckets : \A x, y :
       Precedes(ppHashChains'[c], x, y) <=> Precedes(ppHashChains[c], x, y) /\ x \notin R /\ y \notin R
  /\ \A m \in Nodes \ R : element'[m].key = element[m].key /\ element'[m].id = element[m].id

LEMMA SameShrinks == SameTable => Shrunk({})
BY DEF SameTable, Shrunk

LEMMA ShrunkIs ==
  ASSUME TInv, NEW R, Shrunk(R)
  PROVE  /\ \A m : m \in Linked' <=> m \in Linked /\ m \notin R
         /\ \A m, ref : IsFirst(m, ref) /\ m \notin R /\ Bucket(ref) \in Buckets => IsFirst(m, ref)'
<1> USE DEF Shrunk
<1>1. \A m : m \in Linked <=> \E c \in Buckets : m \in Range(ppHashChains[c])
  BY DEF Linked
<1>2. \A m : m \in Linked' <=> \E c \in Buckets : m \in Range(ppHashChains'[c])
  <2>1. Linked' = UNION {Range(ppHashChains'[c]) : c \in Buckets}
    BY DEF Linked
  <2> QED BY <2>1
<1>3. \A m : m \in Linked' <=> m \in Linked /\ m \notin R
  <2> HIDE DEF Linked
  <2> QED BY <1>1, <1>2
<1>4. ASSUME NEW m, NEW ref, IsFirst(m, ref), m \notin R, Bucket(ref) \in Buckets PROVE IsFirst(m, ref)'
  <2>1. Range(ppHashChains[Bucket(ref)]) \subseteq Nodes
    BY <1>4 DEF TInv, TableType, Range
  <2>2. Bucket(ref)' = Bucket(ref)
    BY DEF Bucket
  <2>3. m \in Nodes \ R /\ m \in Range(ppHashChains[Bucket(ref)])
    BY <1>4, <2>1 DEF IsFirst, Chain
  <2>4. \A k \in Nodes \ R : Matches(k, ref)' <=> Matches(k, ref)
    BY DEF Matches
  <2>5. m \in Range(Chain(ref)') /\ Matches(m, ref)'
    BY <1>4, <2>2, <2>3, <2>4 DEF Chain, IsFirst
  <2>6. ASSUME NEW k \in Nodes, Precedes(Chain(ref)', k, m) PROVE ~ Matches(k, ref)'
    <3>1. Precedes(ppHashChains[Bucket(ref)], k, m) /\ k \notin R
      BY <1>4, <2>2, <2>6 DEF Chain
    <3> QED BY <1>4, <2>4, <3>1 DEF IsFirst, Chain
  <2> QED BY <2>5, <2>6 DEF IsFirst
<1> QED BY <1>3, <1>4

\* What a thread has fetched is still there, if it is not taken away.
LEMMA ShrunkHeld ==
  ASSUME IInv, NEW R, Shrunk(R), NEW u \in Threads, held'[u] = held[u], held[u].node \notin R
  PROVE  HeldFits(u)'
<1>1. TInv /\ HeldFits(u) /\ usage' = usage
  BY Typed DEF IInv, Shrunk
<1>2. References' = References
  BY <1>1 DEF References
<1>3. held[u] # Nothing => IsFirst(held[u].node, held[u].ref)'
  BY <1>1, ShrunkIs, ReferencesAre DEF HeldFits
<1> QED BY <1>1, <1>2, <1>3 DEF HeldFits

LEMMA ShrunkExclusive ==
  ASSUME IInv, NEW R, Shrunk(R), NEW u \in Threads, call'[u] = call[u], call[u].node \notin R,
         call[u].node # None => pc'[u] = pc[u]
  PROVE  XFits(u)'
<1>1. XFits(u)
  BY DEF IInv
<1>2. SUFFICES ASSUME call[u].node # None PROVE call[u].node \in Range(Chain(call[u].ref)')
  BY <1>1 DEF XFits
<1>3. Bucket(call[u].ref) \in Buckets
  BY <1>1, <1>2, Owner DEF XFits, Busy
<1>4. Bucket(call[u].ref)' = Bucket(call'[u].ref)
  BY DEF Bucket
<1>5. Range(ppHashChains'[Bucket(call[u].ref)]) = Range(ppHashChains[Bucket(call[u].ref)]) \ R
  BY <1>3 DEF Shrunk
<1>6. Chain(call[u].ref)' = ppHashChains'[Bucket(call[u].ref)]
  BY <1>4 DEF Chain
<1> QED BY <1>1, <1>2, <1>5, <1>6 DEF XFits, Chain

\* Ids and counters stay right.
LEMMA ShrunkIds ==
  ASSUME IInv, NEW R, Shrunk(R), bucketCounter' = bucketCounter,
         \A b \in Buckets : Adders(b)' \subseteq Adders(b),
         \A u \in Threads, b \in Buckets : u \in Adders(b)' => call'[u] = call[u]
  PROVE  UniqueIds' /\ IdsFit'
<1>1. TInv /\ usage' = usage
  BY Typed DEF Shrunk
<1>2. /\ \A m : m \in Linked' <=> m \in Linked /\ m \notin R
      /\ Linked \subseteq Nodes
  BY <1>1, ShrunkIs, LinkedIs DEF TInv, TableType
<1>3. \A m \in Linked' : element'[m].id = element[m].id
  BY <1>2 DEF Shrunk
<1>4. UniqueIds'
  BY <1>1, <1>2, <1>3 DEF IInv, UniqueIds
<1>5. ASSUME usage # "key", NEW b \in Buckets
      PROVE  /\ \A n \in Range(ppHashChains'[b]) : element'[n].id \div numberOfBuckets < bucketCounter'[b]
             /\ \A t \in Adders(b)' :
                  /\ call'[t].op = "addGiven" =>
                       /\ Adders(b)' = {t}
                       /\ \A n \in Linked' : element'[n].id # call'[t].ref
                       /\ call'[t].ref \div numberOfBuckets < Limit(b)
                  /\ call'[t].op \in Generating =>
                       \/ bucketCounter'[b] + Cardinality(Adders(b)') <= Limit(b) + 1
                       \/ Adders(b)' = {t} /\ ppHashChains'[b] = <<>>
  <2>1. /\ \A n \in Range(ppHashChains[b]) : element[n].id \div numberOfBuckets < bucketCounter[b]
        /\ \A t \in Adders(b) :
             /\ call[t].op = "addGiven" =>
                  /\ Adders(b) = {t}
                  /\ \A n \in Linked : element[n].id # call[t].ref
                  /\ call[t].ref \div numberOfBuckets < Limit(b)
             /\ call[t].op \in Generating =>
                  \/ bucketCounter[b] + Cardinality(Adders(b)) <= Limit(b) + 1
                  \/ Adders(b) = {t} /\ ppHashChains[b] = <<>>
    BY <1>5 DEF IInv, IdsFit
  <2>2. Range(ppHashChains[b]) \subseteq Nodes /\ Range(ppHashChains'[b]) = Range(ppHashChains[b]) \ R
    <3>1. Range(ppHashChains[b]) \subseteq Nodes
      BY <1>1 DEF TInv, TableType, Range
    <3>2. \A m : m \in Range(ppHashChains'[b]) <=> m \in Range(ppHashChains[b]) /\ m \notin R
      BY DEF Shrunk
    <3> QED BY <3>1, <3>2
  <2>3. \A n \in Range(ppHashChains'[b]) : n \in Range(ppHashChains[b]) /\ element'[n].id = element[n].id
    BY <2>2 DEF Shrunk
  <2>4. ppHashChains[b] = <<>> => ppHashChains'[b] = <<>>
    <3>1. ppHashChains[b] = <<>> => Range(ppHashChains[b]) = {}
      BY DEF Range
    <3> QED BY <3>1 DEF Shrunk
  <2>5. /\ Adders(b)' \subseteq Adders(b)
        /\ Cardinality(Adders(b)') \in Nat /\ Cardinality(Adders(b)) \in Nat
        /\ Cardinality(Adders(b)') <= Cardinality(Adders(b))
    <3>1. IsFiniteSet(Adders(b))
      BY HashAssumption, FS_Subset DEF Adders
    <3> QED BY <3>1, FS_Subset, FS_CardinalityType
  <2>6. \A t \in Adders(b)' : t \in Threads /\ call'[t] = call[t] /\ t \in Adders(b)
    BY <2>5 DEF Adders
  <2>7. bucketCounter[b] \in Nat /\ Limit(b) \in Nat
    BY <1>1, GeneratedIds DEF TInv, TableType
  <2>8. \A n \in Range(ppHashChains'[b]) : element'[n].id \div numberOfBuckets < bucketCounter'[b]
    BY <2>1, <2>3
  <2>9. ASSUME NEW t \in Adders(b)', call'[t].op = "addGiven"
        PROVE  /\ Adders(b)' = {t}
               /\ \A n \in Linked' : element'[n].id # call'[t].ref
               /\ call'[t].ref \div numberOfBuckets < Limit(b)
    <3>1. call'[t] = call[t] /\ t \in Adders(b)
      BY <2>6
    <3>2. /\ Adders(b) = {t} /\ \A n \in Linked : element[n].id # call[t].ref
          /\ call[t].ref \div numberOfBuckets < Limit(b)
      BY <2>1, <2>9, <3>1
    <3> QED BY <1>2, <1>3, <2>5, <3>1, <3>2
  <2>10. ASSUME NEW t \in Adders(b)', call'[t].op \in Generating
         PROVE  \/ bucketCounter'[b] + Cardinality(Adders(b)') <= Limit(b) + 1
                \/ Adders(b)' = {t} /\ ppHashChains'[b] = <<>>
    <3>1. call'[t] = call[t] /\ t \in Adders(b)
      BY <2>6
    <3>2. \/ bucketCounter[b] + Cardinality(Adders(b)) <= Limit(b) + 1
          \/ Adders(b) = {t} /\ ppHashChains[b] = <<>>
      BY <2>1, <2>10, <3>1
    <3>3. CASE bucketCounter[b] + Cardinality(Adders(b)) <= Limit(b) + 1
      <4> DEFINE x == Cardinality(Adders(b)')
                 y == Cardinality(Adders(b))
      <4>1. x \in Nat /\ y \in Nat /\ x <= y
        BY <2>5
      <4>2. bucketCounter'[b] = bucketCounter[b]
        OBVIOUS
      <4> HIDE DEF x, y
      <4>3. bucketCounter[b] + y <= Limit(b) + 1
        BY <3>3 DEF y
      <4>4. bucketCounter'[b] + x <= Limit(b) + 1
        BY <2>7, <4>1, <4>2, <4>3
      <4> QED BY <4>4 DEF x
    <3>4. CASE Adders(b) = {t} /\ ppHashChains[b] = <<>>
      BY <2>4, <2>5, <3>4
    <3> QED BY <3>2, <3>3, <3>4
  <2> QED BY <2>8, <2>9, <2>10
<1>6. IdsFit'
  <2>1. \A b : Limit(b)' = Limit(b)
    BY DEF Limit
  <2> QED BY <1>1, <1>5, <2>1 DEF IdsFit
<1> QED BY <1>4, <1>6

\* An iterator that is not on a node taken away has the others ahead of it as before.
LEMMA ShrunkTodo ==
  ASSUME IInv, NEW R, Shrunk(R), NEW u \in Threads,
         iter'[u].kind = iter[u].kind, iter'[u].place = iter[u].place,
         iter'[u].node = iter[u].node, iter'[u].bucket = iter[u].bucket,
         iter'[u].kept = iter[u].kept \cap Linked', iter'[u].todo = iter[u].todo \cap Linked',
         iter[u].node \notin R
  PROVE  TodoFits(u)'
<1> DEFINE i == iter[u]
<1>1. TInv /\ i.bucket \in Buckets /\ TodoFits(u) /\ usage' = usage
  BY Typed DEF IInv, ItersType, IterType, Shrunk
<1>2. \A m : m \in Linked' <=> m \in Linked /\ m \notin R
  BY <1>1, ShrunkIs
<1>3. ASSUME NEW m \in Linked' PROVE m \in Ahead(iter[u])' <=> m \in Ahead(iter[u])
  <2>1. m \notin R
    BY <1>2
  <2>2. \A c \in Buckets : m \in Range(ppHashChains'[c]) <=> m \in Range(ppHashChains[c])
    BY <2>1 DEF Shrunk
  <2>3. Precedes(ppHashChains'[i.bucket], i.node, m) <=> Precedes(ppHashChains[i.bucket], i.node, m)
    BY <1>1, <2>1 DEF Shrunk
  <2> QED BY <2>2, <2>3 DEF Ahead
<1>4. iter'[u].kind \notin {"none", "destroy"} => i.kept \subseteq Linked /\ i.todo = i.kept \cap Ahead(i)
  BY <1>1 DEF TodoFits
<1>5. iter'[u].kind \notin {"none", "destroy"} =>
        iter'[u].kept \subseteq Linked' /\ iter'[u].todo = iter'[u].kept \cap Ahead(iter[u])'
  BY <1>3, <1>4
<1> QED BY <1>5 DEF TodoFits

-----------------------------------------------------------------------------
(***************************************************************************)
(* Reference counts                                                        *)
(***************************************************************************)
Fetchers(n) == {t \in Threads : held[t].node = n}

\* The iterator has counted the reference to its element.
Counts(i, n) == i.kind \in {"shared", "chain", "destroy"} /\ i.place # "init" /\ i.node = n

Standers(n) == {t \in Threads : Counts(iter[t], n)}

LEMMA RefsAre ==
  /\ RefsAccounted <=> \A n \in Linked : element[n].refs = 1 + Cardinality(Fetchers(n)) + Cardinality(Standers(n))
  /\ RefsAccounted' <=>
       \A n \in Linked' : element'[n].refs = 1 + Cardinality(Fetchers(n)') + Cardinality(Standers(n)')
<1>1. \A n : /\ Fetchers(n) = {t \in Threads : held[t].node = n}
             /\ Fetchers(n)' = {t \in Threads : held'[t].node = n}
             /\ Standers(n) = {t \in Threads : /\ iter[t].kind \in {"shared", "chain", "destroy"}
                                               /\ iter[t].place # "init" /\ iter[t].node = n}
             /\ Standers(n)' = {t \in Threads : /\ iter'[t].kind \in {"shared", "chain", "destroy"}
                                                /\ iter'[t].place # "init" /\ iter'[t].node = n}
  BY DEF Fetchers, Standers, Counts
<1> QED BY <1>1 DEF RefsAccounted

LEMMA FiniteHolders ==
  \A n : /\ IsFiniteSet(Fetchers(n)) /\ Cardinality(Fetchers(n)) \in Nat
         /\ IsFiniteSet(Standers(n)) /\ Cardinality(Standers(n)) \in Nat
<1> SUFFICES ASSUME NEW n
             PROVE  /\ IsFiniteSet(Fetchers(n)) /\ Cardinality(Fetchers(n)) \in Nat
                    /\ IsFiniteSet(Standers(n)) /\ Cardinality(Standers(n)) \in Nat
  OBVIOUS
<1>1. IsFiniteSet(Fetchers(n)) /\ IsFiniteSet(Standers(n))
  BY HashAssumption, FS_Subset DEF Fetchers, Standers
<1> QED BY <1>1, FS_CardinalityType

\* Nobody has an element with a count of one.
LEMMA OneReference ==
  ASSUME IInv, NEW n \in Linked
  PROVE  /\ element[n].refs >= 1
         /\ \A t \in Threads : held[t].node = n \/ Counts(iter[t], n) => element[n].refs >= 2
<1>1. element[n].refs = 1 + Cardinality(Fetchers(n)) + Cardinality(Standers(n))
  BY RefsAre DEF IInv
<1>2. /\ IsFiniteSet(Fetchers(n)) /\ Cardinality(Fetchers(n)) \in Nat
      /\ IsFiniteSet(Standers(n)) /\ Cardinality(Standers(n)) \in Nat
  BY FiniteHolders
<1>3. Cardinality(Fetchers(n)) = 0 => \A t \in Threads : held[t].node # n
  BY <1>2, FS_EmptySet DEF Fetchers
<1>4. Cardinality(Standers(n)) = 0 => \A t \in Threads : ~ Counts(iter[t], n)
  BY <1>2, FS_EmptySet DEF Standers
<1> QED BY <1>1, <1>2, <1>3, <1>4

\* When the count of every element changes by what one thread fetches and releases,
\* and new elements are nobody's, the counts stay right.
LEMMA RefsFollow ==
  ASSUME IInv, NEW t \in Threads,
         \A u \in Threads \ {t} : /\ held'[u].node = held[u].node
                                  /\ \A n : Counts(iter'[u], n) <=> Counts(iter[u], n),
         \A n \in Linked' :
           \/ /\ n \in Linked
              /\ element'[n].refs = element[n].refs + (IF held'[t].node = n THEN 1 ELSE 0)
                                                    - (IF held[t].node = n THEN 1 ELSE 0)
                                                    + (IF Counts(iter'[t], n) THEN 1 ELSE 0)
                                                    - (IF Counts(iter[t], n) THEN 1 ELSE 0)
           \/ element'[n].refs = 1 /\ \A u \in Threads : held'[u].node # n /\ ~ Counts(iter'[u], n)
  PROVE  RefsAccounted'
<1>1. SUFFICES ASSUME NEW n \in Linked'
               PROVE  element'[n].refs = 1 + Cardinality(Fetchers(n)') + Cardinality(Standers(n)')
  BY RefsAre
<1>2. /\ Fetchers(n) \in SUBSET Threads /\ Fetchers(n)' \in SUBSET Threads
      /\ Standers(n) \in SUBSET Threads /\ Standers(n)' \in SUBSET Threads
      /\ \A u \in Threads : /\ u \in Fetchers(n) <=> held[u].node = n
                            /\ u \in Fetchers(n)' <=> held'[u].node = n
                            /\ u \in Standers(n) <=> Counts(iter[u], n)
                            /\ u \in Standers(n)' <=> Counts(iter'[u], n)
  BY DEF Fetchers, Standers, Counts
<1>3. CASE n \in Linked /\ element'[n].refs = element[n].refs + (IF held'[t].node = n THEN 1 ELSE 0)
                                                    - (IF held[t].node = n THEN 1 ELSE 0)
                                                    + (IF Counts(iter'[t], n) THEN 1 ELSE 0)
                                                    - (IF Counts(iter[t], n) THEN 1 ELSE 0)
  <2>1. /\ Cardinality(Fetchers(n)) \in Nat /\ Cardinality(Fetchers(n)') \in Nat
        /\ Cardinality(Fetchers(n)') = Cardinality(Fetchers(n)) + (IF t \in Fetchers(n)' THEN 1 ELSE 0)
                                                                - (IF t \in Fetchers(n) THEN 1 ELSE 0)
    <3>1. \A u \in Threads \ {t} : u \in Fetchers(n) <=> u \in Fetchers(n)'
      BY <1>2
    <3> QED BY <1>2, <3>1, HashAssumption, OneMoves
  <2>2. /\ Cardinality(Standers(n)) \in Nat /\ Cardinality(Standers(n)') \in Nat
        /\ Cardinality(Standers(n)') = Cardinality(Standers(n)) + (IF t \in Standers(n)' THEN 1 ELSE 0)
                                                                - (IF t \in Standers(n) THEN 1 ELSE 0)
    <3>1. \A u \in Threads \ {t} : u \in Standers(n) <=> u \in Standers(n)'
      BY <1>2
    <3> QED BY <1>2, <3>1, HashAssumption, OneMoves
  <2>3. element[n].refs = 1 + Cardinality(Fetchers(n)) + Cardinality(Standers(n))
    BY <1>3, RefsAre DEF IInv
  <2> DEFINE f == Cardinality(Fetchers(n))
             g == Cardinality(Fetchers(n)')
             s == Cardinality(Standers(n))
             r == Cardinality(Standers(n)')
             x == held'[t].node = n
             y == held[t].node = n
             z == Counts(iter'[t], n)
             w == Counts(iter[t], n)
  <2>4. /\ f \in Nat /\ g \in Nat /\ s \in Nat /\ r \in Nat
        /\ g = f + (IF x THEN 1 ELSE 0) - (IF y THEN 1 ELSE 0)
        /\ r = s + (IF z THEN 1 ELSE 0) - (IF w THEN 1 ELSE 0)
    BY <1>2, <2>1, <2>2
  <2>5. element'[n].refs = 1 + f + s + (IF x THEN 1 ELSE 0) - (IF y THEN 1 ELSE 0)
                                 + (IF z THEN 1 ELSE 0) - (IF w THEN 1 ELSE 0)
    BY <1>3, <2>3
  <2> HIDE DEF f, g, s, r, x, y, z, w
  <2>6. element'[n].refs = 1 + g + r
    BY <2>4, <2>5
  <2> QED BY <2>6 DEF g, r
<1>4. CASE element'[n].refs = 1 /\ \A u \in Threads : held'[u].node # n /\ ~ Counts(iter'[u], n)
  <2>1. Fetchers(n)' = {} /\ Standers(n)' = {}
    BY <1>2, <1>4
  <2> QED BY <1>4, <2>1, FS_EmptySet
<1> QED BY <1>3, <1>4

-----------------------------------------------------------------------------
(***************************************************************************)
(* The number of elements                                                  *)
(***************************************************************************)
At(place, ops) == {t \in Threads : pc[t] = place /\ call[t].op \in ops}

\* What the threads have added and not counted, and the other way round.
Uncounted == Cardinality(At("count", Adding))
AnnouncedEarly    == Cardinality(At("lock", {"addS"}))
AnnouncedLate    == Cardinality(At("locked", {"addS"}))
Removed   == Cardinality(At("count", {"remove", "xFetchRemove"}))

LEMMA CountIs ==
  /\ CountAccounted <=> numberOfElements + Uncounted = Cardinality(Linked) + AnnouncedEarly + AnnouncedLate + Removed
  /\ CountAccounted' <=> numberOfElements' + Uncounted' = Cardinality(Linked') + AnnouncedEarly' + AnnouncedLate' + Removed'
<1>1. \A place, ops : /\ At(place, ops) = {t \in Threads : pc[t] = place /\ call[t].op \in ops}
                      /\ At(place, ops)' = {t \in Threads : pc'[t] = place /\ call'[t].op \in ops}
  BY DEF At
<1> QED BY <1>1 DEF CountAccounted, Uncounted, AnnouncedEarly, AnnouncedLate, Removed

LEMMA CountMoves ==
  ASSUME NEW t \in Threads, \A u \in Threads \ {t} : pc'[u] = pc[u] /\ call'[u] = call[u], NEW place, NEW ops
  PROVE  /\ Cardinality(At(place, ops)) \in Nat
         /\ Cardinality(At(place, ops)') \in Nat
         /\ Cardinality(At(place, ops)') =
              Cardinality(At(place, ops)) + (IF pc'[t] = place /\ call'[t].op \in ops THEN 1 ELSE 0)
                                          - (IF pc[t] = place /\ call[t].op \in ops THEN 1 ELSE 0)
<1>1. /\ At(place, ops) \in SUBSET Threads /\ At(place, ops)' \in SUBSET Threads
      /\ \A u \in Threads : /\ u \in At(place, ops) <=> pc[u] = place /\ call[u].op \in ops
                            /\ u \in At(place, ops)' <=> pc'[u] = place /\ call'[u].op \in ops
  BY DEF At
<1>2. \A u \in Threads \ {t} : u \in At(place, ops) <=> u \in At(place, ops)'
  BY <1>1
<1> QED BY <1>1, <1>2, HashAssumption, OneMoves

\* The elements that are in the table and not counted are at most all of them: each
\* of the threads that are about to count has its own bucket.
LEMMA UncountedAreLinked ==
  ASSUME IInv
  PROVE  Uncounted \in Nat /\ Uncounted <= Cardinality(Linked)
<1> DEFINE S == At("count", Adding)
           f == [t \in S |-> CHOOSE n : n \in Range(Chain(call[t].ref))]
<1>1. ASSUME NEW t \in S
      PROVE  /\ t \in Threads /\ Bucket(call[t].ref) \in Buckets
             /\ f[t] \in Range(ppHashChains[Bucket(call[t].ref)])
             /\ pBucketLock[Bucket(call[t].ref)] = t
  <2>1. t \in Threads /\ pc[t] = "count" /\ call[t].op \in Adding
    BY DEF At
  <2>2. Bucket(call[t].ref) \in Buckets /\ pBucketLock[Bucket(call[t].ref)] = t
    BY <2>1, Owner DEF Busy
  <2>3. Chain(call[t].ref) # <<>> /\ Chain(call[t].ref) \in Seq(Nodes)
    BY <2>1, <2>2, Typed DEF IInv, ToCountIsThere, Chain, TInv, TableType
  <2>4. Chain(call[t].ref)[1] \in Range(Chain(call[t].ref))
    BY <2>3 DEF Range
  <2> QED BY <2>1, <2>2, <2>4 DEF Chain
<1>2. \A n : n \in Linked <=> \E b \in Buckets : n \in Range(ppHashChains[b])
  BY Typed, LinkedIs DEF TInv, TableType
<1>3. f \in [S -> Linked]
  BY <1>1, <1>2
<1>4. ASSUME NEW t \in S, NEW u \in S, t # u PROVE f[t] # f[u]
  <2> HIDE DEF f
  <2>1. Bucket(call[t].ref) # Bucket(call[u].ref)
    BY <1>1, <1>4, SMTT(30)
  <2> QED BY <1>1, <2>1, Typed DEF TInv, OnePlace
<1>5. IsFiniteSet(Linked) /\ IsFiniteSet(S)
  BY Typed, LinkedIs, HashAssumption, FS_Subset DEF TInv, TableType, At
<1>6. Cardinality(S) <= Cardinality(Linked)
  <2>1. f \in Injection(S, Linked)
    <3> HIDE DEF f, S
    <3> QED BY <1>3, <1>4 DEF Injection, IsInjective
  <2> HIDE DEF f, S
  <2> QED BY <1>5, <2>1, FS_Injection
<1> QED BY <1>5, <1>6, FS_CardinalityType DEF Uncounted

-----------------------------------------------------------------------------
(***************************************************************************)
(* What the methods do to the table                                        *)
(***************************************************************************)
\* remove and xFetchRemove, when they take the element out.
Takes(t, v) ==
  /\ pc[t] = "locked" /\ Find(call[t].ref) = v /\ v # None
  /\ (call[t].op = "remove" /\ element[v].refs - 1 = 0) \/ call[t].op = "xFetchRemove"
  /\ Unlink(v)
  /\ pc' = [pc EXCEPT ![t] = "count"]
  /\ UNCHANGED <<usage, bucketCounter, numberOfElements, pBucketLock, call, held>>

Still == UNCHANGED <<usage, tableVars, held>>

LEMMA StepKinds ==
  ASSUME IInv, NEW t \in Threads, LockBucket(t) \/ Step(t)
  PROVE  /\ pc'[t] \in {"first", "lock", "locked"} => pc[t] \in {"first", "lock"} /\ call'[t] = call[t]
         /\ call'[t].node # None => XFetch(t)
         /\ \/ Still /\ pc'[t] # "count"
            \/ Fetch(t) \/ Release(t) \/ Link(t)
            \/ \E v \in Nodes : Takes(t, v)
<1>1. ThreadsType /\ CallFits(t) /\ XFits(t)
  BY Typed DEF IInv
<1>2. CASE LockBucket(t) \/ Duplicate(t) \/ NotFound(t)
  <2>1. /\ Still /\ call' = call
        /\ \/ pc[t] = "lock" /\ pc'[t] = "locked"
           \/ pc[t] = "locked" /\ pc'[t] \in {"unlock", "exclusive"}
    BY <1>1, <1>2 DEF LockBucket, Duplicate, NotFound, Goto, ThreadsType, Still
  <2> QED BY <1>1, <2>1 DEF XFits
<1>3. CASE Link(t) \/ Fetch(t) \/ Release(t)
  <2>1. call' = call /\ pc[t] = "locked" /\ pc'[t] \in {"unlock", "count"}
    <3>1. CASE Link(t)
      BY <1>1, <3>1 DEF Link, Goto, ThreadsType
    <3>2. CASE Fetch(t) \/ Release(t)
      BY <1>1, <3>2 DEF Fetch, Release, Found, Goto, ThreadsType
    <3> QED BY <1>3, <3>1, <3>2
  <2> QED BY <1>1, <1>3, <2>1 DEF XFits
<1>4. CASE RemoveElement(t) \/ XFetchRemove(t)
  <2>1. /\ call' = call /\ pc[t] = "locked" /\ Find(call[t].ref) # None /\ pc'[t] \in {"unlock", "count"}
        /\ \/ Still /\ pc'[t] # "count"
           \/ Takes(t, Find(call[t].ref))
    <3>1. CASE RemoveElement(t) /\ element[Find(call[t].ref)].refs - 1 = 0
      BY <1>1, <3>1 DEF RemoveElement, Found, Goto, ThreadsType, Takes
    <3>2. CASE RemoveElement(t) /\ element[Find(call[t].ref)].refs - 1 # 0
      BY <1>1, <3>2 DEF RemoveElement, Found, Goto, ThreadsType, Still, tableVars
    <3>3. CASE XFetchRemove(t)
      BY <1>1, <3>3 DEF XFetchRemove, Found, Goto, ThreadsType, Takes
    <3> QED BY <1>4, <3>1, <3>2, <3>3
  <2>2. Find(call[t].ref) \in Nodes
    BY <2>1, Owner, FindIs, Typed DEF Busy
  <2> QED BY <1>1, <2>1, <2>2 DEF XFits
<1>5. CASE XFetch(t)
  <2>1. Still /\ pc[t] = "locked" /\ pc'[t] = "exclusive"
    BY <1>1, <1>5 DEF XFetch, Found, Goto, ThreadsType, Still
  <2> QED BY <1>5, <2>1
<1>6. CASE Count(t)
  <2>1. /\ Still /\ call' = call
        /\ \/ pc[t] = "first" /\ pc'[t] = "lock"
           \/ pc[t] = "count" /\ pc'[t] \in {"unlock", "exclusive"}
    <3>1. CASE pc[t] = "first"
      <4>1. call[t].op # "xFetchRemove"
        BY <1>1, <3>1 DEF CallFits
      <4> QED BY <1>1, <1>6, <3>1, <4>1 DEF Count, Goto, ThreadsType, Still
    <3>2. CASE pc[t] = "count"
      BY <1>1, <1>6, <3>2 DEF Count, Goto, ThreadsType, Still
    <3> QED BY <1>6, <3>1, <3>2 DEF Count
  <2> QED BY <1>1, <2>1 DEF XFits
<1>7. CASE Unlock(t) \/ XRelease(t)
  <2>1. Still /\ pc'[t] = "idle" /\ call'[t] = NoCall
    BY <1>1, <1>7 DEF Unlock, XRelease, Return, Goto, ThreadsType, Still
  <2> QED BY <2>1 DEF NoCall
<1> QED BY <1>2, <1>3, <1>4, <1>5, <1>6, <1>7 DEF Step

\* The node is new in the chain of bucket b.
Grown(b, n) ==
  /\ usage' = usage /\ n \in Nodes \ Linked /\ Linked' = Linked \cup {n}
  /\ Cardinality(Linked') = Cardinality(Linked) + 1
  /\ \A c \in Buckets : \A m : m \in Range(ppHashChains'[c]) <=> m \in Range(ppHashChains[c]) \/ (c = b /\ m = n)
  /\ \A c \in Buckets : c # b => ppHashChains'[c] = ppHashChains[c]
  /\ \A c \in Buckets : \A x, y :
       /\ Precedes(ppHashChains[c], x, y) => Precedes(ppHashChains'[c], x, y)
       /\ Precedes(ppHashChains'[c], x, y) => Precedes(ppHashChains[c], x, y) \/ x = n \/ y = n
  /\ \A m \in Nodes \ {n} : element'[m] = element[m]

IdOf(t) == LET b == Bucket(call[t].ref)
           IN  IF call[t].op \in Generating THEN NewId(b)
               ELSE IF call[t].op = "addGiven" THEN call[t].ref ELSE 0

\* A node appended to a list comes before none.
LEMMA LastOfAll ==
  ASSUME NEW S, NEW q \in Seq(S), NEW m \in S, m \notin Range(q)
  PROVE  \A y : ~ Precedes(Append(q, m), m, y)
<1>1. /\ Len(q) \in Nat /\ Len(Append(q, m)) = Len(q) + 1
      /\ \A i \in 1..Len(q) : Append(q, m)[i] = q[i] /\ q[i] # m
  BY DEF Range
<1> SUFFICES ASSUME NEW y, NEW i \in 1..Len(Append(q, m)), NEW j \in 1..Len(Append(q, m)), i < j,
                    Append(q, m)[i] = m
             PROVE  FALSE
  BY DEF Precedes
<1>2. i \in 1..Len(q)
  BY <1>1
<1> QED BY <1>1, <1>2

LEMMA LinkIs ==
  ASSUME IInv, NEW t \in Threads, Link(t)
  PROVE  LET b == Bucket(call[t].ref)
         IN  /\ b \in Buckets /\ call[t].op \in Adding /\ pc[t] = "locked"
             /\ TableType' /\ OnePlace' /\ Placed' /\ IdOf(t) \in Ids
             /\ bucketCounter' = [bucketCounter EXCEPT ![b] =
                  IF call[t].op \in Generating THEN Counter(b) + 1
                  ELSE IF call[t].op = "addGiven" THEN CounterAfter(b, call[t].ref) ELSE @]
             /\ \E n \in Nodes : /\ Grown(b, n)
                                 /\ element'[n] = [key |-> call[t].key, id |-> IdOf(t), refs |-> 1]
                                 /\ call[t].op = "addS" => \A y : ~ Precedes(ppHashChains'[b], n, y)
<1> DEFINE b == Bucket(call[t].ref)
           op == call[t].op
           e == [key |-> call[t].key, id |-> IdOf(t), refs |-> 1]
<1>1. /\ pc[t] = "locked" /\ op \in Adding /\ usage' = usage
      /\ \E n \in Nodes \ Linked : element' = [element EXCEPT ![n] = e] /\ Push(b, n, op)
      /\ bucketCounter' = [bucketCounter EXCEPT ![b] =
           IF op \in Generating THEN Counter(b) + 1
           ELSE IF op = "addGiven" THEN CounterAfter(b, call[t].ref) ELSE @]
  <2>1. PICK n \in Free : element' = [element EXCEPT ![n] = e] /\ Push(b, n, op)
    BY DEF Link, IdOf
  <2>2. n \in Nodes \ Linked
    BY DEF Free
  <2> QED BY <2>1, <2>2 DEF Link
<1>2. b \in Buckets /\ call[t].ref \in Keys \cup Nat /\ CallFits(t) /\ TInv
  BY <1>1, Owner, Typed DEF Busy, IInv
<1>3. /\ usage \in Usages /\ bucketCounter \in [Buckets -> Nat] /\ ppHashChains \in [Buckets -> Seq(Nodes)]
  BY <1>2 DEF TInv, TableType
<1>4. /\ op = "addGiven" => usage # "key" /\ call[t].ref \in Ids /\ call[t].key \in Keys
      /\ op # "addGiven" => op \in AddOps[usage] /\ call[t].ref \in Keys /\ call[t].key = call[t].ref
  BY <1>1, <1>2 DEF CallFits
<1>5. /\ Counter(b) \in Nat /\ Limit(b) \in Nat
      /\ NewId(b) \in Ids /\ Bucket(NewId(b)) = b
      /\ NewId(b) \div numberOfBuckets = Counter(b)
  BY <1>2, GeneratedIds DEF TInv
<1>6. 0 \in Ids /\ Ids \cap Keys = {} /\ Ids \subseteq Nat
  BY HashAssumption DEF Ids
<1>7. IdOf(t) \in Ids /\ e \in [key : Keys, id : Ids, refs : Nat]
  BY <1>4, <1>5, <1>6 DEF IdOf
<1>8. b = Bucket(IF usage = "key" THEN e.key ELSE e.id)
  <2>1. CASE usage = "key"
    BY <1>4, <2>1
  <2>2. CASE usage # "key"
    <3>1. op \in Generating \/ op = "addGiven"
      BY <1>3, <1>4, <2>2, OpsAre
    <3>2. op = "addGiven" => op \notin Generating
      BY DEF Generating
    <3> QED BY <1>5, <2>2, <3>1, <3>2 DEF IdOf
  <2> QED BY <2>1, <2>2
<1>9. PICK n \in Nodes \ Linked : element' = [element EXCEPT ![n] = e] /\ Push(b, n, op)
  BY <1>1
<1> DEFINE q == ppHashChains[b]
           chain == IF op = "addS" THEN Append(q, n) ELSE <<n>> \o q
<1>10. ppHashChains' = [ppHashChains EXCEPT ![b] = chain]
  BY <1>2, <1>3, <1>9 DEF Push
<1>11. chain \in {Append(ppHashChains[b], n), <<n>> \o ppHashChains[b]}
  OBVIOUS
<1>12. e.key \in Keys /\ e.id \in Ids
  BY <1>7
<1> HIDE DEF chain, e, b, op
<1>13. /\ ppHashChains' \in [Buckets -> Seq(Nodes)]
       /\ element' \in [Nodes -> [key : Keys \cup {None}, id : Ids, refs : Nat]]
       /\ OnePlace' /\ Placed'
       /\ Linked' = Linked \cup {n} /\ Cardinality(Linked') = Cardinality(Linked) + 1
       /\ \A c \in Buckets : \A m : m \in Range(ppHashChains'[c]) <=>
                                      m \in Range(ppHashChains[c]) \/ (c = b /\ m = n)
       /\ \A c \in Buckets : c # b => ppHashChains'[c] = ppHashChains[c]
       /\ \A c \in Buckets : \A x, y :
            /\ Precedes(ppHashChains[c], x, y) => Precedes(ppHashChains'[c], x, y)
            /\ Precedes(ppHashChains'[c], x, y) => Precedes(ppHashChains[c], x, y) \/ x = n \/ y = n
  BY <1>1, <1>2, <1>7, <1>8, <1>9, <1>10, <1>11, NodeAdded
<1>14. \A m \in Nodes \ {n} : element'[m] = element[m]
  BY <1>2, <1>9 DEF TInv, TableType
<1>15. element'[n] = e
  BY <1>2, <1>9 DEF TInv, TableType
<1>16. Grown(b, n)
  BY <1>1, <1>9, <1>13, <1>14 DEF Grown
<1>17. op = "addS" => \A y : ~ Precedes(ppHashChains'[b], n, y)
  <2>1. n \notin Range(ppHashChains[b]) /\ ppHashChains[b] \in Seq(Nodes)
    BY <1>2, <1>3, <1>9 DEF Linked
  <2>2. op = "addS" => ppHashChains'[b] = Append(ppHashChains[b], n)
    BY <1>2, <1>3, <1>10 DEF chain
  <2> QED BY <2>1, <2>2, LastOfAll
<1>18. bucketCounter' \in [Buckets -> Nat]
  <2>1. op = "addGiven" => CounterAfter(b, call[t].ref) \in Nat
    <3>1. ASSUME op = "addGiven" PROVE (call[t].ref - b) \div numberOfBuckets \in Nat
      <4>1. call[t].ref \in Nat /\ call[t].ref \notin Keys /\ b = call[t].ref % numberOfBuckets
        BY <1>4, <1>6, <3>1 DEF op, b, Bucket
      <4>2. numberOfBuckets \in Nat \ {0}
        BY HashAssumption
      <4>3. call[t].ref - (call[t].ref % numberOfBuckets) \in Nat
        BY <4>1, <4>2
      <4> QED BY <4>1, <4>2, <4>3
    <3> QED BY <1>2, <1>3, <1>5, <3>1 DEF CounterAfter
  <2> QED BY <1>1, <1>2, <1>3, <1>5, <2>1 DEF op
<1>19. TableType'
  BY <1>1, <1>3, <1>13, <1>18 DEF TableType
<1> QED BY <1>1, <1>2, <1>7, <1>9, <1>13, <1>15, <1>16, <1>17, <1>19 DEF b, op, e

\* The element is the first that the reference leads to, and nobody has it.
LEMMA TakesIs ==
  ASSUME IInv, NEW t \in Threads, Method(t), NEW v \in Nodes, Takes(t, v)
  PROVE  LET b == Bucket(call[t].ref)
         IN  /\ b \in Buckets /\ v \in Range(ppHashChains[b]) /\ v \in Linked
             /\ TableType' /\ OnePlace' /\ Placed' /\ Shrunk({v})
             /\ Linked' = Linked \ {v} /\ Cardinality(Linked') = Cardinality(Linked) - 1
             /\ \A m \in Nodes \ {v} : element'[m] = element[m]
             /\ \A u \in Threads : held[u].node # v /\ call[u].node # v /\ iter[u].node # v
<1> DEFINE b == Bucket(call[t].ref)
<1>1. /\ pc[t] = "locked" /\ Find(call[t].ref) = v /\ v # None /\ Unlink(v) /\ usage' = usage
      /\ UNCHANGED <<bucketCounter, call, held>>
      /\ (call[t].op = "remove" /\ element[v].refs - 1 = 0) \/ call[t].op = "xFetchRemove"
  BY DEF Takes
<1>2. b \in Buckets /\ call[t].ref \in Keys \cup Nat /\ CallFits(t) /\ TInv /\ ItersType /\ ThreadsType
  BY <1>1, Owner, Typed DEF Busy, IInv
<1>3. /\ ppHashChains \in [Buckets -> Seq(Nodes)] /\ usage \in Usages
      /\ element \in [Nodes -> [key : Keys \cup {None}, id : Ids, refs : Nat]]
      /\ bucketCounter \in [Buckets -> Nat]
  BY <1>2 DEF TInv, TableType
<1>4. v \in Range(ppHashChains[b])
  BY <1>1, <1>2, FindIs DEF IsFirst, Chain
<1>5. v \in Linked /\ Linked \subseteq Nodes
  BY <1>2, <1>3, <1>4, LinkedIs
<1>6. ppHashChains' = Without(v) /\ element' = [element EXCEPT ![v] = NoElement]
  BY <1>1 DEF Unlink
<1>7. \A m \in Nodes \ {v} : element'[m] = element[m]
  BY <1>3, <1>6
<1>8. /\ ppHashChains' \in [Buckets -> Seq(Nodes)]
      /\ OnePlace' /\ Placed'
      /\ Linked' = Linked \ {v} /\ Cardinality(Linked') = Cardinality(Linked) - 1
      /\ \A c \in Buckets : \A m : m \in Range(ppHashChains'[c]) <=> m \in Range(ppHashChains[c]) /\ m # v
      /\ \A c \in Buckets : v \notin Range(ppHashChains[c]) => ppHashChains'[c] = ppHashChains[c]
      /\ \A c \in Buckets : \A x, y :
           Precedes(ppHashChains'[c], x, y) <=> Precedes(ppHashChains[c], x, y) /\ x # v /\ y # v
  BY <1>1, <1>2, <1>5, <1>6, <1>7, NodeRemoved, ZenonT(30)
<1>9. Shrunk({v})
  BY <1>1, <1>7, <1>8 DEF Shrunk
<1>10. TableType'
  <2>1. NoElement \in [key : Keys \cup {None}, id : Ids, refs : Nat]
    BY BucketsAre, HashAssumption DEF NoElement, Ids
  <2> QED BY <1>1, <1>3, <1>6, <1>8, <2>1 DEF TableType
<1>11. ASSUME NEW u \in Threads PROVE call[u].node # v
  <2> SUFFICES ASSUME call[u].node = v PROVE FALSE
    OBVIOUS
  <2>1. pc[u] = "exclusive" /\ v \in Range(ppHashChains[Bucket(call[u].ref)])
    BY <1>1 DEF IInv, XFits, Chain
  <2>2. /\ Bucket(call[u].ref) \in Buckets /\ pBucketLock[Bucket(call[u].ref)] = u
        /\ pBucketLock[b] = t /\ u # t
    BY <1>1, <2>1, Owner DEF Busy
  <2> QED BY <1>2, <1>4, <2>1, <2>2 DEF TInv, OnePlace
<1>12. CASE call[t].op = "remove" /\ element[v].refs - 1 = 0
  <2>1. element[v].refs = 1
    BY <1>3, <1>12
  <2>2. \A u \in Threads : held[u].node # v /\ ~ Counts(iter[u], v)
    BY <1>5, <2>1, OneReference
  <2>3. ASSUME NEW u \in Threads, iter[u].node = v PROVE FALSE
    <3>1. IterFits(u) /\ iter[u].kind \in Kinds /\ iter[u].place \in {"stand", "init", "next", "walk"}
      BY <1>2 DEF IInv, ItersType, IterType
    <3>2. iter[u].place # "init"
      <4> SUFFICES ASSUME iter[u].place = "init" PROVE FALSE
        OBVIOUS
      <4>1. call'[t].op \in Adding \cup {"none"}
        BY DEF Method, Initialising
      <4> QED BY <1>1, <1>12, <4>1 DEF Adding
    <3>3. v \in Range(ppHashChains[iter[u].bucket]) /\ iter[u].bucket \in Buckets
      BY <1>1, <1>2, <2>3, <3>1 DEF IterFits, ItersType, IterType
    <3>4. iter[u].kind \in Excl /\ iter[u].place = "stand"
      BY <1>1, <2>2, <2>3, <3>1, <3>2 DEF IterFits, Counts, Kinds, NoIterator, Excl, Shared
    <3>5. Has(u, iter[u].bucket)
      BY <1>1, <2>3, <3>4 DEF Has
    <3>6. u # t
      BY <3>4, MethodIters DEF Excl
    <3>7. iter[u].bucket # b
      BY <1>1, <3>5, <3>6, Owner DEF Busy
    <3> QED BY <1>2, <1>4, <3>3, <3>7 DEF TInv, OnePlace
  <2> QED BY <1>1, <1>2, <1>4, <1>5, <1>7, <1>8, <1>9, <1>10, <1>11, <2>2, <2>3
<1>13. CASE call[t].op = "xFetchRemove"
  <2>1. usage = "exclusive"
    BY <1>2, <1>3, <1>13, OpsAre DEF CallFits, Looking
  <2>2. ASSUME NEW u \in Threads PROVE held[u].node # v /\ iter[u].node # v
    <3>1. HeldFits(u) /\ IterFits(u) /\ iter[u].kind \in Kinds /\ destroying = None /\ None \notin Threads
      BY <1>2, HashAssumption, MethodIters DEF IInv, ItersType, IterType
    <3>2. held[u] = Nothing
      BY <2>1, <3>1 DEF HeldFits
    <3>3. iter[u] = NoIterator
      BY <2>1, <3>1 DEF IterFits, Kinds, Excl, Shared
    <3> QED BY <1>1, <3>2, <3>3 DEF Nothing, NoIterator
  <2> QED BY <1>1, <1>2, <1>4, <1>5, <1>7, <1>8, <1>9, <1>10, <1>11, <2>2
<1> QED BY <1>1, <1>12, <1>13

LEMMA MethodKinds ==
  ASSUME IInv, NEW t \in Threads, Method(t)
  PROVE  /\ call'[t].node # None => XFetch(t)
         /\ \/ Still /\ pc'[t] # "count"
            \/ Fetch(t) \/ Release(t) \/ Link(t)
            \/ \E v \in Nodes : Takes(t, v)
<1>1. CASE Calls(t)
  <2>1. PICK op, ref, key : Begin(t, op, ref, key) /\ Legal(t, op, ref, key)
    BY <1>1, BeginIs
  <2>2. call'[t].node = None
    <3>1. call'[t] = [op |-> op, ref |-> ref, key |-> key, node |-> None]
      BY <2>1, BeginCalls
    <3> QED BY <3>1
  <2>3. Still /\ pc'[t] # "count"
    BY <2>1, Typed DEF Begin, Goto, Still, ThreadsType
  <2> QED BY <2>2, <2>3
<1>2. CASE LockBucket(t) \/ Step(t)
  BY <1>2, StepKinds
<1> QED BY <1>1, <1>2 DEF Method

\* fetch and release change one reference count, and what the thread has.
LEMMA FetchIs ==
  ASSUME IInv, NEW t \in Threads, Fetch(t) \/ Release(t)
  PROVE  \E n \in Linked :
           /\ SameTable /\ TableType' /\ n \in Nodes /\ bucketCounter' = bucketCounter
           /\ call' = call /\ pc'[t] = "unlock" /\ pc[t] = "locked"
           /\ call[t].ref \in References /\ IsFirst(n, call[t].ref)
           /\ \A m \in Nodes \ {n} : element'[m] = element[m]
           /\ \/ /\ element'[n].refs = element[n].refs + 1 /\ held[t] = Nothing
                 /\ held'[t] = [ref |-> call[t].ref, node |-> n] /\ usage \in {"key", "id"}
              \/ element'[n].refs = element[n].refs - 1 /\ held'[t] = Nothing /\ held[t].node = n
<1> DEFINE n == Find(call[t].ref)
           d == IF Fetch(t) THEN 1 ELSE -1
<1>1. /\ pc[t] = "locked" /\ n # None /\ usage' = usage /\ pc' = [pc EXCEPT ![t] = "unlock"]
      /\ UNCHANGED <<ppHashChains, bucketCounter, call>>
      /\ \/ /\ call[t].op = "fetch" /\ element' = [element EXCEPT ![n].refs = @ + 1]
            /\ held' = [held EXCEPT ![t] = [ref |-> call[t].ref, node |-> n]]
         \/ /\ call[t].op = "release" /\ element' = [element EXCEPT ![n].refs = @ - 1]
            /\ held' = [held EXCEPT ![t] = Nothing]
  BY DEF Fetch, Release, Found, Goto
<1>2. call[t].ref \in Keys \cup Nat /\ CallFits(t) /\ TInv /\ ThreadsType /\ HeldFits(t)
  BY <1>1, Owner, Typed DEF Busy, IInv
<1>3. /\ ppHashChains \in [Buckets -> Seq(Nodes)] /\ usage \in Usages
      /\ element \in [Nodes -> [key : Keys \cup {None}, id : Ids, refs : Nat]]
      /\ bucketCounter \in [Buckets -> Nat]
  BY <1>2 DEF TInv, TableType
<1>4. n \in Nodes /\ IsFirst(n, call[t].ref) /\ \A m : IsFirst(m, call[t].ref) => n = m
  BY <1>1, <1>2, FindIs
<1>5. call[t].ref \in References
  BY <1>1, <1>2 DEF CallFits, Looking
<1>6. n \in Linked
  BY <1>4, <1>5, <1>2, ReferencesAre DEF IsFirst, Chain, Linked
<1>7. call[t].op = "fetch" => held[t] = Nothing /\ usage \in {"key", "id"}
  BY <1>1, <1>2, <1>3, OpsAre DEF CallFits, Looking
<1>8. call[t].op = "release" => held[t] # Nothing /\ held[t].node = n
  <2>1. call[t].op = "release" => held[t] # Nothing /\ held[t].ref = call[t].ref
    BY <1>1, <1>2 DEF CallFits
  <2> QED BY <1>2, <1>4, <2>1 DEF HeldFits
<1> HIDE DEF n
<1>9. element[n].refs \in Nat /\ (call[t].op = "release" => element[n].refs >= 2)
  BY <1>2, <1>3, <1>4, <1>6, <1>8, OneReference
<1>10. PICK r \in Nat : /\ element' = [element EXCEPT ![n].refs = r]
                        /\ call[t].op = "fetch" => r = element[n].refs + 1
                        /\ call[t].op = "release" => r = element[n].refs - 1
  <2>1. CASE call[t].op = "fetch"
    <3>1. element' = [element EXCEPT ![n].refs = element[n].refs + 1]
      BY <1>1, <2>1
    <3>2. element[n].refs + 1 \in Nat
      BY <1>9
    <3> QED BY <2>1, <3>1, <3>2
  <2>2. CASE call[t].op = "release"
    <3>1. element' = [element EXCEPT ![n].refs = element[n].refs - 1]
      BY <1>1, <2>2
    <3>2. element[n].refs - 1 \in Nat
      BY <1>9, <2>2
    <3> QED BY <2>2, <3>1, <3>2
  <2> QED BY <1>1, <2>1, <2>2
<1>11. /\ element' \in [Nodes -> [key : Keys \cup {None}, id : Ids, refs : Nat]]
       /\ element'[n].refs = r /\ element'[n].key = element[n].key /\ element'[n].id = element[n].id
       /\ \A m \in Nodes \ {n} : element'[m] = element[m]
  BY <1>3, <1>4, <1>10
<1>12. SameTable
  <2>1. \A m \in Nodes : element'[m].key = element[m].key /\ element'[m].id = element[m].id
    BY <1>11
  <2> QED BY <1>1, <2>1 DEF SameTable
<1>13. TableType'
  BY <1>1, <1>3, <1>11 DEF TableType
<1>14. \/ /\ element'[n].refs = element[n].refs + 1 /\ held[t] = Nothing
          /\ held'[t] = [ref |-> call[t].ref, node |-> n] /\ usage \in {"key", "id"}
       \/ element'[n].refs = element[n].refs - 1 /\ held'[t] = Nothing /\ held[t].node = n
  <2>1. CASE call[t].op = "fetch"
    <3>1. held'[t] = [ref |-> call[t].ref, node |-> n]
      BY <1>1, <1>2, <2>1 DEF ThreadsType
    <3> QED BY <1>7, <1>10, <1>11, <2>1, <3>1
  <2>2. CASE call[t].op = "release"
    <3>1. held'[t] = Nothing
      BY <1>1, <1>2, <2>2 DEF ThreadsType
    <3> QED BY <1>8, <1>10, <1>11, <2>2, <3>1
  <2> QED BY <1>1, <2>1, <2>2
<1>15. pc'[t] = "unlock"
  BY <1>1, <1>2 DEF ThreadsType
<1> QED BY <1>1, <1>4, <1>5, <1>6, <1>11, <1>12, <1>13, <1>14, <1>15

\* Whatever the method does, the table is one, and either nothing was added to it or
\* a node was linked.
LEMMA MethodTable ==
  ASSUME IInv, NEW t \in Threads, Method(t)
  PROVE  /\ TableType' /\ OnePlace' /\ Placed'
         /\ \/ Link(t)
            \/ /\ bucketCounter' = bucketCounter
               /\ \E R : /\ Shrunk(R)
                         /\ \A v \in R : v \in Nodes /\ Takes(t, v)
                         /\ \A u \in Threads : R \cap {held[u].node, call[u].node, iter[u].node} = {}
<1>1. TInv
  BY Typed
<1>2. CASE Still
  <2>1. SameTable
    BY <1>2 DEF Still, tableVars, SameTable
  <2>2. OnePlace' /\ Placed' /\ Shrunk({})
    BY <1>1, <2>1, SameIs, SameShrinks
  <2>3. TableType' /\ bucketCounter' = bucketCounter
    BY <1>1, <1>2 DEF Still, tableVars, TableType, TInv
  <2> QED BY <2>2, <2>3
<1>3. CASE Fetch(t) \/ Release(t)
  <2>1. SameTable /\ TableType' /\ bucketCounter' = bucketCounter
    BY <1>3, FetchIs
  <2>2. OnePlace' /\ Placed' /\ Shrunk({})
    BY <1>1, <2>1, SameIs, SameShrinks
  <2> QED BY <2>1, <2>2
<1>4. CASE Link(t)
  BY <1>4, LinkIs
<1>5. CASE \E v \in Nodes : Takes(t, v)
  <2>1. PICK v \in Nodes : Takes(t, v)
    BY <1>5
  <2>2. /\ TableType' /\ OnePlace' /\ Placed' /\ Shrunk({v})
        /\ \A u \in Threads : held[u].node # v /\ call[u].node # v /\ iter[u].node # v
    BY <2>1, TakesIs
  <2>3. bucketCounter' = bucketCounter
    BY <2>1 DEF Takes
  <2>4. \A u \in Threads : {v} \cap {held[u].node, call[u].node, iter[u].node} = {}
    BY <2>2
  <2> QED BY <2>1, <2>2, <2>3, <2>4
<1> QED BY <1>2, <1>3, <1>4, <1>5, MethodKinds

-----------------------------------------------------------------------------
(***************************************************************************)
(* Correlation ids are never given twice                                   *)
(***************************************************************************)
\* The counter that a given id is made from.
LEMMA GivenCounter ==
  ASSUME NEW n \in Nat \ {0}, NEW id \in Nat
  PROVE  (id - (id % n)) \div n = id \div n /\ (id \div n) \in Nat
<1>1. PICK c \in Nat : c = id \div n /\ id - (id % n) = c * n + 0
  OBVIOUS
<1>2. (c * n + 0) \div n = c
  BY CounterAndBucket
<1> QED BY <1>1, <1>2, Zenon

LEMMA AddersAre ==
  ASSUME IInv, NEW b \in Buckets
  PROVE  /\ IsFiniteSet(Adders(b)) /\ Cardinality(Adders(b)) \in Nat
         /\ \A t : t \in Adders(b) <=> /\ t \in Threads /\ call[t].op \in Adding
                                       /\ pc[t] \in {"first", "lock", "locked"} /\ Bucket(call[t].ref) = b
<1>1. IsFiniteSet(Adders(b))
  BY HashAssumption, FS_Subset DEF Adders
<1> QED BY <1>1, FS_CardinalityType DEF Adders

\* The id that Link gives, and the counter that it leaves, in a table of ids.
LEMMA NewIdIsNew ==
  ASSUME IInv, usage # "key", NEW t \in Threads, Link(t)
  PROVE  LET b == Bucket(call[t].ref)
         IN  /\ b \in Buckets /\ t \in Adders(b) /\ bucketCounter' \in [Buckets -> Nat]
             /\ bucketCounter'[b] >= bucketCounter[b] \/ ppHashChains[b] = <<>>
             /\ IdOf(t) \div numberOfBuckets < bucketCounter'[b]
             /\ \A n \in Linked : element[n].id # IdOf(t)
             /\ \A c \in Buckets \ {b} : bucketCounter'[c] = bucketCounter[c]
             /\ \A u \in Adders(b) \ {t} : /\ call[u].op # "addGiven"
                                           /\ bucketCounter[b] + Cardinality(Adders(b)) <= Limit(b) + 1
                                           /\ bucketCounter'[b] = bucketCounter[b] + 1
<1> DEFINE b == Bucket(call[t].ref)
           op == call[t].op
           k == Cardinality(Adders(b))
<1>1. /\ b \in Buckets /\ op \in Adding /\ pc[t] = "locked" /\ IdOf(t) \in Ids
      /\ bucketCounter' = [bucketCounter EXCEPT ![b] =
           IF op \in Generating THEN Counter(b) + 1
           ELSE IF op = "addGiven" THEN CounterAfter(b, call[t].ref) ELSE @]
      /\ TableType'
  BY LinkIs
<1>2. /\ TInv /\ CallFits(t) /\ usage \in Usages /\ bucketCounter \in [Buckets -> Nat]
      /\ ppHashChains \in [Buckets -> Seq(Nodes)]
  BY Typed DEF IInv, TInv, TableType
<1>3. t \in Adders(b) /\ IsFiniteSet(Adders(b)) /\ k \in Nat
  BY <1>1, AddersAre
<1>4. k >= 1 /\ \A u \in Adders(b) \ {t} : k >= 2
  <2>1. k # 0
    BY <1>3, FS_EmptySet
  <2>2. k = 1 => \A u \in Adders(b) : u = t
    BY <1>3, FS_Singleton
  <2> QED BY <1>3, <2>1, <2>2
<1>5. /\ \A n \in Range(ppHashChains[b]) : element[n].id \div numberOfBuckets < bucketCounter[b]
      /\ op = "addGiven" => /\ Adders(b) = {t}
                            /\ \A n \in Linked : element[n].id # call[t].ref
                            /\ call[t].ref \div numberOfBuckets < Limit(b)
      /\ op \in Generating => \/ bucketCounter[b] + k <= Limit(b) + 1
                              \/ Adders(b) = {t} /\ ppHashChains[b] = <<>>
      /\ \A u \in Adders(b) : call[u].op = "addGiven" => Adders(b) = {u}
  BY <1>1, <1>3 DEF IInv, IdsFit
<1>6. op \in Generating \/ op = "addGiven"
  BY <1>1, <1>2, OpsAre DEF CallFits
<1>7. op = "addGiven" => op \notin Generating /\ call[t].ref \in Ids
  BY <1>2 DEF CallFits, Generating
<1>8. /\ Counter(b) \in Nat /\ Limit(b) \in Nat /\ bucketCounter[b] \in Nat
      /\ NewId(b) \in Ids /\ Bucket(NewId(b)) = b /\ NewId(b) \div numberOfBuckets = Counter(b)
  BY <1>1, <1>2, GeneratedIds DEF TInv
<1>9. bucketCounter' \in [Buckets -> Nat] /\ \A c \in Buckets \ {b} : bucketCounter'[c] = bucketCounter[c]
  BY <1>1, <1>2 DEF TableType
<1>10. IdOf(t) = IF op \in Generating THEN NewId(b) ELSE call[t].ref
  BY <1>6, <1>7 DEF IdOf
<1>11. Bucket(IdOf(t)) = b
  BY <1>6, <1>7, <1>8, <1>10
<1>12. \A n \in Linked : element[n].id = IdOf(t) => n \in Range(ppHashChains[b])
  <2> SUFFICES ASSUME NEW c \in Buckets, NEW n \in Range(ppHashChains[c]), element[n].id = IdOf(t)
               PROVE  n \in Range(ppHashChains[b])
    BY DEF Linked
  <2>1. c = Bucket(element[n].id)
    BY <1>2 DEF TInv, Placed
  <2> QED BY <1>11, <2>1
<1> HIDE DEF b, k
<1>13. CASE op \in Generating /\ bucketCounter[b] + k <= Limit(b) + 1
  <2>1. Counter(b) = bucketCounter[b]
    BY <1>3, <1>4, <1>8, <1>13 DEF Counter
  <2>2. bucketCounter'[b] = bucketCounter[b] + 1
    BY <1>1, <1>2, <1>13, <2>1
  <2>3. \A n \in Linked : element[n].id # IdOf(t)
    <3> SUFFICES ASSUME NEW n \in Linked, element[n].id = IdOf(t) PROVE FALSE
      OBVIOUS
    <3>1. element[n].id \div numberOfBuckets < bucketCounter[b]
      BY <1>5, <1>12
    <3>2. element[n].id \div numberOfBuckets = bucketCounter[b]
      BY <1>8, <1>10, <1>13, <2>1
    <3> QED BY <1>8, <3>1, <3>2
  <2>4. \A u \in Adders(b) \ {t} : call[u].op # "addGiven"
    BY <1>3, <1>5
  <2>5. IdOf(t) \div numberOfBuckets < bucketCounter'[b] /\ bucketCounter'[b] >= bucketCounter[b]
    BY <1>8, <1>10, <1>13, <2>1, <2>2
  <2> QED BY <1>1, <1>3, <1>9, <1>13, <2>2, <2>3, <2>4, <2>5 DEF b, k
<1>14. CASE op \in Generating /\ Adders(b) = {t} /\ ppHashChains[b] = <<>>
  <2>1. bucketCounter'[b] = Counter(b) + 1
    BY <1>1, <1>2, <1>14
  <2>2. IdOf(t) \div numberOfBuckets < bucketCounter'[b]
    BY <1>8, <1>10, <1>14, <2>1
  <2>3. \A n \in Linked : element[n].id # IdOf(t)
    BY <1>12, <1>14 DEF Range
  <2> QED BY <1>1, <1>3, <1>9, <1>14, <2>2, <2>3 DEF b
<1>15. CASE op = "addGiven"
  <2> DEFINE g == call[t].ref \div numberOfBuckets
  <2>1. (call[t].ref - b) \div numberOfBuckets = g /\ g \in Nat
    <3>1. call[t].ref \in Nat /\ call[t].ref \notin Keys
      BY <1>7, <1>15, HashAssumption DEF Ids
    <3>2. b = call[t].ref % numberOfBuckets
      BY <3>1 DEF b, Bucket
    <3> QED BY <3>1, <3>2, GivenCounter, HashAssumption
  <2>2. g < Limit(b) /\ Adders(b) = {t} /\ \A n \in Linked : element[n].id # IdOf(t)
    BY <1>5, <1>7, <1>10, <1>15
  <2>3. bucketCounter'[b] = CounterAfter(b, call[t].ref)
    BY <1>1, <1>2, <1>7, <1>15
  <2>4. IdOf(t) \div numberOfBuckets = g
    BY <1>7, <1>10, <1>15
  <2> HIDE DEF g
  <2>5. g < bucketCounter'[b] /\ bucketCounter'[b] >= bucketCounter[b]
    <3>1. CounterAfter(b, call[t].ref) = IF g < bucketCounter[b] THEN bucketCounter[b]
                                         ELSE IF g + 1 > Limit(b) THEN 1 ELSE g + 1
      BY <2>1 DEF CounterAfter
    <3> QED BY <1>8, <2>1, <2>2, <2>3, <3>1
  <2> QED BY <1>1, <1>3, <1>9, <2>2, <2>4, <2>5 DEF b
<1> QED BY <1>5, <1>6, <1>13, <1>14, <1>15

LEMMA LinkIds ==
  ASSUME IInv, NEW t \in Threads, Link(t), TableType', Placed'
  PROVE  UniqueIds' /\ IdsFit'
<1>0. PICK b \in Buckets : b = Bucket(call[t].ref)
  BY LinkIs
<1>1. usage' = usage /\ call' = call /\ \A u \in Threads \ {t} : pc'[u] = pc[u]
  BY Typed DEF Link, Goto, ThreadsType
<1>2. SUFFICES ASSUME usage # "key" PROVE UniqueIds' /\ IdsFit'
  BY <1>1 DEF UniqueIds, IdsFit
<1>3. /\ b \in Buckets /\ t \in Adders(b) /\ bucketCounter' \in [Buckets -> Nat]
      /\ bucketCounter'[b] >= bucketCounter[b] \/ ppHashChains[b] = <<>>
      /\ IdOf(t) \div numberOfBuckets < bucketCounter'[b]
      /\ \A n \in Linked : element[n].id # IdOf(t)
      /\ \A c \in Buckets \ {b} : bucketCounter'[c] = bucketCounter[c]
      /\ \A u \in Adders(b) \ {t} : /\ call[u].op # "addGiven"
                                    /\ bucketCounter[b] + Cardinality(Adders(b)) <= Limit(b) + 1
                                    /\ bucketCounter'[b] = bucketCounter[b] + 1
  BY <1>0, <1>2, NewIdIsNew
<1>4. PICK n \in Nodes : Grown(b, n) /\ element'[n] = [key |-> call[t].key, id |-> IdOf(t), refs |-> 1]
  BY <1>0, LinkIs
<1>5. /\ n \notin Linked /\ Linked' = Linked \cup {n} /\ Linked \subseteq Nodes
      /\ \A m \in Nodes \ {n} : element'[m] = element[m]
      /\ \A c \in Buckets : \A m : m \in Range(ppHashChains'[c]) <=> m \in Range(ppHashChains[c]) \/ (c = b /\ m = n)
      /\ \A c \in Buckets : c # b => ppHashChains'[c] = ppHashChains[c]
      /\ element'[n].id = IdOf(t)
  BY <1>4, Typed, LinkedIs DEF Grown, TInv, TableType
<1>6. UniqueIds'
  <2>1. \A m, k \in Linked : m # k => element[m].id # element[k].id
    BY <1>2 DEF IInv, UniqueIds
  <2>2. \A m \in Linked : element'[m].id = element[m].id
    BY <1>5
  <2>3. \A m, k \in Linked' : m # k => element'[m].id # element'[k].id
    BY <1>3, <1>5, <2>1, <2>2
  <2> QED BY <2>3 DEF UniqueIds
<1>7. pc'[t] \in {"unlock", "count"} /\ TInv
  BY Typed DEF Link, Goto, ThreadsType
<1>8. \A c \in Buckets : Adders(c)' = Adders(c) \ {t}
  <2>1. \A r : Bucket(r)' = Bucket(r)
    BY DEF Bucket
  <2> QED BY <1>1, <1>7, <2>1 DEF Adders
<1>9. \A c \in Buckets \ {b} : Adders(c)' = Adders(c)
  <2>1. \A c \in Buckets \ {b} : t \notin Adders(c)
    BY <1>0 DEF Adders
  <2> QED BY <1>8, <2>1
<1>10. ASSUME NEW c \in Buckets
       PROVE  /\ \A m \in Range(ppHashChains[c]) : element[m].id \div numberOfBuckets < bucketCounter[c]
              /\ \A u \in Adders(c) :
                   /\ call[u].op = "addGiven" =>
                        /\ Adders(c) = {u}
                        /\ \A m \in Linked : element[m].id # call[u].ref
                        /\ call[u].ref \div numberOfBuckets < Limit(c)
                   /\ call[u].op \in Generating =>
                        \/ bucketCounter[c] + Cardinality(Adders(c)) <= Limit(c) + 1
                        \/ Adders(c) = {u} /\ ppHashChains[c] = <<>>
  BY <1>2 DEF IInv, IdsFit
<1>11. \A c \in Buckets : Range(ppHashChains[c]) \subseteq Linked
  BY DEF Linked
<1>12. ASSUME NEW c \in Buckets, NEW m \in Range(ppHashChains'[c])
       PROVE  element'[m].id \div numberOfBuckets < bucketCounter'[c]
  <2>1. CASE m = n /\ c = b
    BY <1>3, <1>5, <2>1
  <2>2. CASE m \in Range(ppHashChains[c])
    <3>1. element'[m] = element[m] /\ element[m].id \div numberOfBuckets < bucketCounter[c]
      BY <1>5, <1>10, <1>11, <2>2
    <3>2. CASE c # b
      BY <1>3, <3>1, <3>2
    <3>3. CASE c = b
      <4>1. ppHashChains[b] # <<>>
        BY <2>2, <3>3 DEF Range
      <4>2. bucketCounter'[b] >= bucketCounter[b] /\ bucketCounter'[b] \in Nat /\ bucketCounter[b] \in Nat
        BY <1>3, <1>7, <4>1 DEF TInv, TableType
      <4>3. element[m].id \div numberOfBuckets \in Nat
        <5>1. element[m].id \in Nat
          BY <1>5, <1>7, <1>11, <2>2, BucketsAre DEF TInv, TableType
        <5> QED BY <5>1, GivenCounter, HashAssumption
      <4> QED BY <3>1, <3>3, <4>2, <4>3
    <3> QED BY <3>2, <3>3
  <2> QED BY <1>5, <2>1, <2>2
<1>13. ASSUME NEW c \in Buckets \ {b}, NEW u \in Adders(c)'
       PROVE  /\ call[u].op = "addGiven" =>
                   /\ Adders(c)' = {u}
                   /\ \A m \in Linked' : element'[m].id # call[u].ref
                   /\ call[u].ref \div numberOfBuckets < Limit(c)
              /\ call[u].op \in Generating =>
                   \/ bucketCounter'[c] + Cardinality(Adders(c)') <= Limit(c) + 1
                   \/ Adders(c)' = {u} /\ ppHashChains'[c] = <<>>
  <2>1. u \in Adders(c) /\ Adders(c)' = Adders(c) /\ bucketCounter'[c] = bucketCounter[c]
        /\ ppHashChains'[c] = ppHashChains[c] /\ Bucket(call[u].ref) = c /\ u \in Threads
    BY <1>3, <1>5, <1>9 DEF Adders
  <2>2. ASSUME call[u].op = "addGiven", NEW m \in Linked' PROVE element'[m].id # call[u].ref
    <3>1. CASE m \in Linked
      BY <1>5, <1>10, <2>1, <2>2, <3>1
    <3>2. CASE m = n
      <4>1. n \in Range(ppHashChains'[b])
        BY <1>3, <1>5
      <4>2. b = Bucket(element'[n].id)
        <5>1. b = Bucket(IF usage = "key" THEN element[n].key ELSE element[n].id)'
          BY <1>3, <4>1 DEF Placed
        <5> QED BY <1>1, <1>2, <5>1 DEF Bucket
      <4> QED BY <2>1, <3>2, <4>2
    <3> QED BY <1>5, <3>1, <3>2
  <2> QED BY <1>10, <2>1, <2>2
<1>14. ASSUME NEW u \in Adders(b)'
       PROVE  /\ call[u].op # "addGiven"
              /\ bucketCounter'[b] + Cardinality(Adders(b)') <= Limit(b) + 1
  <2>1. u \in Adders(b) \ {t}
    BY <1>3, <1>8
  <2>2. /\ call[u].op # "addGiven"
        /\ bucketCounter[b] + Cardinality(Adders(b)) <= Limit(b) + 1
        /\ bucketCounter'[b] = bucketCounter[b] + 1
    BY <1>3, <2>1
  <2>3. Cardinality(Adders(b)') = Cardinality(Adders(b)) - 1 /\ Cardinality(Adders(b)) \in Nat
    <3>1. IsFiniteSet(Adders(b)) /\ Cardinality(Adders(b)) \in Nat
      BY <1>3, AddersAre
    <3> QED BY <1>3, <1>8, <3>1, FS_RemoveElement
  <2>4. bucketCounter[b] \in Nat /\ Limit(b) \in Nat
    BY <1>3, <1>7, GeneratedIds DEF TInv, TableType
  <2> DEFINE x == Cardinality(Adders(b))
             y == Cardinality(Adders(b)')
  <2> HIDE DEF x, y
  <2>5. y = x - 1 /\ x \in Nat /\ bucketCounter[b] + x <= Limit(b) + 1
    BY <2>2, <2>3 DEF x, y
  <2>6. bucketCounter'[b] + y <= Limit(b) + 1
    BY <2>2, <2>4, <2>5
  <2> QED BY <2>2, <2>6 DEF y
<1>15. \A c \in Buckets : \A u \in Adders(c)' :
         /\ call[u].op = "addGiven" =>
              /\ Adders(c)' = {u}
              /\ \A m \in Linked' : element'[m].id # call[u].ref
              /\ call[u].ref \div numberOfBuckets < Limit(c)
         /\ call[u].op \in Generating =>
              \/ bucketCounter'[c] + Cardinality(Adders(c)') <= Limit(c) + 1
              \/ Adders(c)' = {u} /\ ppHashChains'[c] = <<>>
  BY <1>13, <1>14
<1>16. IdsFit'
  <2>1. \A c : Limit(c)' = Limit(c)
    BY DEF Limit
  <2> QED BY <1>1, <1>12, <1>15, <2>1 DEF IdsFit
<1> QED BY <1>6, <1>16

\* A call that is going to add to a bucket leaves room for its id.
LEMMA BeginIds ==
  ASSUME IInv, ~ LongLived, NEW t \in Threads, NEW op, NEW ref, NEW key,
         Begin(t, op, ref, key), Legal(t, op, ref, key)
  PROVE  UniqueIds' /\ IdsFit'
<1>1. /\ UNCHANGED <<usage, ppHashChains, element, bucketCounter>>
      /\ \A u \in Threads \ {t} : pc'[u] = pc[u] /\ call'[u] = call[u]
      /\ pc[t] = "idle" /\ pc'[t] \in {"first", "lock"}
      /\ call'[t] = [op |-> op, ref |-> ref, key |-> key, node |-> None]
      /\ call'[t].op = op /\ call'[t].ref = ref
  BY BeginCalls, Typed DEF Begin, tableVars, Goto, ThreadsType
<1>2. TInv /\ Linked' = Linked /\ usage \in Usages
  BY <1>1, Typed DEF Linked, TInv, TableType
<1>3. UniqueIds'
  BY <1>1, <1>2 DEF IInv, UniqueIds
<1>4. ASSUME usage # "key", NEW b \in Buckets
      PROVE  \A u \in Adders(b)' :
               /\ call'[u].op = "addGiven" =>
                    /\ Adders(b)' = {u}
                    /\ \A n \in Linked : element[n].id # call'[u].ref
                    /\ call'[u].ref \div numberOfBuckets < Limit(b)
               /\ call'[u].op \in Generating =>
                    \/ bucketCounter[b] + Cardinality(Adders(b)') <= Limit(b) + 1
                    \/ Adders(b)' = {u} /\ ppHashChains[b] = <<>>
  <2>1. \A u \in Adders(b) :
          /\ call[u].op = "addGiven" =>
               /\ Adders(b) = {u}
               /\ \A n \in Linked : element[n].id # call[u].ref
               /\ call[u].ref \div numberOfBuckets < Limit(b)
          /\ call[u].op \in Generating =>
               \/ bucketCounter[b] + Cardinality(Adders(b)) <= Limit(b) + 1
               \/ Adders(b) = {u} /\ ppHashChains[b] = <<>>
    BY <1>4 DEF IInv, IdsFit
  <2>2. Adders(b)' = Adders(b) \cup (IF op \in Adding /\ Bucket(ref) = b THEN {t} ELSE {}) /\ t \notin Adders(b)
    <3>1. \A r : Bucket(r)' = Bucket(r)
      BY DEF Bucket
    <3> QED BY <1>1, <3>1 DEF Adders
  <2>3. \A u \in Adders(b) : u \in Threads \ {t} /\ call'[u] = call[u]
    BY <1>1, <2>2 DEF Adders
  <2>4. IsFiniteSet(Adders(b)) /\ Cardinality(Adders(b)) \in Nat
    BY AddersAre
  <2>5. CASE ~ (op \in Adding /\ Bucket(ref) = b)
    <3>1. Adders(b)' = Adders(b)
      BY <2>2, <2>5
    <3> QED BY <2>1, <2>3, <3>1
  <2>6. CASE op \in Adding /\ Bucket(ref) = b
    <3>1. /\ Adders(b)' = Adders(b) \cup {t}
          /\ Cardinality(Adders(b) \cup {t}) = Cardinality(Adders(b)) + 1
      BY <2>2, <2>4, <2>6, FS_AddElement
    <3>2. op \notin AccessOps[usage] /\ op # "release"
      BY <1>2, <2>6, OpsAre DEF Adding, Looking
    <3>3. CASE op \in AddOps[usage]
      <4>1. op \in Generating /\ op # "addGiven"
        BY <1>2, <1>4, <3>3, OpsAre
      <4>2. MayGenerate(b)
        BY <2>6, <3>2, <3>3, <4>1 DEF Legal
      <4>3. /\ \A u \in Adders(b) : call[u].op # "addGiven"
            /\ bucketCounter[b] + Cardinality(Adders(b)) > Limit(b) => ppHashChains[b] = <<>> /\ Adders(b) = {}
        BY <4>2 DEF MayGenerate
      <4>4. \A u \in Adders(b)' : call'[u].op # "addGiven"
        BY <1>1, <2>3, <3>1, <4>1, <4>3
      <4>5. CASE bucketCounter[b] + Cardinality(Adders(b)) > Limit(b)
        BY <3>1, <4>3, <4>4, <4>5
      <4>6. CASE ~ (bucketCounter[b] + Cardinality(Adders(b)) > Limit(b))
        <5>1. bucketCounter[b] \in Nat /\ Limit(b) \in Nat
          BY <1>2, GeneratedIds DEF TInv, TableType
        <5>2. bucketCounter[b] + Cardinality(Adders(b)') <= Limit(b) + 1
          BY <2>4, <3>1, <4>6, <5>1
        <5> QED BY <4>4, <5>2
      <4> QED BY <4>5, <4>6
    <3>4. CASE op = "addGiven"
      <4>1. op \notin AddOps[usage] /\ op \notin Generating
        BY <1>2, <3>4, OpsAre DEF Generating
      <4>2. MayGive(b, ref)
        BY <2>6, <3>2, <4>1 DEF Legal
      <4>3. Adders(b) = {} /\ \A n \in Linked : element[n].id # ref /\ ref \div numberOfBuckets < Limit(b)
        BY <4>2 DEF MayGive
      <4>4. ref \div numberOfBuckets < Limit(b)
        BY <4>2 DEF MayGive
      <4> QED BY <1>1, <3>1, <3>4, <4>1, <4>3, <4>4
    <3> QED BY <3>2, <3>3, <3>4 DEF Legal
  <2> QED BY <2>5, <2>6
<1>5. IdsFit'
  <2>1. \A b : Limit(b)' = Limit(b)
    BY DEF Limit
  <2>2. usage # "key" => \A b \in Buckets :
          \A n \in Range(ppHashChains[b]) : element[n].id \div numberOfBuckets < bucketCounter[b]
    BY DEF IInv, IdsFit
  <2> QED BY <1>1, <1>2, <1>4, <2>1, <2>2 DEF IdsFit
<1> QED BY <1>3, <1>5

LEMMA MethodIds ==
  ASSUME IInv, ~ LongLived, NEW t \in Threads, Method(t)
  PROVE  UniqueIds' /\ IdsFit'
<1>1. CASE Calls(t)
  BY <1>1, BeginIs, BeginIds
<1>2. CASE Link(t)
  BY <1>2, MethodTable, LinkIds
<1>3. CASE (LockBucket(t) \/ Step(t)) /\ ~ Link(t)
  <2>1. PICK R : bucketCounter' = bucketCounter /\ Shrunk(R)
    BY <1>3, MethodTable
  <2>2. \A u \in Threads \ {t} : pc'[u] = pc[u] /\ call'[u] = call[u]
    BY <1>3, StepCalls
  <2>3. pc'[t] \in {"first", "lock", "locked"} => pc[t] \in {"first", "lock"} /\ call'[t] = call[t]
    BY <1>3, StepKinds
  <2>4. ASSUME NEW b \in Buckets, NEW u \in Adders(b)' PROVE u \in Adders(b) /\ call'[u] = call[u]
    <3>1. \A r : Bucket(r)' = Bucket(r)
      BY DEF Bucket
    <3>2. /\ u \in Threads /\ call'[u].op \in Adding /\ pc'[u] \in {"first", "lock", "locked"}
          /\ Bucket(call'[u].ref) = b
      BY <3>1 DEF Adders
    <3> QED BY <2>2, <2>3, <3>2 DEF Adders
  <2> QED BY <2>1, <2>4, ShrunkIds
<1> QED BY <1>1, <1>2, <1>3 DEF Method

-----------------------------------------------------------------------------
(***************************************************************************)
(* The methods keep what threads have                                      *)
(***************************************************************************)
\* A node that is linked does not get before an element that is fetched by the same key.
LEMMA LinkHeld ==
  ASSUME IInv, UniqueIds', NEW t \in Threads, Link(t), NEW u \in Threads
  PROVE  HeldFits(u)'
<1>1. PICK b \in Buckets : b = Bucket(call[t].ref)
  BY LinkIs
<1>2. PICK n \in Nodes : /\ Grown(b, n)
                         /\ element'[n] = [key |-> call[t].key, id |-> IdOf(t), refs |-> 1]
                         /\ call[t].op = "addS" => \A y : ~ Precedes(ppHashChains'[b], n, y)
  BY <1>1, LinkIs
<1>3. TInv /\ HeldFits(u) /\ usage' = usage /\ held' = held /\ usage \in Usages /\ CallFits(t)
  BY Typed DEF IInv, Link, TInv, TableType
<1>4. References' = References
  BY <1>3 DEF References
<1>5. SUFFICES ASSUME held[u] # Nothing PROVE IsFirst(held[u].node, held[u].ref)'
  BY <1>3, <1>4 DEF HeldFits
<1>m. PICK m, ref : m = held[u].node /\ ref = held[u].ref
  OBVIOUS
<1>6. usage \in {"key", "id"} /\ m \in Nodes /\ ref \in References /\ IsFirst(m, ref) /\ Bucket(ref) \in Buckets
  BY <1>3, <1>5, <1>m, ReferencesAre DEF HeldFits
<1>c. PICK c \in Buckets : c = Bucket(ref)
  BY <1>6
<1>7. m \in Range(ppHashChains[c]) /\ Matches(m, ref)
      /\ \A y \in Nodes : Precedes(ppHashChains[c], y, m) => ~ Matches(y, ref)
  BY <1>6, <1>c DEF IsFirst, Chain
<1>8. m # n /\ element'[m] = element[m] /\ m \in Linked
  BY <1>2, <1>6, <1>7 DEF Grown, Linked
<1>9. /\ Chain(ref)' = ppHashChains'[c]
      /\ \A y : Matches(y, ref)' <=> IF ref \in Keys THEN element'[y].key = ref ELSE element'[y].id = ref
      /\ \A y : Matches(y, ref) <=> IF ref \in Keys THEN element[y].key = ref ELSE element[y].id = ref
  BY <1>3, <1>c DEF Chain, Bucket, Matches
<1>10. m \in Range(ppHashChains'[c]) /\ Matches(m, ref)'
  BY <1>2, <1>7, <1>8, <1>9 DEF Grown
<1>11. ASSUME NEW y \in Nodes, Precedes(ppHashChains'[c], y, m) PROVE ~ Matches(y, ref)'
  <2>1. Precedes(ppHashChains[c], y, m) \/ y = n
    BY <1>2, <1>7, <1>8, <1>11 DEF Grown
  <2>2. CASE y # n
    <3>1. element'[y] = element[y]
      BY <1>2, <2>2 DEF Grown
    <3> QED BY <1>7, <1>9, <2>1, <2>2, <3>1
  <2>3. CASE y = n
    <3> SUFFICES ASSUME Matches(n, ref)' PROVE FALSE
      BY <2>3
    <3>1. n \in Range(ppHashChains'[c])
      BY <1>11, <2>3 DEF Precedes, Range
    <3>2. c = b
      BY <1>2, <3>1 DEF Grown, Linked
    <3>3. CASE usage = "key"
      <4>1. ref \in Keys /\ call[t].key = ref
        BY <1>2, <1>6, <1>9, <3>3 DEF References
      <4>2. call[t].op \in {"addUnique", "addUniqueId", "addS"} /\ call[t].key = call[t].ref
        BY <1>3, <3>3, LinkIs DEF CallFits, AddOps
      <4>3. call[t].op # "addS"
        BY <1>2, <1>11, <2>3, <3>2
      <4>4. Find(call[t].ref) = None
        BY <4>2, <4>3 DEF Link
      <4>5. \A k \in Range(Chain(call[t].ref)) : ~ Matches(k, call[t].ref)
        BY <1>3, <4>1, <4>2, <4>4, FindIs
      <4> QED BY <1>7, <1>c, <4>1, <4>2, <4>5 DEF Chain
    <3>4. CASE usage # "key"
      <4>1. ref \notin Keys
        BY <1>3, <1>6, <3>4, ReferencesAre, HashAssumption DEF Ids
      <4>2. element'[n].id = ref /\ element'[m].id = ref
        BY <1>9, <1>10, <4>1
      <4>3. n \in Linked' /\ m \in Linked' /\ usage' # "key"
        BY <1>2, <1>3, <1>8, <3>4 DEF Grown
      <4> QED BY <1>8, <4>2, <4>3 DEF UniqueIds
    <3> QED BY <3>3, <3>4
  <2> QED BY <2>2, <2>3
<1>12. IsFirst(m, ref)'
  BY <1>9, <1>10, <1>11 DEF IsFirst
<1> QED BY <1>3, <1>m, <1>12

LEMMA MethodHeld ==
  ASSUME IInv, ~ LongLived, NEW t \in Threads, Method(t), NEW u \in Threads
  PROVE  HeldFits(u)'
<1>1. CASE Link(t)
  BY <1>1, MethodIds, LinkHeld
<1>2. CASE ~ Link(t) /\ held'[u] = held[u]
  <2>1. PICK R : Shrunk(R) /\ R \cap {held[u].node, call[u].node, iter[u].node} = {}
    BY <1>2, MethodTable
  <2> QED BY <1>2, <2>1, ShrunkHeld
<1>3. CASE u = t /\ (Fetch(t) \/ Release(t))
  <2>1. PICK n \in Linked :
           /\ SameTable /\ n \in Nodes /\ call[t].ref \in References /\ IsFirst(n, call[t].ref)
           /\ \/ held'[t] = [ref |-> call[t].ref, node |-> n] /\ usage \in {"key", "id"}
              \/ held'[t] = Nothing
    BY <1>3, FetchIs
  <2>2. CASE held'[t] = Nothing
    BY <1>3, <2>2 DEF HeldFits
  <2>3. CASE held'[t] = [ref |-> call[t].ref, node |-> n] /\ usage \in {"key", "id"}
    <3>1. held'[t].node = n /\ held'[t].ref = call[t].ref /\ usage' = usage
      BY <2>1, <2>3 DEF SameTable
    <3>2. \A x \in Nodes : \A y : IsFirst(x, y)' <=> IsFirst(x, y)
      BY <2>1, SameIs, Typed
    <3>3. IsFirst(held[t].node, held[t].ref)'
      <4>1. PICK r : r = call[t].ref
        OBVIOUS
      <4>2. IsFirst(n, r)'
        BY <2>1, <3>2, <4>1
      <4> QED BY <3>1, <4>1, <4>2
    <3>4. References' = References
      BY <3>1 DEF References
    <3> QED BY <1>3, <2>1, <2>3, <3>1, <3>3, <3>4 DEF HeldFits
  <2> QED BY <2>1, <2>2, <2>3
<1>4. held'[u] = held[u] \/ (u = t /\ (Fetch(t) \/ Release(t))) \/ Link(t)
  <2>1. CASE u # t
    BY <2>1, MethodCalls
  <2>2. CASE u = t
    BY <2>2, MethodKinds DEF Still, Takes
  <2> QED BY <2>1, <2>2
<1> QED BY <1>1, <1>2, <1>3, <1>4

LEMMA MethodExclusive ==
  ASSUME IInv, NEW t \in Threads, Method(t), NEW u \in Threads
  PROVE  XFits(u)'
<1>1. /\ \A w \in Threads \ {t} : pc'[w] = pc[w] /\ call'[w] = call[w]
      /\ call'[t].node # None => XFetch(t)
  BY MethodCalls, MethodKinds
<1>2. CASE u # t /\ ~ Link(t)
  <2>1. PICK R : Shrunk(R) /\ R \cap {held[u].node, call[u].node, iter[u].node} = {}
    BY <1>2, MethodTable
  <2> QED BY <1>1, <1>2, <2>1, ShrunkExclusive
<1>3. CASE u # t /\ Link(t)
  <2>1. PICK b \in Buckets, n \in Nodes : Grown(b, n)
    BY <1>3, LinkIs
  <2>2. SUFFICES ASSUME call[u].node # None PROVE call'[u].node \in Range(Chain(call[u].ref)')
    BY <1>1, <1>3 DEF IInv, XFits
  <2>3. pc[u] = "exclusive" /\ call[u].node \in Range(ppHashChains[Bucket(call[u].ref)])
    BY <2>2 DEF IInv, XFits, Chain
  <2>4. Bucket(call[u].ref) \in Buckets /\ call'[u] = call[u]
    BY <1>1, <1>3, <2>3, Owner DEF Busy
  <2>5. call[u].node \in Range(ppHashChains'[Bucket(call[u].ref)])
    BY <2>1, <2>3, <2>4 DEF Grown
  <2>6. Chain(call[u].ref)' = ppHashChains'[Bucket(call[u].ref)]
    BY <2>4 DEF Chain, Bucket
  <2> QED BY <2>4, <2>5, <2>6
<1>4. CASE u = t
  <2>1. SUFFICES ASSUME XFetch(t) PROVE XFits(t)'
    BY <1>1, <1>4 DEF XFits
  <2>2. /\ pc[t] = "locked" /\ call[t].op = "xFetch" /\ Find(call[t].ref) # None
        /\ call' = [call EXCEPT ![t].node = Find(call[t].ref)] /\ pc' = [pc EXCEPT ![t] = "exclusive"]
        /\ ppHashChains' = ppHashChains
    BY <2>1 DEF XFetch, Found, Goto, tableVars
  <2>3. /\ pc'[t] = "exclusive" /\ call'[t].op = "xFetch" /\ call'[t].ref = call[t].ref
        /\ call'[t].node = Find(call[t].ref)
    BY <2>2, Typed DEF ThreadsType, CallType
  <2>4. Find(call[t].ref) \in Range(Chain(call[t].ref))
    BY <2>2, Owner, FindIs, Typed DEF Busy, IsFirst
  <2>5. Chain(call[t].ref)' = Chain(call[t].ref)
    BY <2>2, <2>3 DEF Chain, Bucket
  <2> QED BY <2>3, <2>4, <2>5 DEF XFits
<1> QED BY <1>2, <1>3, <1>4

\* What threads have, and have iterators on, is in the table.
LEMMA ThreadsHaveLinked ==
  ASSUME IInv, NEW u \in Threads
  PROVE  /\ {held[u].node, call[u].node, iter[u].node} \subseteq Linked \cup {None}
         /\ \A n : Counts(iter[u], n) => n \in Linked \cup {None}
<1>1. HeldFits(u) /\ XFits(u) /\ IterFits(u) /\ ItersType /\ TInv
  BY Typed DEF IInv
<1>2. held[u].node \in Linked \cup {None}
  <2>1. CASE held[u] = Nothing
    BY <2>1 DEF Nothing
  <2>2. CASE held[u] # Nothing
    BY <1>1, <2>2, ReferencesAre DEF HeldFits, IsFirst, Chain, Linked
  <2> QED BY <2>1, <2>2
<1>3. call[u].node \in Linked \cup {None}
  <2> SUFFICES ASSUME call[u].node # None PROVE call[u].node \in Linked
    OBVIOUS
  <2>1. pc[u] = "exclusive" /\ call[u].node \in Range(ppHashChains[Bucket(call[u].ref)])
    BY <1>1 DEF XFits, Chain
  <2>2. Bucket(call[u].ref) \in Buckets
    BY <2>1, Owner DEF Busy
  <2> QED BY <2>1, <2>2 DEF Linked
<1>4. iter[u].node \in Linked \cup {None}
  BY <1>1 DEF IterFits, Linked, ItersType, IterType
<1> QED BY <1>2, <1>3, <1>4 DEF Counts

\* The iterators stay where they are, if what they stand on stays.
LEMMA SameItersFit ==
  ASSUME IInv, NEW u \in Threads, SameIters, ItersType', destroying = None, destroying' = None, usage' = usage,
         pc'[u] = pc[u] \/ (iter[u].kind \in {"none", "shared", "chain"} /\ iter[u].place = "stand"),
         iter[u].node # None => iter[u].node \in Range(ppHashChains'[iter[u].bucket])
  PROVE  IterFits(u)'
<1> DEFINE i == iter[u]
           j == iter'[u]
<1>1. IterFits(u) /\ i \in IterType /\ j \in IterType
  BY Typed DEF IInv, ItersType
<1>2. /\ j.kind = i.kind /\ j.place = i.place /\ j.node = i.node /\ j.bucket = i.bucket
      /\ j.kept = i.kept \cap Linked' /\ j.todo = i.todo \cap Linked'
  BY DEF SameIters
<1>3. i.kind = "none" => j = NoIterator
  <2> SUFFICES ASSUME i = NoIterator PROVE j = NoIterator
    BY <1>1 DEF IterFits
  <2>1. /\ j.kind = "none" /\ j.place = "stand" /\ j.node = None /\ j.bucket = 0 /\ j.kept = {} /\ j.todo = {}
    BY <1>2 DEF NoIterator
  <2> HIDE DEF j
  <2> QED BY <1>1, <2>1 DEF IterType, NoIterator
<1>4. i.node # None => i.node \in Range(ppHashChains'[i.bucket])
  OBVIOUS
<1>5. /\ i.kind \in Excl \cup {"each", "destroy"} => pc'[u] = "idle"
      /\ i.place # "stand" => pc'[u] = "idle"
  BY <1>1 DEF IterFits, Excl
<1>6. i.kind # "destroy" /\ destroying' # u
  BY <1>1, HashAssumption DEF IterFits
<1>7. /\ i.kind \in Shared => usage = "iterated"
      /\ i.kind \in Excl \cup {"each"} => usage = "xiterated"
      /\ i.place = "init" => i.kind \in Shared \cup Excl
      /\ i.place = "next" => i.kind \in {"shared"} \cup Excl /\ i.node = None
      /\ i.place = "walk" => i.kind \in {"shared", "each"} \cup Excl /\ i.node = None
      /\ i.kind = "each" => i.node = None
      /\ i.place = "stand" /\ i.node = None /\ i.kind \in {"shared", "each"} \cup Excl => i.bucket = last
  BY <1>1 DEF IterFits
<1> HIDE DEF i, j
<1> QED BY <1>2, <1>3, <1>4, <1>5, <1>6, <1>7 DEF IterFits, j

LEMMA MethodIterFits ==
  ASSUME IInv, NEW t \in Threads, Method(t), NEW u \in Threads
  PROVE  IterFits(u)'
<1> DEFINE i == iter[u]
<1>1. /\ SameIters /\ ItersType' /\ destroying = None /\ destroying' = None
      /\ iter[t].kind \in {"none", "shared", "chain"} /\ iter[t].place = "stand"
  BY MethodIters
<1>2. IterFits(u) /\ i \in IterType
  BY <1>1, Typed DEF IInv, ItersType
<1>3. usage' = usage /\ (u # t => pc'[u] = pc[u])
  BY MethodCalls
<1>4. i.node # None => i.node \in Range(ppHashChains'[i.bucket])
  <2> SUFFICES ASSUME i.node # None PROVE i.node \in Range(ppHashChains'[i.bucket])
    OBVIOUS
  <2>1. i.node \in Range(ppHashChains[i.bucket]) /\ i.bucket \in Buckets
    BY <1>2 DEF IterFits, IterType
  <2>2. CASE Link(t)
    <3>1. PICK b \in Buckets, n \in Nodes : Grown(b, n)
      BY <2>2, LinkIs
    <3> QED BY <2>1, <3>1 DEF Grown
  <2>3. CASE ~ Link(t)
    <3>1. PICK R : Shrunk(R) /\ R \cap {held[u].node, call[u].node, iter[u].node} = {}
      BY <2>3, MethodTable
    <3> QED BY <2>1, <3>1 DEF Shrunk
  <2> QED BY <2>2, <2>3
<1> QED BY <1>1, <1>3, <1>4, SameItersFit

LEMMA MethodTodo ==
  ASSUME IInv, NEW t \in Threads, Method(t), NEW u \in Threads
  PROVE  TodoFits(u)'
<1> DEFINE i == iter[u]
<1>1. SameIters /\ TodoFits(u) /\ ItersType
  BY MethodIters, Typed DEF IInv
<1>2. CASE ~ Link(t)
  <2>1. PICK R : Shrunk(R) /\ R \cap {held[u].node, call[u].node, iter[u].node} = {}
    BY <1>2, MethodTable
  <2> QED BY <1>1, <2>1, ShrunkTodo DEF SameIters
<1>3. CASE Link(t)
  <2>1. PICK b \in Buckets, n \in Nodes : Grown(b, n)
    BY <1>3, LinkIs
  <2>2. iter'[u].kind \notin {"none", "destroy"} => i.kept \subseteq Linked /\ i.todo = i.kept \cap Ahead(i)
    BY <1>1 DEF TodoFits, SameIters
  <2>3. n \notin Linked /\ Linked \subseteq Linked' /\ None \notin Nodes /\ i.bucket \in Buckets /\ i.node # n
    BY <1>1, <2>1, HashAssumption, ThreadsHaveLinked DEF Grown, ItersType, IterType
  <2>4. ASSUME NEW m \in Linked PROVE m \in Ahead(iter[u])' <=> m \in Ahead(iter[u])
    <3>1. m # n
      BY <2>3
    <3>2. \A c \in Buckets : m \in Range(ppHashChains'[c]) <=> m \in Range(ppHashChains[c])
      BY <2>1, <3>1 DEF Grown
    <3>3. Precedes(ppHashChains'[i.bucket], i.node, m) <=> Precedes(ppHashChains[i.bucket], i.node, m)
      BY <2>1, <2>3, <3>1 DEF Grown
    <3> QED BY <1>1, <3>2, <3>3 DEF Ahead, SameIters
  <2>5. iter'[u].kind \notin {"none", "destroy"} =>
          iter'[u].kept \subseteq Linked' /\ iter'[u].todo = iter'[u].kept \cap Ahead(iter[u])'
    BY <1>1, <2>2, <2>3, <2>4 DEF SameIters
  <2> QED BY <2>5 DEF TodoFits
<1> QED BY <1>2, <1>3

LEMMA MethodRefs ==
  ASSUME IInv, NEW t \in Threads, Method(t)
  PROVE  RefsAccounted'
<1>1. \A u \in Threads \ {t} : held'[u] = held[u]
  BY MethodCalls
<1>2. \A u \in Threads : \A n : Counts(iter'[u], n) <=> Counts(iter[u], n)
  BY MethodIters DEF SameIters, Counts
<1>3. SUFFICES \A n \in Linked' :
           \/ /\ n \in Linked
              /\ element'[n].refs = element[n].refs + (IF held'[t].node = n THEN 1 ELSE 0)
                                                    - (IF held[t].node = n THEN 1 ELSE 0)
           \/ element'[n].refs = 1 /\ \A u \in Threads : held'[u].node # n /\ ~ Counts(iter'[u], n)
  <2>1. \A n \in Linked' :
           \/ /\ n \in Linked
              /\ element'[n].refs = element[n].refs + (IF held'[t].node = n THEN 1 ELSE 0)
                                                    - (IF held[t].node = n THEN 1 ELSE 0)
                                                    + (IF Counts(iter'[t], n) THEN 1 ELSE 0)
                                                    - (IF Counts(iter[t], n) THEN 1 ELSE 0)
           \/ element'[n].refs = 1 /\ \A u \in Threads : held'[u].node # n /\ ~ Counts(iter'[u], n)
    <3> SUFFICES ASSUME NEW n \in Linked', n \in Linked,
                        element'[n].refs = element[n].refs + (IF held'[t].node = n THEN 1 ELSE 0)
                                                    - (IF held[t].node = n THEN 1 ELSE 0)
                 PROVE  element'[n].refs = element[n].refs + (IF held'[t].node = n THEN 1 ELSE 0)
                                                    - (IF held[t].node = n THEN 1 ELSE 0)
                                                    + (IF Counts(iter'[t], n) THEN 1 ELSE 0)
                                                    - (IF Counts(iter[t], n) THEN 1 ELSE 0)
      BY <1>3
    <3>1. element[n].refs \in Nat
      BY Typed, LinkedIs DEF TInv, TableType
    <3>2. PICK c \in {0, 1} : /\ c = (IF Counts(iter'[t], n) THEN 1 ELSE 0)
                              /\ c = (IF Counts(iter[t], n) THEN 1 ELSE 0)
      BY <1>2
    <3> QED BY <3>1, <3>2
  <2> QED BY <1>1, <1>2, <2>1, RefsFollow, ZenonT(30)
<1>4. TInv /\ \A n \in Linked : n \in Nodes /\ element[n].refs \in Nat
  BY Typed, LinkedIs DEF TInv, TableType
<1>5. CASE Still
  <2>1. Linked' = Linked /\ element' = element /\ held' = held
    BY <1>5 DEF Still, tableVars, Linked
  <2> QED BY <1>4, <2>1
<1>6. CASE Fetch(t) \/ Release(t)
  <2>1. PICK n \in Linked :
           /\ SameTable /\ n \in Nodes
           /\ \A m \in Nodes \ {n} : element'[m] = element[m]
           /\ \/ /\ element'[n].refs = element[n].refs + 1 /\ held[t] = Nothing
                 /\ held'[t] = [ref |-> call[t].ref, node |-> n]
              \/ element'[n].refs = element[n].refs - 1 /\ held'[t] = Nothing /\ held[t].node = n
    BY <1>6, FetchIs
  <2>2. Linked' = Linked /\ None \notin Nodes
    BY <1>4, <2>1, SameIs, HashAssumption
  <2>3. \A m \in Nodes : \/ /\ element'[n].refs = element[n].refs + 1 /\ held[t].node # m
                            /\ held'[t].node = m <=> m = n
                         \/ /\ element'[n].refs = element[n].refs - 1 /\ held'[t].node # m
                            /\ held[t].node = m <=> m = n
    BY <2>1, <2>2 DEF Nothing
  <2> QED BY <1>4, <2>1, <2>2, <2>3
<1>7. CASE Link(t)
  <2>1. PICK b \in Buckets, n \in Nodes :
          Grown(b, n) /\ element'[n] = [key |-> call[t].key, id |-> IdOf(t), refs |-> 1]
    BY <1>7, LinkIs
  <2>2. held' = held
    BY <1>7 DEF Link
  <2>3. \A u \in Threads : held'[u].node # n /\ ~ Counts(iter'[u], n)
    BY <1>2, <2>1, <2>2, ThreadsHaveLinked, HashAssumption DEF Grown
  <2>4. \A m \in Linked : element'[m] = element[m]
    BY <1>4, <2>1 DEF Grown
  <2> QED BY <1>4, <2>1, <2>2, <2>3, <2>4 DEF Grown
<1>8. CASE \E v \in Nodes : Takes(t, v)
  <2>1. PICK v \in Nodes : Takes(t, v)
    BY <1>8
  <2>2. Linked' = Linked \ {v} /\ \A m \in Nodes \ {v} : element'[m] = element[m]
    BY <2>1, TakesIs
  <2>3. held' = held
    BY <2>1 DEF Takes
  <2> QED BY <1>4, <2>2, <2>3
<1> QED BY <1>5, <1>6, <1>7, <1>8, MethodKinds

-----------------------------------------------------------------------------
(***************************************************************************)
(* The methods count, and keep the invariant                               *)
(***************************************************************************)
\* What a thread at a place of a method has still to count.
Debt(place, op) ==
  IF place = "count" /\ op \in Adding THEN 1
  ELSE IF (place \in {"lock", "locked"} /\ op = "addS") \/ (place = "count" /\ op \in {"remove", "xFetchRemove"})
       THEN -1 ELSE 0

LEMMA CountFollows ==
  ASSUME IInv, NEW t \in Threads, \A u \in Threads \ {t} : pc'[u] = pc[u] /\ call'[u] = call[u],
         numberOfElements' \in Int, Cardinality(Linked') \in Nat,
         numberOfElements' - numberOfElements + Debt(pc'[t], call'[t].op) - Debt(pc[t], call[t].op) =
           Cardinality(Linked') - Cardinality(Linked)
  PROVE  CountAccounted'
<1> DEFINE a == Uncounted
           b == AnnouncedEarly
           c == AnnouncedLate
           d == Removed
           a1 == Uncounted'
           b1 == AnnouncedEarly'
           c1 == AnnouncedLate'
           d1 == Removed'
           p == pc[t]
           o == call[t].op
           p1 == pc'[t]
           o1 == call'[t].op
           n == numberOfElements
           n1 == numberOfElements'
           k == Cardinality(Linked)
           k1 == Cardinality(Linked')
<1>1. /\ a \in Nat /\ a1 \in Nat /\ b \in Nat /\ b1 \in Nat /\ c \in Nat /\ c1 \in Nat /\ d \in Nat /\ d1 \in Nat
      /\ a1 = a + (IF p1 = "count" /\ o1 \in Adding THEN 1 ELSE 0) - (IF p = "count" /\ o \in Adding THEN 1 ELSE 0)
      /\ b1 = b + (IF p1 = "lock" /\ o1 \in {"addS"} THEN 1 ELSE 0) - (IF p = "lock" /\ o \in {"addS"} THEN 1 ELSE 0)
      /\ c1 = c + (IF p1 = "locked" /\ o1 \in {"addS"} THEN 1 ELSE 0)
                - (IF p = "locked" /\ o \in {"addS"} THEN 1 ELSE 0)
      /\ d1 = d + (IF p1 = "count" /\ o1 \in {"remove", "xFetchRemove"} THEN 1 ELSE 0)
                - (IF p = "count" /\ o \in {"remove", "xFetchRemove"} THEN 1 ELSE 0)
  BY CountMoves DEF Uncounted, AnnouncedEarly, AnnouncedLate, Removed
<1>2. n + a = k + b + c + d /\ k \in Nat /\ k1 \in Nat /\ n \in Nat /\ n1 \in Int
  BY CountIs, Typed, LinkedIs DEF IInv, TInv, TableType
<1>3. n1 - n + Debt(p1, o1) - Debt(p, o) = k1 - k
  OBVIOUS
<1> HIDE DEF a, b, c, d, a1, b1, c1, d1, p, o, p1, o1, n, n1, k, k1
<1>4. \A x, y : LET u == IF x = "count" /\ y \in Adding THEN 1 ELSE 0
                    v == IF x = "lock" /\ y \in {"addS"} THEN 1 ELSE 0
                    w == IF x = "locked" /\ y \in {"addS"} THEN 1 ELSE 0
                    z == IF x = "count" /\ y \in {"remove", "xFetchRemove"} THEN 1 ELSE 0
                IN  Debt(x, y) = u - v - w - z
  BY DEF Debt, Adding
<1>5. n1 + a1 = k1 + b1 + c1 + d1
  <2>1. Debt(p1, o1) = (IF p1 = "count" /\ o1 \in Adding THEN 1 ELSE 0) - (IF p1 = "lock" /\ o1 \in {"addS"} THEN 1 ELSE 0)
                       - (IF p1 = "locked" /\ o1 \in {"addS"} THEN 1 ELSE 0)
                       - (IF p1 = "count" /\ o1 \in {"remove", "xFetchRemove"} THEN 1 ELSE 0)
    BY <1>4
  <2>2. Debt(p, o) = (IF p = "count" /\ o \in Adding THEN 1 ELSE 0) - (IF p = "lock" /\ o \in {"addS"} THEN 1 ELSE 0)
                     - (IF p = "locked" /\ o \in {"addS"} THEN 1 ELSE 0)
                     - (IF p = "count" /\ o \in {"remove", "xFetchRemove"} THEN 1 ELSE 0)
    BY <1>4
  <2>3. a1 - a - (b1 - b) - (c1 - c) - (d1 - d) = Debt(p1, o1) - Debt(p, o)
    BY <1>1, <2>1, <2>2
  <2>4. Debt(p1, o1) \in Int /\ Debt(p, o) \in Int
    BY DEF Debt
  <2> QED BY <1>1, <1>2, <1>3, <2>3, <2>4
<1> QED BY <1>5, CountIs DEF n1, a1, k1, b1, c1, d1

\* Every step of a method changes the number of elements, the elements and what is
\* still to count together.
LEMMA MethodDebt ==
  ASSUME IInv, NEW t \in Threads, Method(t)
  PROVE  /\ numberOfElements' \in Nat /\ Cardinality(Linked') \in Nat
         /\ numberOfElements' - numberOfElements + Debt(pc'[t], call'[t].op) - Debt(pc[t], call[t].op) =
              Cardinality(Linked') - Cardinality(Linked)
<1> DEFINE op == call[t].op
           p == pc[t]
           p1 == pc'[t]
           Goal == /\ numberOfElements' \in Nat /\ Cardinality(Linked') \in Nat
                   /\ numberOfElements' - numberOfElements + Debt(p1, call'[t].op) - Debt(p, op) =
                        Cardinality(Linked') - Cardinality(Linked)
<1>1. /\ numberOfElements \in Nat /\ Cardinality(Linked) \in Nat
      /\ ThreadsType /\ CallFits(t) /\ \A x, y : Debt(x, y) \in Int
  BY Typed, LinkedIs DEF IInv, TInv, TableType, Debt
<1>2. ppHashChains' = ppHashChains => Linked' = Linked
  BY DEF Linked
<1>3. ASSUME Linked' = Linked, numberOfElements' = numberOfElements, Debt(p1, call'[t].op) = Debt(p, op)
      PROVE  Goal
  BY <1>1, <1>3
<1>4. ASSUME Calls(t) PROVE Goal
  <2>1. PICK o, ref, key : Begin(t, o, ref, key) /\ Legal(t, o, ref, key)
    BY <1>4, BeginIs
  <2>2. /\ ppHashChains' = ppHashChains /\ numberOfElements' = numberOfElements
        /\ p = "idle" /\ p1 = (IF o = "addS" THEN "first" ELSE "lock")
    BY <1>1, <2>1 DEF Begin, tableVars, Goto, ThreadsType
  <2>3. call'[t].op = o
    <3>1. call'[t] = [op |-> o, ref |-> ref, key |-> key, node |-> None]
      BY <2>1, BeginCalls
    <3> QED BY <3>1
  <2>4. Debt(p1, call'[t].op) = Debt(p, op)
    BY <2>2, <2>3 DEF Debt
  <2> QED BY <1>2, <1>3, <2>2, <2>4
<1>5. ASSUME LockBucket(t) \/ Duplicate(t) \/ NotFound(t) \/ Fetch(t) \/ Release(t) PROVE Goal
  <2>1. ppHashChains' = ppHashChains /\ numberOfElements' = numberOfElements /\ call' = call
    BY <1>5 DEF LockBucket, Duplicate, NotFound, Fetch, Release, tableVars
  <2>2. \/ p = "lock" /\ p1 = "locked"
        \/ p = "locked" /\ p1 \in {"unlock", "exclusive"} /\ op # "addS"
    BY <1>1, <1>5 DEF LockBucket, Duplicate, NotFound, Fetch, Release, Found, Goto, ThreadsType
  <2>3. Debt(p1, call'[t].op) = Debt(p, op)
    BY <2>1, <2>2 DEF Debt
  <2> QED BY <1>2, <1>3, <2>1, <2>3
<1>6. ASSUME XFetch(t) \/ Unlock(t) \/ XRelease(t) PROVE Goal
  <2>1. ppHashChains' = ppHashChains /\ numberOfElements' = numberOfElements
    BY <1>6 DEF XFetch, Unlock, XRelease, Return, tableVars
  <2>2. \/ p = "locked" /\ p1 = "exclusive" /\ op # "addS"
        \/ p \in {"unlock", "exclusive"} /\ p1 = "idle"
    BY <1>1, <1>6 DEF XFetch, Unlock, XRelease, Return, Found, Goto, ThreadsType
  <2>3. Debt(p1, call'[t].op) = Debt(p, op)
    BY <2>2 DEF Debt
  <2> QED BY <1>2, <1>3, <2>1, <2>3
<1>7. ASSUME RemoveElement(t) \/ XFetchRemove(t), ~ \E v \in Nodes : Takes(t, v) PROVE Goal
  <2>1. Still /\ p1 # "count"
    <3>1. Step(t) /\ ~ Link(t) /\ ~ Fetch(t) /\ ~ Release(t)
      BY <1>7 DEF Step, RemoveElement, XFetchRemove, Link, Fetch, Release, Found, Adding
    <3> QED BY <1>7, <3>1, StepKinds
  <2>2. /\ ppHashChains' = ppHashChains /\ numberOfElements' = numberOfElements /\ call' = call
        /\ p = "locked" /\ p1 \in {"unlock", "count"} /\ op \in {"remove", "xFetchRemove"}
    <3>1. p1 \in {"unlock", "count"}
      BY <1>1, <1>7 DEF RemoveElement, XFetchRemove, Goto, ThreadsType
    <3> QED BY <1>7, <2>1, <3>1 DEF RemoveElement, XFetchRemove, Found, Still, tableVars
  <2>3. Debt(p1, call'[t].op) = Debt(p, op)
    BY <2>1, <2>2 DEF Debt
  <2> QED BY <1>2, <1>3, <2>2, <2>3
<1>8. ASSUME \E v \in Nodes : Takes(t, v) PROVE Goal
  <2>1. PICK v \in Nodes : Takes(t, v)
    BY <1>8
  <2>2. /\ Linked' = Linked \ {v} /\ Cardinality(Linked') = Cardinality(Linked) - 1 /\ v \in Linked
        /\ numberOfElements' = numberOfElements /\ call' = call
        /\ p = "locked" /\ p1 = "count" /\ op \in {"remove", "xFetchRemove"}
    BY <1>1, <2>1, TakesIs DEF Takes, ThreadsType
  <2>3. Debt(p1, call'[t].op) = -1 /\ Debt(p, op) = 0
    BY <2>2 DEF Debt, Adding
  <2>4. Cardinality(Linked) # 0
    BY <2>2, Typed, LinkedIs, FS_EmptySet DEF TInv, TableType
  <2> QED BY <1>1, <2>2, <2>3, <2>4
<1>9. ASSUME Link(t) PROVE Goal
  <2>1. Cardinality(Linked') = Cardinality(Linked) + 1 /\ op \in Adding
    BY <1>9, LinkIs DEF Grown
  <2>2. numberOfElements' = numberOfElements /\ call' = call /\ p = "locked"
        /\ p1 = (IF op = "addS" THEN "unlock" ELSE "count")
    BY <1>1, <1>9 DEF Link, Goto, ThreadsType
  <2>3. Debt(p1, call'[t].op) - Debt(p, op) = 1
    BY <2>1, <2>2 DEF Debt
  <2> QED BY <1>1, <2>1, <2>2, <2>3
<1>10. ASSUME Count(t) PROVE Goal
  <2>1. /\ ppHashChains' = ppHashChains /\ call' = call
        /\ numberOfElements' = IF op \in Adding THEN numberOfElements + 1 ELSE numberOfElements - 1
    BY <1>10 DEF Count, tableVars
  <2>2. CASE p = "first"
    <3>1. op = "addS"
      BY <1>1, <2>2 DEF CallFits
    <3>2. p1 = "lock"
      BY <1>1, <1>10, <2>2, <3>1 DEF Count, Goto, ThreadsType
    <3>3. Debt(p1, op) = -1 /\ Debt(p, op) = 0 /\ op \in Adding
      BY <2>2, <3>1, <3>2 DEF Debt, Adding
    <3> QED BY <1>1, <1>2, <2>1, <3>3
  <2>3. CASE p = "count"
    <3>1. op \in Adding \/ (op \in {"remove", "xFetchRemove"} /\ op \notin Adding)
      BY <1>1, <2>3 DEF CallFits, Adding
    <3>2. p1 \in {"unlock", "exclusive"}
      BY <1>1, <1>10, <2>3 DEF Count, Goto, ThreadsType
    <3>3. Debt(p1, op) = 0 /\ Debt(p, op) = IF op \in Adding THEN 1 ELSE -1
      BY <2>3, <3>1, <3>2 DEF Debt
    <3>4. CASE op \in Adding
      BY <1>1, <1>2, <2>1, <3>3, <3>4
    <3>5. CASE op \notin Adding
      <4>1. numberOfElements >= 1
        <5>1. numberOfElements + Uncounted = Cardinality(Linked) + AnnouncedEarly + AnnouncedLate + Removed
          BY CountIs DEF IInv
        <5>2. Uncounted \in Nat /\ Uncounted <= Cardinality(Linked)
          BY UncountedAreLinked
        <5>3. IsFiniteSet(At("count", {"remove", "xFetchRemove"})) /\ t \in At("count", {"remove", "xFetchRemove"})
          BY <2>3, <3>1, <3>5, HashAssumption, FS_Subset DEF At
        <5>4. Removed \in Nat /\ Removed # 0
          BY <5>3, FS_CardinalityType, FS_EmptySet DEF Removed
        <5>5. AnnouncedEarly \in Nat /\ AnnouncedLate \in Nat
          <6>1. IsFiniteSet(At("lock", {"addS"})) /\ IsFiniteSet(At("locked", {"addS"}))
            BY HashAssumption, FS_Subset DEF At
          <6> QED BY <6>1, FS_CardinalityType DEF AnnouncedEarly, AnnouncedLate
        <5> QED BY <1>1, <5>1, <5>2, <5>4, <5>5
      <4>2. numberOfElements' \in Nat
        BY <1>1, <2>1, <3>5, <4>1
      <4> QED BY <1>1, <1>2, <2>1, <3>3, <3>5, <4>2
    <3> QED BY <3>4, <3>5
  <2> QED BY <1>10, <2>2, <2>3 DEF Count
<1>11. Goal
  <2> HIDE DEF Goal
  <2>1. Calls(t) \/ LockBucket(t) \/ Step(t)
    BY DEF Method
  <2> QED BY <1>4, <1>5, <1>6, <1>7, <1>8, <1>9, <1>10, <2>1 DEF Step
<1> QED BY <1>11

LEMMA MethodToCount ==
  ASSUME IInv, NEW t \in Threads, Method(t)
  PROVE  ToCountIsThere'
<1>1. SUFFICES ASSUME NEW u \in Threads, pc'[u] = "count", call'[u].op \in Adding
               PROVE  Chain(call[u].ref)' # <<>>
  BY DEF ToCountIsThere
<1>2. TInv /\ \A b \in Buckets : ppHashChains[b] # <<>> => \E m : m \in Range(ppHashChains[b])
  <2>1. \A b \in Buckets : ppHashChains[b] # <<>> => ppHashChains[b][1] \in Range(ppHashChains[b])
    BY Typed DEF TInv, TableType, Range
  <2> QED BY <2>1, Typed
<1>3. /\ \A w \in Threads \ {t} : pc'[w] = pc[w] /\ call'[w] = call[w]
      /\ Chain(call[u].ref)' = ppHashChains'[Bucket(call'[u].ref)]
  BY MethodCalls DEF Chain, Bucket
<1>4. CASE Link(t)
  <2>1. PICK b \in Buckets, n \in Nodes : Grown(b, n) /\ b = Bucket(call[t].ref)
    BY <1>4, LinkIs
  <2>2. CASE u = t
    <3>1. call'[t] = call[t] /\ n \in Range(ppHashChains'[b])
      BY <1>4, <2>1 DEF Link, Grown
    <3>2. ppHashChains'[b] # <<>>
      BY <3>1 DEF Range
    <3> QED BY <1>3, <2>1, <2>2, <3>1, <3>2
  <2>3. CASE u # t
    <3>1. pc[u] = "count" /\ call[u].op \in Adding /\ call'[u] = call[u]
      BY <1>1, <1>3, <2>3
    <3>2. ppHashChains[Bucket(call[u].ref)] # <<>> /\ Bucket(call[u].ref) \in Buckets
      BY <3>1, Owner DEF IInv, ToCountIsThere, Chain, Busy
    <3>3. PICK m : m \in Range(ppHashChains[Bucket(call[u].ref)])
      BY <1>2, <3>2
    <3>4. m \in Range(ppHashChains'[Bucket(call[u].ref)])
      BY <2>1, <3>2, <3>3 DEF Grown
    <3>5. ppHashChains'[Bucket(call[u].ref)] # <<>>
      BY <3>4 DEF Range
    <3> QED BY <1>3, <3>1, <3>5
  <2> QED BY <2>2, <2>3
<1>5. CASE ~ Link(t)
  <2>1. PICK R : Shrunk(R) /\ \A v \in R : v \in Nodes /\ Takes(t, v)
    BY <1>5, MethodTable
  <2>2. u # t
    <3> SUFFICES ASSUME u = t PROVE FALSE
      OBVIOUS
    <3>1. \E v \in Nodes : Takes(t, v)
      <4>1. CASE Fetch(t) \/ Release(t)
        BY <1>1, <4>1, FetchIs
      <4> QED BY <1>1, <1>5, <4>1, MethodKinds
    <3>2. call'[t].op \in {"remove", "xFetchRemove"}
      BY <3>1 DEF Takes
    <3> QED BY <1>1, <3>2 DEF Adding
  <2>3. pc[u] = "count" /\ call[u].op \in Adding /\ call'[u] = call[u]
    BY <1>1, <1>3, <2>2
  <2>4. /\ ppHashChains[Bucket(call[u].ref)] # <<>> /\ Bucket(call[u].ref) \in Buckets
        /\ pBucketLock[Bucket(call[u].ref)] = u
    BY <2>3, Owner DEF IInv, ToCountIsThere, Chain, Busy
  <2>5. \A v \in R : v \notin Range(ppHashChains[Bucket(call[u].ref)])
    <3> SUFFICES ASSUME NEW v \in R, v \in Range(ppHashChains[Bucket(call[u].ref)]) PROVE FALSE
      OBVIOUS
    <3>1. Takes(t, v) /\ v \in Nodes
      BY <2>1
    <3>2. v \in Range(ppHashChains[Bucket(call[t].ref)]) /\ Bucket(call[t].ref) \in Buckets
      BY <3>1, TakesIs
    <3>3. pBucketLock[Bucket(call[t].ref)] = t
      BY <3>1, Owner DEF Takes, Busy
    <3> QED BY <1>2, <2>2, <2>4, <3>2, <3>3 DEF TInv, OnePlace
  <2>6. ppHashChains'[Bucket(call[u].ref)] = ppHashChains[Bucket(call[u].ref)]
    BY <2>1, <2>4, <2>5 DEF Shrunk
  <2> QED BY <1>3, <2>3, <2>4, <2>6
<1> QED BY <1>4, <1>5

LEMMA MethodInvariant ==
  ASSUME IInv, ~ LongLived, NEW t \in Threads, Method(t)
  PROVE  IInv'
<1>1. TableType' /\ OnePlace' /\ Placed'
  BY MethodTable
<1>2. ThreadsType' /\ \A u \in Threads : CallFits(u)'
  BY MethodCalls
<1>3. numberOfElements' \in Nat /\ CountAccounted'
  BY MethodCalls, MethodDebt, CountFollows
<1>4. IterTypeOK'
  BY <1>1, <1>2, <1>3, MethodIters, Types
<1>5. \A u \in Threads : HeldFits(u)' /\ XFits(u)' /\ IterFits(u)' /\ TodoFits(u)'
  BY MethodHeld, MethodExclusive, MethodIterFits, MethodTodo
<1>6. LocksFit' /\ Alone' /\ RefsAccounted' /\ ToCountIsThere' /\ UniqueIds' /\ IdsFit'
  BY MethodLocks, MethodAlone, MethodRefs, MethodToCount, MethodIds
<1> QED BY <1>1, <1>2, <1>3, <1>4, <1>5, <1>6 DEF IInv

-----------------------------------------------------------------------------
(***************************************************************************)
(* What an iterator has ahead of it as it goes on                          *)
(***************************************************************************)
AheadOf(kind, place, node, bucket) ==
  {m \in Nodes :
     IF place = "walk" THEN \E c \in Buckets : c >= bucket /\ m \in Range(ppHashChains[c])
     ELSE \/ Precedes(ppHashChains[bucket], node, m)
          \/ kind # "chain" /\ \E c \in Buckets : c > bucket /\ m \in Range(ppHashChains[c])}

LEMMA AheadIs == \A i : Ahead(i) = AheadOf(i.kind, i.place, i.node, i.bucket)
BY DEF Ahead, AheadOf

\* There is nothing after None, and an element is not ahead of itself.
LEMMA NotAheadOfItself ==
  ASSUME TInv, NEW b \in Buckets, NEW n \in Range(ppHashChains[b]) \cup {None}, NEW k, NEW p, p # "walk"
  PROVE  n \notin AheadOf(k, p, n, b)
<1>2. SUFFICES ASSUME n \in AheadOf(k, p, n, b) PROVE FALSE
  OBVIOUS
<1>3. n \in Nodes /\ n # None /\ n \in Range(ppHashChains[b]) /\ ppHashChains[b] \in Seq(Nodes)
      /\ Distinct(ppHashChains[b])
  BY <1>2, HashAssumption DEF AheadOf, TInv, TableType, OnePlace
<1>4. ~ Precedes(ppHashChains[b], n, n)
  BY <1>3, OrderIsStrict
<1>5. \A c \in Buckets : c > b => n \notin Range(ppHashChains[c])
  <2> SUFFICES ASSUME NEW c \in Buckets, c > b, n \in Range(ppHashChains[c]) PROVE FALSE
    OBVIOUS
  <2>1. c # b
    BY BucketsAre
  <2> QED BY <1>3, <2>1 DEF TInv, OnePlace
<1> QED BY <1>2, <1>4, <1>5 DEF AheadOf

\* The step to the next element of the chain, to the end, and to the next bucket.
LEMMA Onward ==
  ASSUME TInv, NEW b \in Buckets, NEW n, NEW k, NEW p, p # "walk"
  PROVE  /\ After(b, n) # None => AheadOf(k, "stand", After(b, n), b) = AheadOf(k, p, n, b) \ {After(b, n)}
         /\ After(b, n) = None /\ (b = last \/ k = "chain") => AheadOf(k, p, n, b) = {}
         /\ After(b, n) = None /\ b # last /\ k # "chain" =>
              b + 1 \in Buckets /\ AheadOf(k, "walk", None, b + 1) = AheadOf(k, p, n, b)
<1>1. TInv /\ Buckets \subseteq Nat /\ last \in Buckets /\ \A c \in Buckets : c <= last
  BY BucketsAre DEF Buckets, last
<1>2. /\ After(b, n) = None => \A y : ~ Precedes(ppHashChains[b], n, y)
      /\ After(b, n) # None =>
           /\ After(b, n) \in Range(ppHashChains[b]) /\ After(b, n) # n
           /\ \A y : Precedes(ppHashChains[b], n, y) <=>
                       y = After(b, n) \/ Precedes(ppHashChains[b], After(b, n), y)
  BY AfterOrder
<1>3. CASE After(b, n) # None
  <2> DEFINE m == After(b, n)
  <2>1. m \notin AheadOf(k, "stand", m, b)
    BY <1>2, <1>3, NotAheadOfItself
  <2> HIDE DEF m
  <2>2. \A y \in Nodes : Precedes(ppHashChains[b], n, y) <=> y = m \/ Precedes(ppHashChains[b], m, y)
    BY <1>2, <1>3 DEF m
  <2>3. AheadOf(k, "stand", m, b) = AheadOf(k, p, n, b) \ {m}
    BY <2>1, <2>2 DEF AheadOf
  <2> QED BY <1>3, <2>3 DEF m
<1>4. CASE After(b, n) = None /\ (b = last \/ k = "chain")
  <2>1. \A c \in Buckets : ~ (c > last)
    BY <1>1
  <2>2. AheadOf(k, p, n, b) = {}
    BY <1>2, <1>4, <2>1 DEF AheadOf
  <2> QED BY <1>4, <2>2
<1>5. CASE After(b, n) = None /\ b # last /\ k # "chain"
  <2>1. b + 1 \in Buckets
    BY <1>5, HashAssumption DEF Buckets, last
  <2>2. \A c \in Buckets : c >= b + 1 <=> c > b
    BY <1>1
  <2>3. AheadOf(k, "walk", None, b + 1) = AheadOf(k, p, n, b)
    BY <1>2, <1>5, <2>2 DEF AheadOf
  <2> QED BY <1>5, <2>1, <2>3
<1> QED BY <1>3, <1>4, <1>5

\* The step into a bucket.
LEMMA IntoBucket ==
  ASSUME TInv, NEW b \in Buckets, NEW k, k # "chain"
  PROVE  /\ HeadOf(b) # None => AheadOf(k, "stand", HeadOf(b), b) = AheadOf(k, "walk", None, b) \ {HeadOf(b)}
         /\ HeadOf(b) = None /\ b = last => AheadOf(k, "walk", None, b) = {}
         /\ HeadOf(b) = None /\ b # last => AheadOf(k, "walk", None, b + 1) = AheadOf(k, "walk", None, b)
         /\ b # last => /\ b + 1 \in Buckets
                        /\ AheadOf(k, "walk", None, b + 1) = AheadOf(k, "walk", None, b) \ Range(ppHashChains[b])
         /\ AheadOf(k, "walk", None, last) \subseteq Range(ppHashChains[last])
<1>1. TInv /\ Buckets \subseteq Nat /\ last \in Buckets /\ \A c \in Buckets : c <= last
  BY BucketsAre DEF Buckets, last
<1>2. /\ HeadOf(b) = None => \A y : y \notin Range(ppHashChains[b])
      /\ HeadOf(b) # None =>
           /\ HeadOf(b) \in Range(ppHashChains[b])
           /\ \A y : y \in Range(ppHashChains[b]) <=> y = HeadOf(b) \/ Precedes(ppHashChains[b], HeadOf(b), y)
  BY HeadIs
<1>3. HeadOf(b) # None => AheadOf(k, "stand", HeadOf(b), b) = AheadOf(k, "walk", None, b) \ {HeadOf(b)}
  <2> SUFFICES ASSUME HeadOf(b) # None
               PROVE  AheadOf(k, "stand", HeadOf(b), b) = AheadOf(k, "walk", None, b) \ {HeadOf(b)}
    OBVIOUS
  <2> DEFINE h == HeadOf(b)
  <2>1. h \notin AheadOf(k, "stand", h, b)
    BY <1>2, NotAheadOfItself
  <2>2. \A y : y \in Range(ppHashChains[b]) <=> y = h \/ Precedes(ppHashChains[b], h, y)
    BY <1>2
  <2> HIDE DEF h
  <2>3. \A c \in Buckets : c >= b <=> c > b \/ c = b
    BY <1>1
  <2>4. AheadOf(k, "stand", h, b) = AheadOf(k, "walk", None, b) \ {h}
    BY <2>1, <2>2, <2>3 DEF AheadOf
  <2> QED BY <2>4 DEF h
<1>4. HeadOf(b) = None /\ b = last => AheadOf(k, "walk", None, b) = {}
  <2>1. \A c \in Buckets : c >= last => c = last
    BY <1>1
  <2> QED BY <1>2, <2>1 DEF AheadOf
<1>5. b # last => b + 1 \in Buckets
  BY HashAssumption DEF Buckets, last
<1>6. b # last => AheadOf(k, "walk", None, b + 1) = AheadOf(k, "walk", None, b) \ Range(ppHashChains[b])
  <2>1. \A c \in Buckets : /\ c >= b + 1 <=> c > b
                           /\ c >= b <=> c > b \/ c = b
    BY <1>1
  <2>2. \A c \in Buckets : c > b => Range(ppHashChains[c]) \cap Range(ppHashChains[b]) = {}
    <3> SUFFICES ASSUME NEW c \in Buckets, c > b PROVE Range(ppHashChains[c]) \cap Range(ppHashChains[b]) = {}
      OBVIOUS
    <3>1. c # b
      BY <1>1
    <3> QED BY <3>1 DEF TInv, OnePlace
  <2> QED BY <2>1, <2>2 DEF AheadOf
<1>7. HeadOf(b) = None /\ b # last => AheadOf(k, "walk", None, b + 1) = AheadOf(k, "walk", None, b)
  <2> SUFFICES ASSUME HeadOf(b) = None, b # last
               PROVE  AheadOf(k, "walk", None, b + 1) = AheadOf(k, "walk", None, b)
    OBVIOUS
  <2>1. Range(ppHashChains[b]) = {}
    BY <1>2
  <2> QED BY <1>6, <2>1
<1>8. AheadOf(k, "walk", None, last) \subseteq Range(ppHashChains[last])
  <2>1. \A c \in Buckets : c >= last => c = last
    BY <1>1
  <2> QED BY <2>1 DEF AheadOf
<1> QED BY <1>3, <1>4, <1>5, <1>6, <1>7, <1>8

\* Where an iterator begins: with the first bucket, or in a chain of its own.
LEMMA AtStart ==
  ASSUME TInv, NEW b \in Buckets, NEW k
  PROVE  /\ b = 0 /\ k # "chain" => Linked \ {HeadOf(b)} = Linked \cap AheadOf(k, "init", HeadOf(b), b)
         /\ Range(ppHashChains[b]) \ {HeadOf(b)} =
              Range(ppHashChains[b]) \cap AheadOf(k, "init", HeadOf(b), b)
         /\ b = 0 => Linked = Linked \cap AheadOf(k, "walk", None, b)
<1> DEFINE h == HeadOf(b)
           q == ppHashChains[b]
<1>1. Buckets \subseteq Nat /\ ppHashChains \in [Buckets -> Seq(Nodes)] /\ None \notin Nodes
  BY BucketsAre, HashAssumption DEF TInv, TableType
<1>2. Linked \in SUBSET Nodes /\ \A n : n \in Linked <=> \E c \in Buckets : n \in Range(ppHashChains[c])
  BY <1>1, LinkedIs
<1>3. /\ h = None => \A y : y \notin Range(q)
      /\ h # None => h \in Range(q) /\ \A y : y \in Range(q) <=> y = h \/ Precedes(q, h, y)
  BY HeadIs
<1>4. h \notin AheadOf(k, "init", h, b)
  BY <1>3, NotAheadOfItself
<1>5. Range(q) \subseteq Nodes
  BY <1>1 DEF Range
<1> HIDE DEF h, q
<1>6. Range(q) \ {h} = Range(q) \cap AheadOf(k, "init", h, b)
  BY <1>3, <1>4, <1>5 DEF AheadOf, q
<1>7. b = 0 /\ k # "chain" => Linked \ {h} = Linked \cap AheadOf(k, "init", h, b)
  <2>1. b = 0 => \A c \in Buckets : c > b \/ c = b
    BY <1>1
  <2>2. b = 0 /\ k # "chain" => \A y \in Linked \ {h} : y \in AheadOf(k, "init", h, b)
    BY <1>2, <1>3, <2>1 DEF AheadOf, q
  <2> QED BY <1>4, <2>2
<1>8. b = 0 => Linked = Linked \cap AheadOf(k, "walk", None, b)
  <2>1. b = 0 => \A c \in Buckets : c >= b
    BY <1>1
  <2> QED BY <1>2, <2>1 DEF AheadOf
<1> QED BY <1>6, <1>7, <1>8 DEF h, q

-----------------------------------------------------------------------------
(***************************************************************************)
(* The steps of the iterators                                              *)
(***************************************************************************)
\* A step that leaves the chains, the keys and the ids: what is left to show of it.
LEMMA IterSteps ==
  ASSUME IInv, NEW t \in Threads, SameTable, TableType',
         UNCHANGED <<bucketCounter, numberOfElements, pc, call, held>>,
         pBucketLock' \in [Buckets -> Threads \cup {None}],
         ItersType', \A u \in Threads \ {t} : iter'[u] = iter[u] /\ (destroying' = u <=> destroying = u),
         RefsAccounted', LocksFit', Alone', IterFits(t)', TodoFits(t)'
  PROVE  IInv'
<1>1. TInv /\ ThreadsType /\ numberOfElements \in Nat /\ usage' = usage /\ ppHashChains' = ppHashChains
  BY Typed DEF SameTable
<1>2. OnePlace' /\ Placed' /\ Linked' = Linked /\ \A i : Ahead(i)' = Ahead(i)
  BY <1>1, SameIs
<1>3. Shrunk({})
  BY SameShrinks
<1>4. IterTypeOK'
  BY <1>1, Types DEF ThreadsType
<1>5. ASSUME NEW u \in Threads PROVE CallFits(u)' /\ HeldFits(u)' /\ XFits(u)'
  <2>1. References' = References /\ CallFits(u)
    BY <1>1 DEF References, IInv
  <2>2. CallFits(u)'
    BY <1>1, <2>1 DEF CallFits
  <2> QED BY <1>3, <2>2, ShrunkHeld, ShrunkExclusive
<1>6. UniqueIds' /\ IdsFit'
  <2>1. \A b \in Buckets : Adders(b)' = Adders(b)
    BY DEF Adders, Bucket
  <2> QED BY <1>3, <2>1, ShrunkIds
<1>7. CountAccounted' /\ ToCountIsThere'
  <2>1. CountAccounted'
    BY <1>2 DEF IInv, CountAccounted
  <2>2. \A u \in Threads : Chain(call[u].ref)' = Chain(call[u].ref)
    BY <1>1 DEF Chain, Bucket
  <2> QED BY <2>1, <2>2 DEF IInv, ToCountIsThere
<1>8. ASSUME NEW u \in Threads \ {t} PROVE IterFits(u)' /\ TodoFits(u)'
  <2>1. IterFits(u)'
    <3>1. IterFits(u)
      BY DEF IInv
    <3> QED BY <1>1, <3>1 DEF IterFits
  <2>2. TodoFits(u)'
    <3>1. TodoFits(u) /\ iter'[u] = iter[u]
      BY DEF IInv
    <3>2. Ahead(iter[u])' = Ahead(iter[u])
      BY <1>1, <3>1 DEF Ahead
    <3> QED BY <1>2, <3>1, <3>2 DEF TodoFits
  <2> QED BY <2>1, <2>2
<1> QED BY <1>2, <1>4, <1>5, <1>6, <1>7, <1>8 DEF IInv

\* While an iterator is under way, the destructor is not.
LEMMA NotDestroying ==
  ASSUME IInv, NEW t \in Threads, iter[t].kind \notin {"none", "destroy"}
  PROVE  destroying = None
<1>1. destroying # t
  BY DEF IInv, IterFits
<1>2. iter[t] # NoIterator
  BY DEF NoIterator
<1> QED BY <1>1, <1>2 DEF IInv, Alone

LEMMA AloneFollows ==
  ASSUME IInv, NEW t \in Threads, UNCHANGED <<pc, call>>, destroying' = None,
         \/ Initialising' \subseteq Initialising
         \/ Initialising' \subseteq {t} /\ Quiet(t)
  PROVE  Alone'
<1>1. ASSUME NEW w \in Initialising' PROVE Quiet(w)'
  <2>1. CASE Initialising' \subseteq Initialising
    <3>1. Quiet(w)
      BY <1>1, <2>1 DEF IInv, Alone
    <3> QED BY <2>1, <3>1 DEF Quiet
  <2>2. CASE Initialising' \subseteq {t} /\ Quiet(t)
    <3>1. w = t
      BY <1>1, <2>2
    <3> QED BY <2>2, <3>1 DEF Quiet
  <2> QED BY <2>1, <2>2
<1> QED BY <1>1 DEF Alone

\* A thread takes and gives back locks of its own.
LEMMA LocksFollow ==
  ASSUME IInv, NEW t \in Threads, UNCHANGED <<pc, call>>, \A u \in Threads \ {t} : iter'[u] = iter[u],
         \A b \in Buckets : \/ pBucketLock'[b] = pBucketLock[b]
                            \/ {pBucketLock'[b], pBucketLock[b]} \subseteq {t, None},
         \A b \in Buckets : pBucketLock'[b] = t <=> Has(t, b)'
  PROVE  LocksFit'
<1>1. ASSUME NEW u \in Threads, NEW b \in Buckets PROVE pBucketLock'[b] = u <=> Has(u, b)'
  <2>1. CASE u = t
    BY <2>1
  <2>2. CASE u # t
    <3>1. Has(u, b)' <=> Has(u, b)
      BY <2>2 DEF Has, Bucket
    <3>2. pBucketLock[b] = u <=> Has(u, b)
      BY DEF IInv, LocksFit
    <3>3. u # None
      BY HashAssumption
    <3> QED BY <2>2, <3>1, <3>2, <3>3
  <2> QED BY <2>1, <2>2
<1> QED BY <1>1 DEF LocksFit

\* An iterator that does not lock has nothing to do with the locks.
LEMMA LocksStay ==
  ASSUME IInv, NEW t \in Threads, UNCHANGED <<pc, call, pBucketLock>>,
         \A u \in Threads \ {t} : iter'[u] = iter[u],
         \A b \in Buckets : Has(t, b)' <=> Has(t, b)
  PROVE  LocksFit'
BY LocksFollow DEF IInv, LocksFit

\* Reference counts that follow one iterator.
LEMMA CountedIs ==
  ASSUME IInv, NEW t \in Threads, NEW d1 \in Int, NEW n1, NEW d2 \in Int, NEW n2, Counted(d1, n1, d2, n2),
         UNCHANGED <<usage, ppHashChains, bucketCounter, held>>,
         \A u \in Threads \ {t} : iter'[u] = iter[u],
         {n1, n2} \subseteq Linked \cup {None},
         \A n \in Linked : (IF n = n1 THEN d1 ELSE 0) + (IF n = n2 THEN d2 ELSE 0) =
                             (IF Counts(iter'[t], n) THEN 1 ELSE 0) - (IF Counts(iter[t], n) THEN 1 ELSE 0)
  PROVE  SameTable /\ TableType' /\ RefsAccounted'
<1>1. TInv /\ None \notin Nodes /\ Linked' = Linked /\ Linked \subseteq Nodes
  BY Typed, LinkedIs, HashAssumption DEF TInv, TableType, Linked
<1>2. ASSUME NEW n \in Nodes
      PROVE  /\ element[n] \in [key : Keys \cup {None}, id : Ids, refs : Nat]
             /\ element'[n] = [key |-> element[n].key, id |-> element[n].id, refs |-> element'[n].refs]
             /\ element'[n].key = element[n].key /\ element'[n].id = element[n].id
             /\ element'[n].refs = element[n].refs + (IF n = n1 THEN d1 ELSE 0) + (IF n = n2 THEN d2 ELSE 0)
  <2>1. element[n] \in [key : Keys \cup {None}, id : Ids, refs : Nat]
    BY <1>1 DEF TInv, TableType
  <2>2. element'[n] = [element[n] EXCEPT !.refs =
                         element[n].refs + (IF n = n1 THEN d1 ELSE 0) + (IF n = n2 THEN d2 ELSE 0)]
    BY DEF Counted
  <2> QED BY <2>1, <2>2
<1>3. SameTable
  BY <1>2 DEF SameTable
<1>4. ASSUME NEW n \in Linked
      PROVE  element'[n].refs = element[n].refs + (IF held'[t].node = n THEN 1 ELSE 0)
                                                - (IF held[t].node = n THEN 1 ELSE 0)
                                                + (IF Counts(iter'[t], n) THEN 1 ELSE 0)
                                                - (IF Counts(iter[t], n) THEN 1 ELSE 0)
  <2>1. element[n].refs \in Nat
    BY <1>1 DEF TInv, TableType
  <2>2. PICK x \in Int, y \in Int : /\ x = (IF n = n1 THEN d1 ELSE 0) /\ y = (IF n = n2 THEN d2 ELSE 0)
    OBVIOUS
  <2>3. PICK z \in {0, 1}, w \in {0, 1} : /\ z = (IF Counts(iter'[t], n) THEN 1 ELSE 0)
                                          /\ w = (IF Counts(iter[t], n) THEN 1 ELSE 0)
    OBVIOUS
  <2>4. element'[n].refs = element[n].refs + x + y /\ x + y = z - w
    BY <1>1, <1>2, <2>2, <2>3
  <2>5. element'[n].refs = element[n].refs + 0 - 0 + z - w /\ element'[n].refs = element[n].refs + 1 - 1 + z - w
    BY <2>1, <2>2, <2>3, <2>4
  <2> QED BY <2>3, <2>5
<1>5. RefsAccounted'
  BY <1>1, <1>4, RefsFollow
<1>6. ASSUME NEW n \in Nodes PROVE element'[n].refs \in Nat
  <2>1. CASE n \in Linked
    <3>1. element'[n].refs = 1 + Cardinality(Fetchers(n)') + Cardinality(Standers(n)')
      BY <1>1, <1>5, <2>1, RefsAre
    <3>2. Fetchers(n)' \in SUBSET Threads /\ Standers(n)' \in SUBSET Threads
      BY DEF Fetchers, Standers
    <3>3. Cardinality(Fetchers(n)') \in Nat /\ Cardinality(Standers(n)') \in Nat
      BY <3>2, HashAssumption, FS_Subset, FS_CardinalityType
    <3> QED BY <3>1, <3>3
  <2>2. CASE n \notin Linked
    <3>1. n # n1 /\ n # n2
      BY <1>1, <2>2
    <3>2. element'[n].refs = element[n].refs + 0 + 0 /\ element[n].refs \in Nat
      BY <1>2, <3>1
    <3> QED BY <3>2
  <2> QED BY <2>1, <2>2
<1>7. element' \in [Nodes -> [key : Keys \cup {None}, id : Ids, refs : Nat]]
  <2>1. ASSUME NEW n \in Nodes PROVE element'[n] \in [key : Keys \cup {None}, id : Ids, refs : Nat]
    <3>1. PICK k \in Keys \cup {None}, d \in Ids, r \in Nat : element'[n] = [key |-> k, id |-> d, refs |-> r]
      BY <1>2, <1>6
    <3> QED BY <3>1
  <2>2. element' = [n \in Nodes |-> element'[n]]
    BY DEF Counted
  <2> QED BY <2>1, <2>2
<1>8. TableType'
  BY <1>1, <1>7 DEF TInv, TableType
<1> QED BY <1>3, <1>5, <1>8

\* There is nothing left to come to for an iterator at the end.
LEMMA AtEnd ==
  ASSUME TInv, NEW b \in Buckets, NEW k, b = last \/ k = "chain"
  PROVE  AheadOf(k, "stand", None, b) = {}
<1>1. \A y : ~ Precedes(ppHashChains[b], None, y)
  <2>1. None \notin Range(ppHashChains[b])
    BY HashAssumption DEF TInv, TableType, Range
  <2> QED BY <2>1 DEF Precedes, Range
<1>2. b = last => \A c \in Buckets : ~ (c > b)
  BY DEF Buckets, last
<1> QED BY <1>1, <1>2 DEF AheadOf

\* An iterator comes to the next element, or to the next place of its method.
LEMMA ComeInvariant ==
  ASSUME IInv, NEW t \in Threads, NEW p \in {"stand", "next", "walk"}, NEW m \in Nodes \cup {None},
         NEW b \in Buckets, Come(t, p, m, b), destroying' = destroying,
         iter[t].kind \in Shared \cup Excl, pc[t] = "idle",
         SameTable, TableType', UNCHANGED <<bucketCounter, numberOfElements, pc, call, held>>,
         pBucketLock' \in [Buckets -> Threads \cup {None}], RefsAccounted', LocksFit',
         p # "stand" => iter[t].kind # "chain" /\ m = None,
         m # None => m \in Range(ppHashChains[b]),
         p = "stand" /\ m = None /\ iter[t].kind # "chain" => b = last,
         AheadOf(iter[t].kind, p, m, b) = Ahead(iter[t]) \ {m}
  PROVE  IInv'
<1> DEFINE i == iter[t]
           j == iter'[t]
<1>1. TInv /\ ItersType /\ IterFits(t) /\ TodoFits(t) /\ i \in IterType
  BY Typed DEF IInv, ItersType
<1>2. destroying = None
  BY NotDestroying DEF Shared, Excl
<1>3. /\ j = [kind |-> i.kind, place |-> p, node |-> m, bucket |-> b, kept |-> i.kept, todo |-> i.todo \ {m}]
      /\ \A u \in Threads \ {t} : iter'[u] = iter[u]
      /\ iter' = [u \in Threads |-> iter'[u]]
  BY <1>1 DEF Come, ItersType, IterType
<1>4. ItersType'
  <2>1. j \in IterType
    BY <1>1, <1>3 DEF IterType
  <2>2. \A u \in Threads : iter'[u] \in IterType
    BY <1>1, <1>3, <2>1 DEF ItersType
  <2> QED BY <1>1, <1>3, <2>2 DEF ItersType
<1>5. \A u \in Threads \ {t} : iter'[u] = iter[u] /\ (destroying' = u <=> destroying = u)
  BY <1>3
<1>6. Alone'
  <2>1. Initialising' \subseteq Initialising
    BY <1>3 DEF Initialising
  <2> QED BY <1>2, <2>1, AloneFollows
<1>7. IterFits(t)'
  <2>1. usage' = usage /\ ppHashChains' = ppHashChains
    BY DEF SameTable
  <2>2. destroying' # t
    BY <1>2, HashAssumption
  <2>3. /\ i.kind \in Shared => usage = "iterated"
        /\ i.kind \in Excl => usage = "xiterated"
    BY <1>1 DEF IterFits
  <2> HIDE DEF i, j
  <2>4. i.kind \in Shared \cup Excl
    BY DEF i
  <2>5. p # "stand" => i.kind # "chain" /\ m = None
    BY DEF i
  <2>6. p = "stand" /\ m = None /\ i.kind # "chain" => b = last
    BY DEF i
  <2> QED BY <1>3, <2>1, <2>2, <2>3, <2>4, <2>5, <2>6 DEF IterFits, Shared, Excl, j
<1>8. TodoFits(t)'
  <2>1. i.kept \subseteq Linked /\ i.todo = i.kept \cap Ahead(i)
    BY <1>1 DEF TodoFits, Shared, Excl
  <2>2. PICK r : r = j
    OBVIOUS
  <2>3. Linked' = Linked /\ Ahead(r)' = Ahead(r)
    BY <1>1, SameIs
  <2>4. Ahead(iter[t])' = AheadOf(i.kind, p, m, b)
    <3>1. Ahead(r) = AheadOf(i.kind, p, m, b)
      BY <1>3, <2>2, AheadIs
    <3>2. Ahead(iter[t])' = Ahead(r)'
      BY <2>2
    <3> QED BY <2>3, <3>1, <3>2
  <2>5. j.kept = i.kept /\ j.todo = i.todo \ {m}
    BY <1>3
  <2> HIDE DEF i, j
  <2>6. Ahead(i) \ {m} = AheadOf(i.kind, p, m, b)
    BY DEF i
  <2>7. i.kept \subseteq Linked' /\ i.todo \ {m} = i.kept \cap Ahead(iter[t])'
    BY <2>1, <2>3, <2>4, <2>6
  <2> QED BY <2>5, <2>7 DEF TodoFits, j
<1> QED BY <1>4, <1>5, <1>6, <1>7, <1>8, IterSteps

\* A step of an iterator that counts references.
LEMMA SharedCome ==
  ASSUME IInv, NEW t \in Threads, NEW p \in {"stand", "next", "walk"}, NEW m \in Nodes \cup {None},
         NEW b \in Buckets, Come(t, p, m, b), destroying' = destroying,
         iter[t].kind \in Shared, pc[t] = "idle",
         NEW d1 \in Int, NEW n1, NEW d2 \in Int, NEW n2, Counted(d1, n1, d2, n2),
         UNCHANGED <<usage, ppHashChains, bucketCounter, numberOfElements, pBucketLock, pc, call, held>>,
         {n1, n2} \subseteq Linked \cup {None},
         \A n \in Linked : (IF n = n1 THEN d1 ELSE 0) + (IF n = n2 THEN d2 ELSE 0) =
                             (IF n = m THEN 1 ELSE 0)
                               - (IF iter[t].place # "init" /\ n = iter[t].node THEN 1 ELSE 0),
         p # "stand" => iter[t].kind # "chain" /\ m = None,
         m # None => m \in Range(ppHashChains[b]),
         p = "stand" /\ m = None /\ iter[t].kind # "chain" => b = last,
         AheadOf(iter[t].kind, p, m, b) = Ahead(iter[t]) \ {m}
  PROVE  IInv'
<1> DEFINE i == iter[t]
           j == iter'[t]
<1>1. i \in IterType /\ ItersType
  BY Typed DEF ItersType
<1>2. /\ j.kind = i.kind /\ j.place = p /\ j.node = m
      /\ \A u \in Threads \ {t} : iter'[u] = iter[u]
  BY <1>1 DEF Come, ItersType, IterType
<1>3. \A n : /\ Counts(j, n) <=> n = m
             /\ Counts(i, n) <=> i.place # "init" /\ n = i.node
  BY <1>2 DEF Counts, Shared
<1> HIDE DEF i, j
<1>4. SameTable /\ TableType' /\ RefsAccounted'
  <2>1. \A n \in Linked : (IF n = n1 THEN d1 ELSE 0) + (IF n = n2 THEN d2 ELSE 0) =
                             (IF Counts(j, n) THEN 1 ELSE 0) - (IF Counts(i, n) THEN 1 ELSE 0)
    BY <1>3 DEF i
  <2> QED BY <1>2, <2>1, CountedIs DEF i, j
<1>5. LocksFit'
  <2>1. \A c \in Buckets : Has(t, c)' <=> Has(t, c)
    BY <1>2 DEF Has, Shared, Excl, Bucket, i, j
  <2> QED BY <1>2, <2>1, LocksStay
<1>6. pBucketLock' \in [Buckets -> Threads \cup {None}]
  BY Typed DEF ThreadsType
<1> QED BY <1>4, <1>5, <1>6, ComeInvariant

LEMMA SharedSteps ==
  ASSUME IInv, NEW t \in Threads, InitCount(t) \/ NextElement(t) \/ Walk(t) \/ NextInChain(t)
  PROVE  IInv'
<1> DEFINE n == iter[t].node
           b == iter[t].bucket
           k == iter[t].kind
<1>1. TInv /\ iter[t] \in IterType /\ IterFits(t)
  BY Typed DEF IInv, ItersType
<1>2. /\ b \in Buckets /\ n \in Nodes \cup {None} /\ n \in Linked \cup {None} /\ n \in Range(ppHashChains[b]) \cup {None}
      /\ iter[t].place # "stand" => pc[t] = "idle"
      /\ iter[t].place = "walk" => n = None
  BY <1>1, ThreadsHaveLinked DEF IterType, IterFits
<1>3. Ahead(iter[t]) = AheadOf(k, iter[t].place, n, b)
  BY AheadIs
<1>4. /\ None \notin Linked /\ Linked \subseteq Nodes
      /\ \A x \in Range(ppHashChains[b]) : x \in Linked /\ x \in Nodes /\ x # None
  BY <1>1, <1>2, LinkedIs, HashAssumption DEF TInv, TableType
<1>5. CASE InitCount(t)
  <2> DEFINE p == IF k = "shared" /\ n = None THEN "next" ELSE "stand"
  <2>1. /\ Come(t, p, n, b) /\ Counted(1, n, 0, None) /\ k \in Shared /\ iter[t].place = "init"
        /\ destroying' = destroying
        /\ UNCHANGED <<usage, ppHashChains, bucketCounter, numberOfElements, pBucketLock, pc, call, held>>
    BY <1>5 DEF InitCount, Shared
  <2>2. /\ p \in {"stand", "next", "walk"} /\ pc[t] = "idle"
        /\ p # "stand" => k # "chain" /\ n = None
        /\ p = "stand" /\ n = None /\ k # "chain" => b = last
    BY <1>2, <2>1 DEF Shared
  <2>3. n \notin AheadOf(k, "init", n, b)
    BY <1>1, <1>2, NotAheadOfItself
  <2>4. AheadOf(k, p, n, b) = AheadOf(k, "init", n, b)
    BY <2>2 DEF AheadOf
  <2>5. \A x \in Linked : (IF x = n THEN 1 ELSE 0) + (IF x = None THEN 0 ELSE 0) =
          (IF x = n THEN 1 ELSE 0) - (IF iter[t].place # "init" /\ x = n THEN 1 ELSE 0)
    BY <2>1
  <2>6. AheadOf(k, p, n, b) = Ahead(iter[t]) \ {n}
    BY <1>3, <2>1, <2>3, <2>4
  <2>7. n # None => n \in Range(ppHashChains[b])
    BY <1>2
  <2>8. 0 \in Int /\ 1 \in Int /\ {n, None} \subseteq Linked \cup {None} /\ b \in Buckets /\ n \in Nodes \cup {None}
    BY <1>2
  <2> HIDE DEF p
  <2> QED BY <2>1, <2>2, <2>5, <2>6, <2>7, <2>8, SharedCome
<1>6. ASSUME NextElement(t) \/ NextInChain(t) PROVE IInv'
  <2> DEFINE m == After(b, n)
             p == IF m # None \/ b = last \/ k = "chain" THEN "stand" ELSE "walk"
             c == IF m # None \/ b = last \/ k = "chain" THEN b ELSE b + 1
  <2>1. /\ Come(t, p, m, c) /\ Counted(-1, n, 1, m) /\ k \in Shared /\ iter[t].place \in {"stand", "next"}
        /\ pc[t] = "idle" /\ destroying' = destroying
        /\ UNCHANGED <<usage, ppHashChains, bucketCounter, numberOfElements, pBucketLock, pc, call, held>>
    <3>1. CASE NextElement(t)
      <4>1. k = "shared" /\ (m # None \/ b = last => p = "stand" /\ c = b)
            /\ (~ (m # None \/ b = last) => p = "walk" /\ c = b + 1 /\ m = None)
        BY <3>1 DEF NextElement, Standing
      <4>2. IF m # None \/ b = last THEN Come(t, "stand", m, b) ELSE Come(t, "walk", None, b + 1)
        BY <3>1 DEF NextElement
      <4>3. Come(t, p, m, c)
        <5> HIDE DEF p, m, c
        <5> QED BY <4>1, <4>2
      <4> QED BY <1>2, <3>1, <4>1, <4>3 DEF NextElement, Standing, Shared
    <3>2. CASE NextInChain(t)
      <4>1. k = "chain" /\ p = "stand" /\ c = b
        BY <3>2 DEF NextInChain, Standing
      <4>2. Come(t, p, m, c)
        BY <3>2, <4>1 DEF NextInChain
      <4> QED BY <1>2, <3>2, <4>1, <4>2 DEF NextInChain, Standing, Shared
    <3> QED BY <1>6, <3>1, <3>2
  <2>2. m # None => m \in Range(ppHashChains[b])
    BY <1>1, <1>2, AfterOrder
  <2>3. /\ m # None => AheadOf(k, "stand", m, b) = AheadOf(k, iter[t].place, n, b) \ {m}
        /\ m = None /\ (b = last \/ k = "chain") => AheadOf(k, iter[t].place, n, b) = {}
        /\ m = None /\ b # last /\ k # "chain" =>
              b + 1 \in Buckets /\ AheadOf(k, "walk", None, b + 1) = AheadOf(k, iter[t].place, n, b)
    BY <1>1, <1>2, <2>1, Onward
  <2>4. b = last \/ k = "chain" => AheadOf(k, "stand", None, b) = {}
    BY <1>1, <1>2, AtEnd
  <2> HIDE DEF m
  <2>5. AheadOf(k, p, m, c) = Ahead(iter[t]) \ {m} /\ c \in Buckets /\ p \in {"stand", "next", "walk"}
    <3>1. CASE m # None
      BY <1>2, <1>3, <2>3, <3>1
    <3>2. CASE m = None /\ (b = last \/ k = "chain")
      BY <1>2, <1>3, <2>3, <2>4, <3>2
    <3>3. CASE m = None /\ b # last /\ k # "chain"
      <4>1. None \notin AheadOf(k, "walk", None, b + 1)
        BY HashAssumption DEF AheadOf
      <4> QED BY <1>2, <1>3, <2>3, <3>3, <4>1
    <3> QED BY <3>1, <3>2, <3>3
  <2>6. /\ p # "stand" => k # "chain" /\ m = None
        /\ m # None => m \in Range(ppHashChains[c])
        /\ p = "stand" /\ m = None /\ k # "chain" => c = last
    BY <2>2
  <2>7. m \in Nodes \cup {None} /\ m \in Linked \cup {None}
    BY <1>4, <2>2
  <2>8. \A x \in Linked : (IF x = n THEN -1 ELSE 0) + (IF x = m THEN 1 ELSE 0) =
          (IF x = m THEN 1 ELSE 0) - (IF iter[t].place # "init" /\ x = n THEN 1 ELSE 0)
    BY <2>1
  <2> HIDE DEF p, c
  <2>9. -1 \in Int /\ {n, m} \subseteq Linked \cup {None}
    BY <1>2, <2>7
  <2> QED BY <2>1, <2>5, <2>6, <2>7, <2>8, <2>9, SharedCome
<1>7. CASE Walk(t)
  <2> DEFINE m == HeadOf(b)
             p == IF m # None \/ b = last THEN "stand" ELSE "walk"
             c == IF m # None \/ b = last THEN b ELSE b + 1
  <2>1. /\ Counted(0, None, 1, m) /\ k \in Shared /\ k # "chain" /\ iter[t].place = "walk"
        /\ destroying' = destroying
        /\ UNCHANGED <<usage, ppHashChains, bucketCounter, numberOfElements, pBucketLock, pc, call, held>>
    BY <1>7 DEF Walk, Shared
  <2>2. m # None => m \in Range(ppHashChains[b])
    BY <1>1, <1>2, HeadIs
  <2>3. /\ m # None => AheadOf(k, "stand", m, b) = AheadOf(k, "walk", None, b) \ {m}
        /\ m = None /\ b = last => AheadOf(k, "walk", None, b) = {}
        /\ m = None /\ b # last => AheadOf(k, "walk", None, b + 1) = AheadOf(k, "walk", None, b)
        /\ b # last => b + 1 \in Buckets
    BY <1>1, <1>2, <2>1, IntoBucket
  <2>4. b = last => AheadOf(k, "stand", None, b) = {}
    BY <1>1, <1>2, AtEnd
  <2>5. IF m # None \/ b = last THEN Come(t, "stand", m, b) ELSE Come(t, "walk", None, b + 1)
    BY <1>7 DEF Walk
  <2> HIDE DEF m
  <2>6. Come(t, p, m, c)
    BY <2>5
  <2>7. AheadOf(k, p, m, c) = Ahead(iter[t]) \ {m} /\ c \in Buckets /\ p \in {"stand", "next", "walk"}
    <3>1. Ahead(iter[t]) = AheadOf(k, "walk", None, b) /\ None \notin AheadOf(k, "walk", None, b)
      BY <1>2, <1>3, <2>1, HashAssumption DEF AheadOf
    <3>2. CASE m # None
      BY <1>2, <2>3, <3>1, <3>2
    <3>3. CASE m = None /\ b = last
      BY <1>2, <2>3, <2>4, <3>1, <3>3
    <3>4. CASE m = None /\ b # last
      BY <2>3, <3>1, <3>4
    <3> QED BY <3>2, <3>3, <3>4
  <2>8. /\ p # "stand" => k # "chain" /\ m = None
        /\ m # None => m \in Range(ppHashChains[c])
        /\ p = "stand" /\ m = None /\ k # "chain" => c = last
    BY <2>1, <2>2
  <2>9. m \in Nodes \cup {None} /\ {None, m} \subseteq Linked \cup {None} /\ pc[t] = "idle"
    BY <1>2, <1>4, <2>1, <2>2
  <2>10. \A x \in Linked : (IF x = None THEN 0 ELSE 0) + (IF x = m THEN 1 ELSE 0) =
          (IF x = m THEN 1 ELSE 0) - (IF iter[t].place # "init" /\ x = n THEN 1 ELSE 0)
    BY <1>2, <1>4, <2>1
  <2> HIDE DEF p, c
  <2> QED BY <2>1, <2>6, <2>7, <2>8, <2>9, <2>10, SharedCome
<1> QED BY <1>5, <1>6, <1>7

\* A step of an iterator that locks.
LEMMA ExclCome ==
  ASSUME IInv, NEW t \in Threads, NEW p \in {"stand", "next", "walk"}, NEW m \in Nodes \cup {None},
         NEW b \in Buckets, Come(t, p, m, b), destroying' = destroying,
         iter[t].kind \in Excl,
         UNCHANGED <<usage, tableVars, numberOfElements, pc, call, held>>,
         NEW lock \in [Buckets -> Threads \cup {None}], pBucketLock' = lock,
         \A c \in Buckets : lock[c] = pBucketLock[c] \/ {lock[c], pBucketLock[c]} \subseteq {t, None},
         \A c \in Buckets : lock[c] = t <=> c = b /\ (p = "next" \/ (p = "stand" /\ m # None)),
         p # "stand" => m = None,
         m # None => m \in Range(ppHashChains[b]),
         p = "stand" /\ m = None => b = last,
         AheadOf(iter[t].kind, p, m, b) = Ahead(iter[t]) \ {m}
  PROVE  IInv'
<1> DEFINE i == iter[t]
           j == iter'[t]
<1>1. i \in IterType /\ ItersType /\ IterFits(t) /\ TInv
  BY Typed DEF IInv, ItersType
<1>2. /\ j.kind = i.kind /\ j.place = p /\ j.node = m /\ j.bucket = b
      /\ \A u \in Threads \ {t} : iter'[u] = iter[u]
  BY <1>1 DEF Come, ItersType, IterType
<1>3. pc[t] = "idle"
  BY <1>1 DEF IterFits
<1>4. SameTable /\ TableType' /\ Linked' = Linked
  <2>1. SameTable
    BY DEF SameTable, tableVars
  <2>2. TableType'
    BY <1>1 DEF TInv, TableType, tableVars
  <2> QED BY <1>1, <2>1, <2>2, SameIs
<1>5. RefsAccounted'
  <2>1. \A u \in Threads : \A n : Counts(iter'[u], n) <=> Counts(iter[u], n)
    BY <1>2 DEF Counts, Excl
  <2>2. \A n : Fetchers(n)' = Fetchers(n) /\ Standers(n)' = Standers(n)
    BY <2>1 DEF Fetchers, Standers
  <2>3. \A n \in Linked : element[n].refs = 1 + Cardinality(Fetchers(n)) + Cardinality(Standers(n))
    BY RefsAre DEF IInv
  <2> QED BY <1>4, <2>2, <2>3, RefsAre DEF tableVars
<1>6. LocksFit'
  <2>1. \A c \in Buckets : pBucketLock'[c] = t <=> Has(t, c)'
    BY <1>2, <1>3 DEF Has, Busy
  <2> QED BY <1>2, <2>1, LocksFollow
<1>7. iter[t].kind \in Shared \cup Excl /\ iter[t].kind # "chain"
  BY DEF Excl
<1> QED BY <1>3, <1>4, <1>5, <1>6, <1>7, ComeInvariant DEF tableVars

LEMMA ExclSteps ==
  ASSUME IInv, NEW t \in Threads, XInitLock(t) \/ XNext(t) \/ XWalk(t)
  PROVE  IInv'
<1> DEFINE n == iter[t].node
           b == iter[t].bucket
           k == iter[t].kind
<1>1. TInv /\ ThreadsType /\ iter[t] \in IterType /\ IterFits(t)
  BY Typed DEF IInv, ItersType
<1>2. /\ b \in Buckets /\ n \in Nodes \cup {None} /\ n \in Range(ppHashChains[b]) \cup {None}
      /\ iter[t].place \in {"next", "walk"} => n = None
      /\ t # None /\ pBucketLock \in [Buckets -> Threads \cup {None}]
  BY <1>1, HashAssumption DEF IterType, IterFits, ThreadsType
<1>3. Ahead(iter[t]) = AheadOf(k, iter[t].place, n, b)
  BY AheadIs
<1>4. /\ k \in Excl /\ k # "chain" /\ destroying' = destroying
      /\ UNCHANGED <<usage, tableVars, numberOfElements, pc, call, held>>
  BY DEF XInitLock, XNext, XWalk, Excl
<1>5. \A c \in Buckets : pBucketLock[c] = t <=>
        c = b /\ (iter[t].place = "next" \/ (iter[t].place = "stand" /\ n # None))
  <2>1. pc[t] = "idle"
    BY <1>1, <1>4 DEF IterFits
  <2> QED BY <1>4, <2>1 DEF IInv, LocksFit, Has, Busy
<1>6. \A x \in Range(ppHashChains[b]) : x \in Nodes /\ x # None
  BY <1>1, <1>2, HashAssumption DEF TInv, TableType, Range
<1>7. b = last => AheadOf(k, "stand", None, b) = {}
  BY <1>1, <1>2, AtEnd
<1>8. \A p, x, c : None \notin AheadOf(k, p, x, c)
  BY HashAssumption DEF AheadOf
<1>9. CASE XInitLock(t)
  <2> DEFINE p == IF n = None THEN "next" ELSE "stand"
             lock == [pBucketLock EXCEPT ![b] = t]
  <2>1. Come(t, p, n, b) /\ iter[t].place = "init" /\ pBucketLock[b] = None /\ pBucketLock' = lock
    BY <1>9 DEF XInitLock
  <2>2. p \in {"stand", "next", "walk"} /\ (p # "stand" => n = None) /\ (p = "stand" => n # None)
    OBVIOUS
  <2>3. n \notin AheadOf(k, "init", n, b)
    BY <1>1, <1>2, NotAheadOfItself
  <2>4. AheadOf(k, p, n, b) = AheadOf(k, "init", n, b)
    BY <2>2 DEF AheadOf
  <2>5. AheadOf(k, p, n, b) = Ahead(iter[t]) \ {n}
    BY <1>3, <2>1, <2>3, <2>4
  <2>6. \A c \in Buckets : lock[c] = t <=> c = b /\ (p = "next" \/ (p = "stand" /\ n # None))
    BY <1>2, <1>5, <2>1
  <2>7. /\ lock \in [Buckets -> Threads \cup {None}]
        /\ \A c \in Buckets : lock[c] = pBucketLock[c] \/ {lock[c], pBucketLock[c]} \subseteq {t, None}
    BY <1>2, <2>1
  <2>8. (n # None => n \in Range(ppHashChains[b])) /\ (p = "stand" /\ n = None => b = last)
    BY <1>2
  <2> HIDE DEF p, lock
  <2> QED BY <1>2, <1>4, <2>1, <2>2, <2>5, <2>6, <2>7, <2>8, ExclCome
<1>10. CASE XNext(t)
  <2> DEFINE m == After(b, n)
             p == IF m # None \/ b = last THEN "stand" ELSE "walk"
             c == IF m # None \/ b = last THEN b ELSE b + 1
             lock == IF m # None THEN pBucketLock ELSE [pBucketLock EXCEPT ![b] = None]
  <2>1. /\ iter[t].place = "next" \/ (iter[t].place = "stand" /\ n # None)
        /\ pBucketLock' = lock
        /\ IF m # None \/ b = last THEN Come(t, "stand", m, b) ELSE Come(t, "walk", None, b + 1)
    BY <1>10 DEF XNext
  <2>2. m # None => m \in Range(ppHashChains[b])
    BY <1>1, <1>2, AfterOrder
  <2>3. /\ m # None => AheadOf(k, "stand", m, b) = AheadOf(k, iter[t].place, n, b) \ {m}
        /\ m = None /\ (b = last \/ k = "chain") => AheadOf(k, iter[t].place, n, b) = {}
        /\ m = None /\ b # last /\ k # "chain" =>
              b + 1 \in Buckets /\ AheadOf(k, "walk", None, b + 1) = AheadOf(k, iter[t].place, n, b)
    BY <1>1, <1>2, <2>1, Onward
  <2> HIDE DEF m
  <2>4. Come(t, p, m, c)
    BY <2>1
  <2>5. AheadOf(k, p, m, c) = Ahead(iter[t]) \ {m} /\ c \in Buckets /\ p \in {"stand", "next", "walk"}
    <3>1. CASE m # None
      BY <1>2, <1>3, <2>3, <3>1
    <3>2. CASE m = None /\ b = last
      BY <1>2, <1>3, <1>7, <2>3, <3>2
    <3>3. CASE m = None /\ b # last
      BY <1>2, <1>3, <1>4, <1>8, <2>3, <3>3
    <3> QED BY <3>1, <3>2, <3>3
  <2>6. /\ p # "stand" => m = None
        /\ m # None => m \in Range(ppHashChains[c])
        /\ p = "stand" /\ m = None => c = last
        /\ m \in Nodes \cup {None}
    BY <1>6, <2>2
  <2>7. \A d \in Buckets : lock[d] = t <=> d = c /\ (p = "next" \/ (p = "stand" /\ m # None))
    BY <1>2, <1>5, <2>1
  <2>8. /\ lock \in [Buckets -> Threads \cup {None}]
        /\ \A d \in Buckets : lock[d] = pBucketLock[d] \/ {lock[d], pBucketLock[d]} \subseteq {t, None}
    BY <1>2, <1>5, <2>1
  <2> HIDE DEF p, c, lock
  <2> QED BY <1>4, <2>1, <2>4, <2>5, <2>6, <2>7, <2>8, ExclCome
<1>11. CASE XWalk(t)
  <2> DEFINE m == HeadOf(b)
             p == IF m # None \/ b = last THEN "stand" ELSE "walk"
             c == IF m # None \/ b = last THEN b ELSE b + 1
             lock == IF m = None THEN pBucketLock ELSE [pBucketLock EXCEPT ![b] = t]
  <2>1. /\ iter[t].place = "walk" /\ pBucketLock[b] = None /\ pBucketLock' = lock
        /\ IF m # None \/ b = last THEN Come(t, "stand", m, b) ELSE Come(t, "walk", None, b + 1)
    BY <1>11 DEF XWalk
  <2>2. m # None => m \in Range(ppHashChains[b])
    BY <1>1, <1>2, HeadIs
  <2>3. /\ m # None => AheadOf(k, "stand", m, b) = AheadOf(k, "walk", None, b) \ {m}
        /\ m = None /\ b = last => AheadOf(k, "walk", None, b) = {}
        /\ m = None /\ b # last => AheadOf(k, "walk", None, b + 1) = AheadOf(k, "walk", None, b)
        /\ b # last => b + 1 \in Buckets
    BY <1>1, <1>2, <1>4, IntoBucket
  <2> HIDE DEF m
  <2>4. Come(t, p, m, c)
    BY <2>1
  <2>5. AheadOf(k, p, m, c) = Ahead(iter[t]) \ {m} /\ c \in Buckets /\ p \in {"stand", "next", "walk"}
    <3>1. Ahead(iter[t]) = AheadOf(k, "walk", None, b)
      BY <1>2, <1>3, <2>1
    <3>2. CASE m # None
      BY <1>2, <2>3, <3>1, <3>2
    <3>3. CASE m = None /\ b = last
      BY <1>2, <1>7, <2>3, <3>1, <3>3
    <3>4. CASE m = None /\ b # last
      BY <1>8, <2>3, <3>1, <3>4
    <3> QED BY <3>2, <3>3, <3>4
  <2>6. /\ p # "stand" => m = None
        /\ m # None => m \in Range(ppHashChains[c])
        /\ p = "stand" /\ m = None => c = last
        /\ m \in Nodes \cup {None}
    BY <1>6, <2>2
  <2>7. \A d \in Buckets : lock[d] = t <=> d = c /\ (p = "next" \/ (p = "stand" /\ m # None))
    BY <1>2, <1>5, <2>1
  <2>8. /\ lock \in [Buckets -> Threads \cup {None}]
        /\ \A d \in Buckets : lock[d] = pBucketLock[d] \/ {lock[d], pBucketLock[d]} \subseteq {t, None}
    BY <1>2, <1>5, <2>1
  <2> HIDE DEF p, c, lock
  <2> QED BY <1>4, <2>1, <2>4, <2>5, <2>6, <2>7, <2>8, ExclCome
<1> QED BY <1>9, <1>10, <1>11

\* A step of an iterator that counts no reference.
LEMMA PlainStep ==
  ASSUME IInv, NEW t \in Threads, NEW j \in IterType, iter' = [iter EXCEPT ![t] = j],
         UNCHANGED <<usage, tableVars, numberOfElements, pc, call, held, destroying>>,
         pBucketLock' \in [Buckets -> Threads \cup {None}],
         \A n \in Linked : Counts(j, n) <=> Counts(iter[t], n),
         LocksFit', Alone', IterFits(t)', TodoFits(t)'
  PROVE  IInv'
<1>1. ItersType /\ TInv
  BY Typed
<1>2. /\ ItersType' /\ iter'[t] = j
      /\ \A u \in Threads \ {t} : iter'[u] = iter[u] /\ (destroying' = u <=> destroying = u)
  BY <1>1 DEF ItersType
<1>3. SameTable /\ TableType' /\ Linked' = Linked
  <2>1. SameTable
    BY DEF SameTable, tableVars
  <2>2. TableType'
    BY <1>1 DEF TInv, TableType, tableVars
  <2> QED BY <1>1, <2>1, <2>2, SameIs
<1>4. RefsAccounted'
  <2>1. \A n \in Linked : \A u \in Threads : Counts(iter'[u], n) <=> Counts(iter[u], n)
    BY <1>2
  <2>2. \A n \in Linked : Fetchers(n)' = Fetchers(n) /\ Standers(n)' = Standers(n)
    <3> SUFFICES ASSUME NEW n \in Linked PROVE Fetchers(n)' = Fetchers(n) /\ Standers(n)' = Standers(n)
      OBVIOUS
    <3>1. Standers(n)' = {u \in Threads : Counts(iter'[u], n)}
      BY DEF Standers, Counts
    <3> QED BY <2>1, <3>1 DEF Fetchers, Standers
  <2>3. \A n \in Linked : element[n].refs = 1 + Cardinality(Fetchers(n)) + Cardinality(Standers(n))
    BY RefsAre DEF IInv
  <2> QED BY <1>3, <2>2, <2>3, RefsAre DEF tableVars
<1> QED BY <1>2, <1>3, <1>4, IterSteps DEF tableVars

\* The elements of the chains.
LEMMA Scopes ==
  ASSUME TInv, NEW b \in Buckets
  PROVE  /\ Linked \subseteq Nodes /\ Range(ppHashChains[b]) \subseteq Linked
         /\ HeadOf(b) \in Nodes \cup {None}
         /\ HeadOf(b) # None => HeadOf(b) \in Range(ppHashChains[b])
<1>1. Linked \subseteq Nodes
  BY LinkedIs DEF TInv, TableType
<1> QED BY <1>1, HeadIs DEF Linked

LEMMA StartSteps ==
  ASSUME IInv, NEW t \in Threads,
         NEW kind \in Shared \cup Excl, NEW b \in Buckets, NEW scope, Starting(t, kind, b, scope), Quiet(t),
         kind \in Shared => usage = "iterated",
         kind \in Excl => usage = "xiterated",
         \/ b = 0 /\ kind # "chain" /\ scope = Linked
         \/ scope = Range(ppHashChains[b])
  PROVE  IInv'
<1> DEFINE h == HeadOf(b)
           j == [kind |-> kind, place |-> "init", node |-> h, bucket |-> b, kept |-> scope, todo |-> scope \ {h}]
<1>1. TInv /\ ThreadsType /\ ItersType /\ IterFits(t)
  BY Typed DEF IInv
<1>2. /\ iter' = [iter EXCEPT ![t] = j] /\ iter[t].kind = "none" /\ iter[t] = NoIterator
      /\ pc[t] = "idle" /\ destroying = None /\ iter[t].place = "stand"
      /\ UNCHANGED <<vars, destroying>>
  BY <1>1 DEF Starting, Standing, IterFits, IteratorAt
<1>3. UNCHANGED <<usage, tableVars, numberOfElements, pc, call, held, destroying, pBucketLock>>
  BY <1>2 DEF vars
<1>4. /\ Linked \subseteq Nodes /\ scope \subseteq Linked
      /\ h \in Nodes \cup {None} /\ (h # None => h \in Range(ppHashChains[b]))
  BY <1>1, Scopes
<1>5. j \in IterType
  BY <1>4 DEF IterType, Kinds, Shared, Excl
<1>6. iter'[t] = j /\ \A u \in Threads \ {t} : iter'[u] = iter[u]
  BY <1>1, <1>2 DEF ItersType
<1>7. \A n \in Linked : Counts(j, n) <=> Counts(iter[t], n)
  BY <1>2 DEF Counts
<1>8. LocksFit'
  <2>1. \A c \in Buckets : Has(t, c)' <=> Has(t, c)
    BY <1>2, <1>3, <1>6 DEF Has, Excl, Bucket
  <2> QED BY <1>3, <1>6, <2>1, LocksStay
<1>9. Alone'
  <2>1. Initialising' \subseteq {t}
    <3>1. Initialising \subseteq {t}
      BY DEF Quiet
    <3> QED BY <1>6, <3>1 DEF Initialising
  <2>2. destroying' = None
    BY <1>2
  <2> QED BY <1>3, <2>1, <2>2, AloneFollows
<1>10. IterFits(t)'
  <2>1. destroying' # t /\ usage' = usage /\ ppHashChains' = ppHashChains /\ pc'[t] = "idle"
    BY <1>2, <1>3, HashAssumption DEF tableVars
  <2>2. /\ j.kind = kind /\ j.place = "init" /\ j.node = h /\ j.bucket = b
    OBVIOUS
  <2> HIDE DEF j, h
  <2> QED BY <1>4, <1>6, <2>1, <2>2 DEF IterFits, Shared, Excl
<1>11. TodoFits(t)'
  <2>1. scope \ {h} = scope \cap AheadOf(kind, "init", h, b)
    BY <1>1, AtStart
  <2>2. PICK r : r = j
    OBVIOUS
  <2>3. SameTable
    BY <1>3 DEF SameTable, tableVars
  <2>4. Linked' = Linked /\ Ahead(r)' = Ahead(r)
    BY <1>1, <2>3, SameIs
  <2>5. Ahead(r) = AheadOf(kind, "init", h, b) /\ r.kept = scope /\ r.todo = scope \ {h}
    BY <2>2, AheadIs
  <2>6. iter'[t] = r
    BY <1>6, <2>2
  <2> HIDE DEF j, h
  <2>7. Ahead(iter[t])' = Ahead(r)'
    BY <2>6
  <2> QED BY <1>4, <2>1, <2>4, <2>5, <2>6, <2>7 DEF TodoFits
<1> HIDE DEF j
<1>12. pBucketLock' \in [Buckets -> Threads \cup {None}]
  BY <1>1, <1>3 DEF ThreadsType
<1> QED BY <1>2, <1>3, <1>5, <1>7, <1>8, <1>9, <1>10, <1>11, <1>12, PlainStep

\* forEach, and the end of an iteration.
LEMMA OtherSteps ==
  ASSUME IInv, NEW t \in Threads, ForEach(t) \/ ForEachBucket(t) \/ EndIteration(t)
  PROVE  IInv'
<1> DEFINE i == iter[t]
<1>1. TInv /\ ThreadsType /\ ItersType /\ IterFits(t) /\ TodoFits(t) /\ i \in IterType
  BY Typed DEF IInv, ItersType
<1>2. /\ Linked \subseteq Nodes /\ last \in Buckets /\ 0 \in Buckets /\ None \notin Nodes /\ None \notin Threads
      /\ None \notin Linked
  BY <1>1, Scopes, BucketsAre, HashAssumption
<1>3. SUFFICES ASSUME NEW j \in IterType, iter' = [iter EXCEPT ![t] = j], j.place # "init", j.node = None,
                      j.kind \in {"none", "each"}, i.kind \in Shared => i.node = None, i.kind # "destroy",
                      UNCHANGED <<usage, tableVars, numberOfElements, pc, call, held, destroying>>,
                      pBucketLock' = IF i.kind \in Excl /\ i.place = "stand" /\ i.node # None
                                     THEN [pBucketLock EXCEPT ![i.bucket] = None] ELSE pBucketLock,
                      i.kind \in Excl => i.place = "stand",
                      destroying = None, pc[t] = "idle",
                      j.kind = "none" => j = NoIterator,
                      j.kind = "each" => /\ usage = "xiterated" /\ j.place \in {"stand", "walk"}
                                         /\ j.place = "stand" => j.bucket = last
                                         /\ j.kept \subseteq Linked /\ j.todo = j.kept \cap Ahead(j)
               PROVE  IInv'
  <2>1. CASE ForEach(t)
    <3> DEFINE j == [kind |-> "each", place |-> "walk", node |-> None, bucket |-> 0, kept |-> Linked, todo |-> Linked]
    <3>1. /\ iter' = [iter EXCEPT ![t] = j] /\ i.kind = "none" /\ usage = "xiterated"
          /\ destroying = None /\ pc[t] = "idle"
      <4>1. IteratorAt("each", "walk", None, 0, Linked) = j
        BY <1>2 DEF IteratorAt
      <4>2. iter' = [iter EXCEPT ![t] = IteratorAt("each", "walk", None, 0, Linked)]
        BY <2>1 DEF ForEach
      <4>3. iter' = [iter EXCEPT ![t] = j]
        BY <4>1, <4>2
      <4> QED BY <2>1, <4>3 DEF ForEach, Standing
    <3>2. j \in IterType
      BY <1>2 DEF IterType, Kinds
    <3>3. UNCHANGED <<usage, tableVars, numberOfElements, pc, call, held, destroying, pBucketLock>>
      BY <2>1 DEF ForEach, vars
    <3>4. j.todo = j.kept \cap Ahead(j)
      <4>1. Linked = Linked \cap AheadOf("each", "walk", None, 0)
        BY <1>1, <1>2, AtStart
      <4>2. Ahead(j) = AheadOf("each", "walk", None, 0)
        BY AheadIs
      <4> QED BY <4>1, <4>2
    <3> QED BY <1>3, <3>1, <3>2, <3>3, <3>4 DEF Shared, Excl
  <2>2. CASE EndIteration(t)
    <3>1. /\ iter' = [iter EXCEPT ![t] = NoIterator]
          /\ i.kind \in Shared => i.node = None
          /\ destroying = None /\ pc[t] = "idle" /\ i.place = "stand"
          /\ pBucketLock' = IF i.kind \in Excl /\ i.node # None
                            THEN [pBucketLock EXCEPT ![i.bucket] = None] ELSE pBucketLock
      BY <2>2 DEF EndIteration, Standing, Shared, Excl
    <3>2. UNCHANGED <<usage, tableVars, numberOfElements, pc, call, held, destroying>>
      BY <2>2 DEF EndIteration
    <3>3. NoIterator \in IterType
      BY <1>2 DEF IterType, Kinds, NoIterator
    <3>4. i.kind # "destroy"
      BY <1>1, <1>2, <3>1 DEF IterFits
    <3> DEFINE j == NoIterator
    <3>5. j.place # "init" /\ j.node = None /\ j.kind = "none"
      BY DEF NoIterator
    <3> HIDE DEF j
    <3> QED BY <1>3, <3>1, <3>2, <3>3, <3>4, <3>5 DEF j
  <2>3. CASE ForEachBucket(t)
    <3> DEFINE b == i.bucket
    <3>1. /\ i.kind = "each" /\ i.place = "walk"
          /\ UNCHANGED <<usage, tableVars, numberOfElements, pc, call, held, destroying, pBucketLock>>
      BY <2>3 DEF ForEachBucket, vars
    <3>2. destroying = None /\ pc[t] = "idle" /\ usage = "xiterated" /\ i.node = None
      BY <1>1, <3>1, NotDestroying DEF IterFits
    <3>3. CASE iter' = [iter EXCEPT ![t] = NoIterator]
      <4>1. NoIterator \in IterType
        BY <1>2 DEF IterType, Kinds, NoIterator
      <4> DEFINE j == NoIterator
      <4>2. j.place # "init" /\ j.node = None /\ j.kind = "none"
        BY DEF NoIterator
      <4> HIDE DEF j
      <4> QED BY <1>3, <3>1, <3>2, <3>3, <4>1, <4>2 DEF j, Shared, Excl
    <3>4. CASE iter' # [iter EXCEPT ![t] = NoIterator]
      <4> DEFINE p == IF b = last THEN "stand" ELSE "walk"
                 c == IF b = last THEN b ELSE b + 1
                 j == [kind |-> "each", place |-> p, node |-> None, bucket |-> c, kept |-> i.kept,
                       todo |-> i.todo \ Range(ppHashChains[b])]
      <4>1. iter' = [iter EXCEPT ![t] = j]
        <5>1. iter' = [iter EXCEPT ![t].todo = @ \ Range(ppHashChains[b]), ![t].bucket = c, ![t].place = p]
          BY <2>3, <3>4 DEF ForEachBucket
        <5> HIDE DEF b, c, p
        <5>2. /\ iter'[t] = j /\ iter' = [u \in Threads |-> iter'[u]]
              /\ \A u \in Threads \ {t} : iter'[u] = iter[u]
          BY <1>1, <3>1, <3>2, <5>1 DEF ItersType, IterType
        <5> QED BY <1>1, <5>2 DEF ItersType
      <4>2. /\ b \in Buckets /\ i.kept \subseteq Linked
            /\ i.todo = i.kept \cap AheadOf("each", "walk", None, b)
        <5>1. Ahead(i) = AheadOf("each", "walk", None, b)
          BY <3>1, <3>2, AheadIs
        <5> QED BY <1>1, <3>1, <5>1 DEF TodoFits, IterType
      <4>3. /\ b # last => /\ b + 1 \in Buckets
                           /\ AheadOf("each", "walk", None, b + 1) =
                                AheadOf("each", "walk", None, b) \ Range(ppHashChains[b])
            /\ AheadOf("each", "walk", None, last) \subseteq Range(ppHashChains[last])
        BY <1>1, <4>2, IntoBucket
      <4>4. b = last => AheadOf("each", "stand", None, b) = {}
        BY <1>1, <4>2, AtEnd
      <4>5. Ahead(j) = AheadOf("each", p, None, c)
        BY AheadIs
      <4>6. j.kept \subseteq Linked /\ j.todo = j.kept \cap Ahead(j)
        <5>1. CASE b = last
          BY <4>2, <4>3, <4>4, <4>5, <5>1
        <5>2. CASE b # last
          BY <4>2, <4>3, <4>5, <5>2
        <5> QED BY <5>1, <5>2
      <4>7. j \in IterType
        BY <1>1, <1>2, <4>2, <4>3 DEF IterType, Kinds
      <4>8. /\ j.kind = "each" /\ j.place # "init" /\ j.node = None /\ j.place \in {"stand", "walk"}
            /\ j.place = "stand" => j.bucket = last
        OBVIOUS
      <4> HIDE DEF j
      <4> QED BY <1>3, <3>1, <3>2, <4>1, <4>6, <4>7, <4>8 DEF Shared, Excl
    <3> QED BY <3>3, <3>4
  <2> QED BY <2>1, <2>2, <2>3
<1>4. iter'[t] = j /\ \A u \in Threads \ {t} : iter'[u] = iter[u]
  BY <1>1, <1>3 DEF ItersType
<1>5. \A n \in Linked : Counts(j, n) <=> Counts(iter[t], n)
  <2>1. i.kind \in Shared \cup {"destroy"} => i.node = None
    BY <1>3
  <2> QED BY <1>2, <1>3, <2>1 DEF Counts, Shared
<1>6. pBucketLock \in [Buckets -> Threads \cup {None}] /\ i.bucket \in Buckets /\ pBucketLock' \in [Buckets -> Threads \cup {None}]
  BY <1>1, <1>3 DEF ThreadsType, IterType
<1>7. LocksFit'
  <2>1. \A c \in Buckets : ~ Has(t, c)'
    BY <1>3, <1>4 DEF Has, Busy, Excl
  <2>2. \A c \in Buckets : pBucketLock[c] = t <=> i.kind \in Excl /\ c = i.bucket /\ i.node # None
    BY <1>3 DEF IInv, LocksFit, Has, Busy
  <2>3. \A c \in Buckets : /\ pBucketLock'[c] # t
                           /\ pBucketLock'[c] = pBucketLock[c] \/ {pBucketLock'[c], pBucketLock[c]} \subseteq {t, None}
    BY <1>2, <1>3, <1>6, <2>2
  <2> QED BY <1>3, <1>4, <2>1, <2>3, LocksFollow
<1>8. Alone'
  <2>1. Initialising' \subseteq Initialising /\ destroying' = None
    BY <1>3, <1>4 DEF Initialising
  <2> QED BY <1>3, <2>1, AloneFollows
<1>9. IterFits(t)'
  <2>1. destroying' # t /\ usage' = usage /\ pc'[t] = "idle"
    BY <1>2, <1>3
  <2>2. CASE j.kind = "none"
    BY <1>3, <1>4, <2>1, <2>2 DEF IterFits, NoIterator, Shared, Excl
  <2>3. CASE j.kind = "each"
    BY <1>3, <1>4, <2>1, <2>3 DEF IterFits, Shared, Excl
  <2> QED BY <1>3, <2>2, <2>3
<1>10. TodoFits(t)'
  <2>1. SameTable
    BY <1>3 DEF SameTable, tableVars
  <2>2. Linked' = Linked /\ Ahead(j)' = Ahead(j)
    BY <1>1, <2>1, SameIs
  <2>3. Ahead(iter[t])' = Ahead(j)'
    BY <1>4
  <2> QED BY <1>3, <1>4, <2>2, <2>3 DEF TodoFits
<1> QED BY <1>3, <1>5, <1>6, <1>7, <1>8, <1>9, <1>10, PlainStep

-----------------------------------------------------------------------------
(***************************************************************************)
(* The destructor, and the removal by the owner of a bucket                *)
(***************************************************************************)
\* In the destructor nobody has anything, and everything is counted.
LEMMA NobodyThere ==
  ASSUME IInv, \A u \in Threads : pc[u] = "idle"
  PROVE  /\ \A u \in Threads : call[u] = NoCall
         /\ \A b \in Buckets : Adders(b) = {}
         /\ numberOfElements = Cardinality(Linked)
<1>1. \A u \in Threads : call[u] = NoCall
  BY DEF IInv, CallFits
<1>2. \A b \in Buckets : Adders(b) = {}
  BY DEF Adders
<1>3. Uncounted = 0 /\ AnnouncedEarly = 0 /\ AnnouncedLate = 0 /\ Removed = 0
  <2>1. \A ops : At("count", ops) = {} /\ At("lock", ops) = {} /\ At("locked", ops) = {}
    BY DEF At
  <2> QED BY <2>1, FS_EmptySet DEF Uncounted, AnnouncedEarly, AnnouncedLate, Removed
<1>4. numberOfElements \in Nat /\ Cardinality(Linked) \in Nat
  BY Typed, LinkedIs DEF TInv, TableType
<1>5. numberOfElements + 0 = Cardinality(Linked) + 0 + 0 + 0
  BY <1>3, CountIs DEF IInv
<1> QED BY <1>1, <1>2, <1>4, <1>5

LEMMA BeginDestroyStep ==
  ASSUME IInv, NEW t \in Threads, BeginDestroy(t)
  PROVE  IInv'
<1> DEFINE full == {c \in Buckets : ppHashChains[c] # <<>>}
           b    == IF full = {} THEN last ELSE Min(full)
           h    == HeadOf(b)
           j    == [kind |-> "destroy", place |-> "stand", node |-> h, bucket |-> b, kept |-> {}, todo |-> {}]
<1>1. TInv /\ ThreadsType /\ ItersType /\ None \notin Nodes /\ None \notin Threads /\ None \notin Linked
  BY Typed, Scopes, BucketsAre, HashAssumption
<1>2. /\ destroying = None /\ destroying' = t
      /\ \A u \in Threads : pc[u] = "idle" /\ held[u] = Nothing /\ iter[u] = NoIterator
      /\ Counted(1, h, 0, None)
      /\ UNCHANGED <<usage, ppHashChains, bucketCounter, numberOfElements, pBucketLock, pc, call, held>>
  BY DEF BeginDestroy
<1>3. b \in Buckets
  <2>1. full \in SUBSET Nat /\ (full # {} => Min(full) \in full)
    <3>1. full \in SUBSET Nat
      BY BucketsAre
    <3> HIDE DEF full
    <3> QED BY <3>1, LeastNatural
  <2> HIDE DEF full
  <2>2. full \subseteq Buckets
    BY DEF full
  <2> QED BY <2>1, <2>2, BucketsAre
<1>4. iter' = [iter EXCEPT ![t] = j]
  <2>1. iter' = [iter EXCEPT ![t] = IteratorAt("destroy", "stand", h, b, {})]
    BY DEF BeginDestroy
  <2>2. IteratorAt("destroy", "stand", h, b, {}) = j
    BY DEF IteratorAt
  <2> QED BY <2>1, <2>2
<1> HIDE DEF b
<1>5. h \in Nodes \cup {None} /\ (h # None => h \in Range(ppHashChains[b])) /\ h \in Linked \cup {None}
  BY <1>1, <1>3, Scopes
<1> HIDE DEF h
<1>6. j \in IterType
  BY <1>3, <1>5 DEF IterType, Kinds
<1>7. iter'[t] = j /\ (\A u \in Threads \ {t} : iter'[u] = iter[u]) /\ ItersType'
  BY <1>1, <1>2, <1>4, <1>6 DEF ItersType
<1>8. SameTable /\ TableType' /\ RefsAccounted'
  <2>1. \A n \in Linked : (IF n = h THEN 1 ELSE 0) + (IF n = None THEN 0 ELSE 0) =
                             (IF Counts(iter'[t], n) THEN 1 ELSE 0) - (IF Counts(iter[t], n) THEN 1 ELSE 0)
    <3>1. \A n \in Linked : Counts(iter'[t], n) <=> n = h
      BY <1>7 DEF Counts
    <3>2. \A n \in Linked : ~ Counts(iter[t], n)
      BY <1>2 DEF Counts, NoIterator
    <3> QED BY <3>1, <3>2
  <2>2. 0 \in Int /\ 1 \in Int /\ {h, None} \subseteq Linked \cup {None}
    BY <1>5
  <2> QED BY <1>2, <1>7, <2>1, <2>2, CountedIs, SMTT(30)
<1>9. LocksFit'
  <2>1. \A c \in Buckets : Has(t, c)' <=> Has(t, c)
    BY <1>2, <1>7 DEF Has, Excl, Bucket, NoIterator
  <2> QED BY <1>2, <1>7, <2>1, LocksStay
<1>10. Alone'
  <2>1. \A u \in Threads : iter'[u].place # "init"
    BY <1>2, <1>7 DEF NoIterator
  <2>2. Initialising' = {}
    BY <2>1 DEF Initialising
  <2> QED BY <1>2, <1>7, <2>2 DEF Alone
<1>11. IterFits(t)' /\ TodoFits(t)'
  <2>1. j.kind = "destroy" /\ j.place = "stand" /\ j.node = h /\ j.bucket = b
    OBVIOUS
  <2> HIDE DEF j
  <2>2. IterFits(t)'
    BY <1>2, <1>5, <1>7, <2>1 DEF IterFits, Shared, Excl
  <2>3. TodoFits(t)'
    BY <1>7, <2>1 DEF TodoFits
  <2> QED BY <2>2, <2>3
<1>12. pBucketLock' \in [Buckets -> Threads \cup {None}]
  BY <1>1, <1>2 DEF ThreadsType
<1>13. \A u \in Threads \ {t} : iter'[u] = iter[u] /\ (destroying' = u <=> destroying = u)
  BY <1>1, <1>2, <1>7
<1> QED BY <1>2, <1>7, <1>8, <1>9, <1>10, <1>11, <1>12, <1>13, IterSteps

\* A table without elements, that nobody is in: what the constructor makes, and what the
\* destructor leaves, but for the nodes that it does not free.
Empty == /\ usage \in Usages
         /\ ppHashChains = [b \in Buckets |-> <<>>]
         /\ element \in [Nodes -> [key : Keys \cup {None}, id : Ids, refs : Nat]]
         /\ bucketCounter = [b \in Buckets |-> 1]
         /\ numberOfElements = 0
         /\ pBucketLock = [b \in Buckets |-> None]
         /\ pc = [t \in Threads |-> "idle"]
         /\ call = [t \in Threads |-> NoCall]
         /\ held = [t \in Threads |-> Nothing]
         /\ iter = [t \in Threads |-> NoIterator]
         /\ destroying = None

LEMMA EmptyKeeps == Empty => IInv
<1> SUFFICES ASSUME Empty PROVE IInv
  OBVIOUS
<1> USE DEF Empty
<1>1. \A b \in Buckets : ppHashChains[b] = <<>> /\ Range(ppHashChains[b]) = {}
  BY DEF Range
<1>2. Linked = {}
  BY <1>1 DEF Linked
<1>3. \A u \in Threads : pc[u] = "idle" /\ call[u] = NoCall /\ held[u] = Nothing /\ iter[u] = NoIterator
  OBVIOUS
<1>4. None \notin Threads /\ None \notin Nodes /\ 0 \in Buckets /\ 0 \in Ids
  BY HashAssumption, BucketsAre DEF Ids
<1>5. IterTypeOK
  <2>1. TableType
    BY <1>1, <1>4 DEF TableType
  <2>2. ThreadsType
    BY DEF ThreadsType, Places, CallType, HeldType, NoCall, Nothing, Ops
  <2>3. ItersType
    <3>1. NoIterator \in IterType
      BY <1>4 DEF IterType, Kinds, NoIterator
    <3> QED BY <3>1 DEF ItersType
  <2> QED BY <2>1, <2>2, <2>3, Types
<1>6. OnePlace /\ Placed
  BY <1>1 DEF OnePlace, Placed, Distinct
<1>7. ASSUME NEW u \in Threads PROVE CallFits(u) /\ HeldFits(u) /\ XFits(u) /\ IterFits(u) /\ TodoFits(u)
  <2>1. CallFits(u)
    BY <1>3 DEF CallFits, NoCall, Adding, Looking
  <2>2. HeldFits(u) /\ XFits(u)
    BY <1>3 DEF HeldFits, XFits, NoCall
  <2>3. IterFits(u) /\ TodoFits(u)
    BY <1>3, <1>4 DEF IterFits, TodoFits, NoIterator, Shared, Excl
  <2> QED BY <2>1, <2>2, <2>3
<1>8. LocksFit
  BY <1>3, <1>4 DEF LocksFit, Has, Busy, Excl, NoIterator
<1>9. Alone
  BY <1>3 DEF Alone, Initialising, NoIterator
<1>10. RefsAccounted /\ UniqueIds
  BY <1>2 DEF RefsAccounted, UniqueIds
<1>11. CountAccounted
  <2>1. \A ops : At("count", ops) = {} /\ At("lock", ops) = {} /\ At("locked", ops) = {}
    BY <1>3 DEF At
  <2>2. Uncounted = 0 /\ AnnouncedEarly = 0 /\ AnnouncedLate = 0 /\ Removed = 0 /\ Cardinality(Linked) = 0
    BY <1>2, <2>1, FS_EmptySet DEF Uncounted, AnnouncedEarly, AnnouncedLate, Removed
  <2> QED BY <2>2, CountIs
<1>12. ToCountIsThere
  BY <1>3 DEF ToCountIsThere
<1>13. IdsFit
  <2>1. \A b \in Buckets : Adders(b) = {}
    BY <1>3 DEF Adders
  <2> QED BY <1>1, <2>1 DEF IdsFit
<1> QED BY <1>5, <1>6, <1>7, <1>8, <1>9, <1>10, <1>11, <1>12, <1>13 DEF IInv

LEMMA Initial == IterInit => IInv
<1>1. NoElement \in [key : Keys \cup {None}, id : Ids, refs : Nat]
  BY BucketsAre, HashAssumption DEF NoElement, Ids
<1>2. IterInit => Empty
  BY <1>1 DEF IterInit, Init, Empty
<1> QED BY <1>2, EmptyKeeps

\* After the destructor the table is empty again.
LEMMA EndDestroyStep ==
  ASSUME IInv, NEW t \in Threads, EndDestroy(t)
  PROVE  IInv'
<1>1. TInv /\ ThreadsType /\ ItersType /\ None \notin Threads
  BY Typed, HashAssumption
<1>2. \A u \in Threads : pc[u] = "idle" /\ held[u] = Nothing /\ (u # t => iter[u] = NoIterator)
  BY <1>1 DEF EndDestroy, IInv, Alone
<1>3. \A u \in Threads : call[u] = NoCall
  BY <1>2 DEF IInv, CallFits
<1>4. \A c \in Buckets : pBucketLock[c] = None
  <2>1. \A u \in Threads, c \in Buckets : ~ Has(u, c)
    BY <1>2 DEF Has, Busy, Excl, NoIterator, EndDestroy
  <2> QED BY <1>1, <2>1 DEF IInv, LocksFit, ThreadsType
<1>5. Empty'
  <2>1. pc' = [u \in Threads |-> "idle"] /\ call' = [u \in Threads |-> NoCall] /\ held' = [u \in Threads |-> Nothing]
    BY <1>1, <1>2, <1>3 DEF ThreadsType, EndDestroy
  <2>2. pBucketLock' = [c \in Buckets |-> None] /\ iter' = [u \in Threads |-> NoIterator]
    BY <1>1, <1>2, <1>4 DEF ThreadsType, ItersType, EndDestroy
  <2>3. usage' \in Usages
    BY <1>1 DEF TInv, TableType, EndDestroy
  <2>4. element' \in [Nodes -> [key : Keys \cup {None}, id : Ids, refs : Nat]]
    <3>1. NoElement \in [key : Keys \cup {None}, id : Ids, refs : Nat]
      BY BucketsAre, HashAssumption DEF NoElement, Ids
    <3> QED BY <1>1, <3>1 DEF TInv, TableType, EndDestroy
  <2> QED BY <2>1, <2>2, <2>3, <2>4 DEF Empty, EndDestroy
<1> QED BY <1>5, EmptyKeeps, PTL

LEMMA DestroyElementStep ==
  ASSUME IInv, NEW t \in Threads, DestroyElement(t)
  PROVE  IInv'
<1> DEFINE n     == iter[t].node
           c     == iter[t].bucket
           later == {d \in (c + 1)..last : ppHashChains[d] # <<>>}
           b     == IF After(c, n) # None \/ later = {} THEN c ELSE Min(later)
           m     == IF After(c, n) # None THEN After(c, n) ELSE IF later = {} THEN None ELSE HeadOf(b)
           v     == Find(element[n].key)
           refs  == [k \in Nodes |-> element[k].refs + (IF k = m THEN 1 ELSE 0) - (IF k = n THEN 1 ELSE 0)]
           gone  == IF v # None /\ refs[v] = 1 THEN {v} ELSE {}
<1>1. /\ TInv /\ ThreadsType /\ ItersType /\ IterFits(t) /\ iter[t] \in IterType
      /\ None \notin Nodes /\ None \notin Threads /\ Linked \subseteq Nodes /\ None \notin Linked
      /\ IsFiniteSet(Linked) /\ Cardinality(Linked) \in Nat
  BY Typed, LinkedIs, HashAssumption DEF IInv, ItersType, TInv, TableType
<1>2. /\ destroying = t /\ iter[t].kind = "destroy" /\ n # None /\ iter[t].place = "stand"
      /\ ppHashChains' = IF gone = {} THEN ppHashChains ELSE Without(v)
      /\ element' = [k \in Nodes |-> IF k \in gone THEN NoElement ELSE [element[k] EXCEPT !.refs = refs[k]]]
      /\ numberOfElements' = numberOfElements - Cardinality(gone)
      /\ iter' = [iter EXCEPT ![t].node = m, ![t].bucket = b]
      /\ UNCHANGED <<usage, bucketCounter, pBucketLock, pc, call, held, destroying>>
  <2>1. iter[t].kind = "destroy" => iter[t].place = "stand"
    BY <1>1 DEF IterFits, Shared, Excl, IterType
  <2> QED BY <2>1 DEF DestroyElement
<1>3. \A u \in Threads : pc[u] = "idle" /\ held[u] = Nothing /\ (u # t => iter[u] = NoIterator)
  BY <1>1, <1>2 DEF IInv, Alone
<1>4. /\ \A u \in Threads : call[u] = NoCall
      /\ \A d \in Buckets : Adders(d) = {}
      /\ numberOfElements = Cardinality(Linked)
  BY <1>3, NobodyThere
<1>5. c \in Buckets /\ n \in Range(ppHashChains[c]) /\ n \in Linked
  BY <1>1, <1>2, ThreadsHaveLinked DEF IterFits, IterType
<1>6. b \in Buckets /\ m \in Nodes \cup {None} /\ (m # None => m \in Range(ppHashChains[b]) /\ m \in Linked)
  <2>1. later \in SUBSET Nat /\ later \subseteq Buckets
    BY <1>5, BucketsAre DEF Buckets, last
  <2>2. later # {} => Min(later) \in later
    <3> HIDE DEF later
    <3> QED BY <2>1, LeastNatural
  <2>3. After(c, n) # None => After(c, n) \in Range(ppHashChains[c])
    BY <1>1, <1>5, AfterOrder
  <2> HIDE DEF later
  <2>4. b \in Buckets
    BY <1>5, <2>1, <2>2
  <2>5. HeadOf(b) # None => HeadOf(b) \in Range(ppHashChains[b])
    BY <1>1, <2>4, Scopes
  <2>6. m # None => m \in Range(ppHashChains[b])
    BY <2>3, <2>5
  <2> HIDE DEF b, m
  <2>7. Range(ppHashChains[b]) \subseteq Linked
    BY <1>1, <2>4, Scopes
  <2> QED BY <1>1, <2>4, <2>6, <2>7
<1> HIDE DEF b, m
<1>7. v \in Linked \cup {None}
  <2>1. element[n].key \in Keys
    BY <1>1, <1>5 DEF TInv, Placed
  <2>2. v \in Nodes \cup {None} /\ (v # None => IsFirst(v, element[n].key)) /\ Bucket(element[n].key) \in Buckets
    BY <1>1, <2>1, FindIs, BucketsAre
  <2> HIDE DEF v
  <2> QED BY <2>2 DEF IsFirst, Chain, Linked
<1> HIDE DEF v
<1>8. \A k \in Linked : element[k].refs = 1 + (IF k = n THEN 1 ELSE 0) /\ refs[k] = 1 + (IF k = m THEN 1 ELSE 0)
  <2> SUFFICES ASSUME NEW k \in Linked
               PROVE  element[k].refs = 1 + (IF k = n THEN 1 ELSE 0) /\ refs[k] = 1 + (IF k = m THEN 1 ELSE 0)
    OBVIOUS
  <2>1. element[k].refs = 1 + Cardinality(Fetchers(k)) + Cardinality(Standers(k))
    BY RefsAre DEF IInv
  <2>2. Fetchers(k) = {} /\ Standers(k) = IF k = n THEN {t} ELSE {}
    BY <1>1, <1>2, <1>3 DEF Fetchers, Standers, Counts, Nothing, NoIterator
  <2>3. Cardinality(Fetchers(k)) = 0 /\ Cardinality(Standers(k)) = IF k = n THEN 1 ELSE 0
    BY <2>2, FS_EmptySet, FS_Singleton
  <2>4. refs[k] = element[k].refs + (IF k = m THEN 1 ELSE 0) - (IF k = n THEN 1 ELSE 0)
    BY <1>1
  <2> HIDE DEF refs, n
  <2> QED BY <2>1, <2>3, <2>4
<1>9. gone \in SUBSET Linked /\ m \notin gone /\ (gone # {} => gone = {v} /\ v \in Linked)
  <2> HIDE DEF refs
  <2> QED BY <1>7, <1>8
<1>10. \A k \in Nodes : element[k] \in [key : Keys \cup {None}, id : Ids, refs : Nat]
  BY <1>1 DEF TInv, TableType
<1>11. ASSUME NEW k \in Nodes \ gone
       PROVE  /\ element'[k].key = element[k].key /\ element'[k].id = element[k].id
              /\ element'[k].refs = refs[k]
  <2> HIDE DEF gone, refs
  <2>1. element'[k] = [element[k] EXCEPT !.refs = refs[k]]
    BY <1>2
  <2> QED BY <1>10, <2>1
<1> HIDE DEF gone
<1>12. /\ ppHashChains' \in [Buckets -> Seq(Nodes)]
       /\ OnePlace' /\ Placed' /\ Shrunk(gone)
       /\ numberOfElements' \in Nat /\ numberOfElements' = Cardinality(Linked')
       /\ \A k : k \in Linked' <=> k \in Linked /\ k \notin gone
  <2>1. CASE gone = {}
    <3>1. SameTable
      BY <1>2, <1>11, <2>1 DEF SameTable
    <3>2. Linked' = Linked /\ OnePlace' /\ Placed'
      BY <1>1, <3>1, SameIs
    <3>3. Shrunk(gone)
      BY <2>1, <3>1, SameShrinks
    <3>4. numberOfElements' = numberOfElements - 0
      BY <1>2, <2>1, FS_EmptySet
    <3> QED BY <1>1, <1>2, <1>4, <2>1, <3>2, <3>3, <3>4 DEF TInv, TableType
  <2>2. CASE gone # {}
    <3>1. gone = {v} /\ v \in Linked /\ ppHashChains' = Without(v) /\ usage' = usage
      BY <1>2, <1>9, <2>2
    <3>2. \A k \in Nodes \ {v} : element'[k].key = element[k].key /\ element'[k].id = element[k].id
      BY <1>11, <3>1
    <3>3. /\ ppHashChains' \in [Buckets -> Seq(Nodes)] /\ OnePlace' /\ Placed'
          /\ Linked' = Linked \ {v} /\ Cardinality(Linked') = Cardinality(Linked) - 1
          /\ Cardinality(Linked') \in Nat
          /\ \A d \in Buckets : \A x : x \in Range(ppHashChains'[d]) <=> x \in Range(ppHashChains[d]) /\ x # v
          /\ \A d \in Buckets : v \notin Range(ppHashChains[d]) => ppHashChains'[d] = ppHashChains[d]
          /\ \A d \in Buckets : \A x, y :
               Precedes(ppHashChains'[d], x, y) <=> Precedes(ppHashChains[d], x, y) /\ x # v /\ y # v
      BY <1>1, <3>1, <3>2, NodeRemoved
    <3>4. Shrunk(gone)
      BY <3>1, <3>2, <3>3 DEF Shrunk
    <3>5. numberOfElements' = Cardinality(Linked) - 1
      BY <1>2, <1>4, <3>1, FS_Singleton
    <3> QED BY <3>1, <3>3, <3>4, <3>5
  <2> QED BY <2>1, <2>2
<1>13. TableType'
  <2>1. ASSUME NEW k \in Nodes PROVE element'[k] \in [key : Keys \cup {None}, id : Ids, refs : Nat]
    <3>1. CASE k \in gone
      <4>1. element'[k] = NoElement
        BY <1>2, <3>1
      <4>2. 0 \in Ids
        BY HashAssumption DEF Ids
      <4> QED BY <4>1, <4>2 DEF NoElement
    <3>2. CASE k \notin gone
      <4>1. refs[k] \in Nat
        <5>1. CASE k \in Linked
          <6> HIDE DEF refs
          <6> QED BY <1>8, <5>1
        <5>2. CASE k \notin Linked
          <6>1. k # n /\ k # m
            BY <1>1, <1>5, <1>6, <5>2
          <6> QED BY <1>10, <6>1
        <5> QED BY <5>1, <5>2
      <4>2. element'[k] = [element[k] EXCEPT !.refs = refs[k]]
        BY <1>2, <3>2
      <4> HIDE DEF refs
      <4> QED BY <1>10, <4>1, <4>2
    <3> QED BY <3>1, <3>2
  <2>2. element' = [k \in Nodes |-> element'[k]]
    BY <1>2
  <2>3. element' \in [Nodes -> [key : Keys \cup {None}, id : Ids, refs : Nat]]
    BY <2>1, <2>2
  <2> QED BY <1>1, <1>2, <1>12, <2>3 DEF TInv, TableType
<1> HIDE DEF refs
<1>14. /\ iter'[t].kind = "destroy" /\ iter'[t].place = "stand" /\ iter'[t].node = m /\ iter'[t].bucket = b
       /\ \A u \in Threads \ {t} : iter'[u] = iter[u]
       /\ ItersType'
  <2>1. iter'[t] = [kind |-> "destroy", place |-> "stand", node |-> m, bucket |-> b,
                    kept |-> iter[t].kept, todo |-> iter[t].todo]
    BY <1>1, <1>2 DEF ItersType, IterType
  <2>2. iter'[t] \in IterType
    BY <1>1, <1>6, <2>1 DEF IterType, Kinds
  <2>3. iter' = [u \in Threads |-> iter'[u]] /\ \A u \in Threads \ {t} : iter'[u] = iter[u]
    BY <1>1, <1>2 DEF ItersType
  <2>4. \A u \in Threads : iter'[u] \in IterType
    BY <1>1, <2>2, <2>3 DEF ItersType
  <2> QED BY <1>1, <1>2, <2>1, <2>3, <2>4 DEF ItersType
<1>15. RefsAccounted'
  <2>1. \A k \in Linked' : element'[k].refs = 1 + (IF k = m THEN 1 ELSE 0)
    BY <1>1, <1>8, <1>11, <1>12
  <2>2. ASSUME NEW k \in Linked' PROVE Fetchers(k)' = {} /\ Standers(k)' = IF k = m THEN {t} ELSE {}
    <3>1. k # None
      BY <1>1, <1>12
    <3>2. \A u \in Threads : (held'[u].node = k <=> FALSE) /\ (Counts(iter'[u], k) <=> u = t /\ k = m)
      <4>1. \A u \in Threads : held'[u].node # k
        BY <1>2, <1>3, <3>1 DEF Nothing
      <4>2. Counts(iter'[t], k) <=> k = m
        BY <1>14 DEF Counts
      <4>3. \A u \in Threads \ {t} : ~ Counts(iter'[u], k)
        BY <1>3, <1>14 DEF Counts, NoIterator
      <4> QED BY <4>1, <4>2, <4>3
    <3>3. /\ Fetchers(k)' = {u \in Threads : held'[u].node = k}
          /\ Standers(k)' = {u \in Threads : Counts(iter'[u], k)}
      BY DEF Fetchers, Standers, Counts
    <3> QED BY <3>2, <3>3
  <2>3. ASSUME NEW k \in Linked'
        PROVE  Cardinality(Fetchers(k)') = 0 /\ Cardinality(Standers(k)') = IF k = m THEN 1 ELSE 0
    BY <2>2, FS_EmptySet, FS_Singleton
  <2>4. ASSUME NEW k \in Linked'
        PROVE  element'[k].refs = 1 + Cardinality(Fetchers(k)') + Cardinality(Standers(k)')
    BY <2>1, <2>3
  <2> QED BY <2>4, RefsAre
<1>16. ThreadsType' /\ IterTypeOK'
  <2>1. ThreadsType'
    BY <1>1, <1>2 DEF ThreadsType
  <2> QED BY <1>12, <1>13, <1>14, <2>1, Types
<1>17. ASSUME NEW u \in Threads PROVE CallFits(u)' /\ HeldFits(u)' /\ XFits(u)'
  <2>1. CallFits(u)'
    BY <1>2, <1>3, <1>4 DEF CallFits, NoCall, Adding, Looking
  <2>2. HeldFits(u)' /\ XFits(u)'
    BY <1>2, <1>3, <1>4 DEF HeldFits, XFits, NoCall
  <2> QED BY <2>1, <2>2
<1>18. ASSUME NEW u \in Threads PROVE IterFits(u)' /\ TodoFits(u)'
  <2>1. CASE u = t
    <3>1. m # None => m \in Range(ppHashChains'[b])
      BY <1>6, <1>9, <1>12 DEF Shrunk
    <3>2. IterFits(t)'
      BY <1>2, <1>3, <1>14, <3>1 DEF IterFits, Shared, Excl
    <3>3. TodoFits(t)'
      BY <1>14 DEF TodoFits
    <3> QED BY <2>1, <3>2, <3>3
  <2>2. CASE u # t
    <3>1. iter'[u] = NoIterator /\ destroying' # u
      BY <1>2, <1>3, <1>14, <2>2
    <3> QED BY <3>1 DEF IterFits, TodoFits, NoIterator, Shared, Excl
  <2> QED BY <2>1, <2>2
<1>19. LocksFit'
  <2>1. \A d \in Buckets : Has(t, d)' <=> Has(t, d)
    BY <1>2, <1>14 DEF Has, Excl, Bucket
  <2> QED BY <1>2, <1>14, <2>1, LocksStay
<1>20. Alone'
  <2>1. \A u \in Threads : iter'[u].place # "init"
    BY <1>3, <1>14 DEF NoIterator
  <2>2. Initialising' = {}
    BY <2>1 DEF Initialising
  <2> QED BY <1>2, <1>3, <1>14, <2>2 DEF Alone
<1>21. UniqueIds' /\ IdsFit'
  <2>1. \A d \in Buckets : Adders(d)' = {}
    BY <1>2, <1>3 DEF Adders
  <2> QED BY <1>2, <1>12, <2>1, ShrunkIds
<1>22. CountAccounted' /\ ToCountIsThere'
  <2>1. \A ops : At("count", ops)' = {} /\ At("lock", ops)' = {} /\ At("locked", ops)' = {}
    BY <1>2, <1>3 DEF At
  <2>2. Uncounted' = 0 /\ AnnouncedEarly' = 0 /\ AnnouncedLate' = 0 /\ Removed' = 0
    BY <2>1, FS_EmptySet DEF Uncounted, AnnouncedEarly, AnnouncedLate, Removed
  <2>3. numberOfElements' + 0 = Cardinality(Linked') + 0 + 0 + 0
    BY <1>12
  <2> QED BY <1>2, <1>3, <2>2, <2>3, CountIs DEF ToCountIsThere
<1> QED BY <1>12, <1>15, <1>16, <1>17, <1>18, <1>19, <1>20, <1>21, <1>22 DEF IInv

\* In a table with iterators that lock, only they have elements.
LEMMA OnlyIterators ==
  ASSUME IInv, usage = "xiterated", NEW u \in Threads
  PROVE  held[u] = Nothing /\ call[u].node = None
<1>1. HeldFits(u) /\ XFits(u) /\ CallFits(u)
  BY DEF IInv
<1>2. held[u] = Nothing
  BY <1>1 DEF HeldFits
<1>3. call[u].node # None => "xFetch" \in AccessOps["xiterated"]
  BY <1>1 DEF XFits, CallFits, Looking
<1>4. "xFetch" \notin AccessOps["xiterated"]
  BY OpsAre DEF Usages
<1> QED BY <1>2, <1>3, <1>4

LEMMA BaseRemoveStep ==
  ASSUME IInv, NEW t \in Threads, NEW n \in Nodes, BaseRemove(t, n)
  PROVE  IInv'
<1> DEFINE b == iter[t].bucket
<1>1. /\ TInv /\ ThreadsType /\ ItersType /\ IterFits(t) /\ iter[t] \in IterType /\ b \in Buckets
      /\ None \notin Nodes /\ None \notin Threads /\ Linked \subseteq Nodes
      /\ IsFiniteSet(Linked) /\ Cardinality(Linked) \in Nat
  BY Typed, LinkedIs, HashAssumption DEF IInv, ItersType, IterType, TInv, TableType
<1>2. /\ iter[t].kind \in Excl /\ iter[t].place = "stand" /\ pc[t] = "idle" /\ pBucketLock[b] = t
      /\ n \in Range(ppHashChains[b]) /\ n # iter[t].node
      /\ Initialising = {} /\ \A u \in Threads : pc[u] # "count"
      /\ ppHashChains' = Without(n) /\ element' = [element EXCEPT ![n] = NoElement]
      /\ numberOfElements' = numberOfElements - 1
      /\ iter' = [u \in Threads |-> [iter[u] EXCEPT !.kept = @ \ {n}, !.todo = @ \ {n}]]
      /\ UNCHANGED <<usage, bucketCounter, pBucketLock, pc, call, held, destroying>>
  BY DEF BaseRemove, Unlink, Excl
<1>3. /\ usage = "xiterated" /\ destroying = None /\ destroying' = None
      /\ n \in Linked /\ n # None
      /\ \A u \in Threads : held[u] = Nothing /\ call[u].node = None
  <2>1. usage = "xiterated" /\ destroying = None
    BY <1>1, <1>2, NotDestroying DEF IterFits, Excl
  <2>2. n \in Linked
    BY <1>1, <1>2, Scopes
  <2> QED BY <1>1, <1>2, <2>1, <2>2, OnlyIterators
<1>4. \A k \in Nodes \ {n} : element'[k] = element[k]
  BY <1>1, <1>2 DEF TInv, TableType
<1> HIDE DEF b
<1>5. /\ ppHashChains' \in [Buckets -> Seq(Nodes)] /\ OnePlace' /\ Placed'
      /\ Linked' = Linked \ {n} /\ Cardinality(Linked') = Cardinality(Linked) - 1
      /\ Cardinality(Linked') \in Nat
      /\ \A d \in Buckets : \A x : x \in Range(ppHashChains'[d]) <=> x \in Range(ppHashChains[d]) /\ x # n
      /\ \A d \in Buckets : n \notin Range(ppHashChains[d]) => ppHashChains'[d] = ppHashChains[d]
      /\ \A d \in Buckets : \A x, y :
           Precedes(ppHashChains'[d], x, y) <=> Precedes(ppHashChains[d], x, y) /\ x # n /\ y # n
  <2>1. \A k \in Nodes \ {n} : element'[k].key = element[k].key /\ element'[k].id = element[k].id
    BY <1>4
  <2>2. ppHashChains' = Without(n) /\ usage' = usage
    BY <1>2
  <2> QED BY <1>1, <1>3, <2>1, <2>2, NodeRemoved
<1>6. Shrunk({n})
  BY <1>2, <1>4, <1>5 DEF Shrunk
\* Every other iterator is in another bucket.
<1>7. \A u \in Threads : iter[u].node # n
  <2> SUFFICES ASSUME NEW u \in Threads, iter[u].node = n PROVE FALSE
    OBVIOUS
  <2>1. IterFits(u) /\ iter[u] \in IterType
    BY <1>1 DEF IInv, ItersType
  <2>2. n \in Range(ppHashChains[iter[u].bucket]) /\ iter[u].bucket \in Buckets
    BY <1>3, <2>1 DEF IterFits, IterType
  <2>3. iter[u].bucket = b
    BY <1>1, <1>2, <2>2 DEF TInv, OnePlace
  <2>4. iter[u].kind \in Excl /\ iter[u].place = "stand"
    <3>1. iter[u].kind \notin Shared \cup {"each", "none", "destroy"}
      BY <1>1, <1>3, <2>1 DEF IterFits, NoIterator
    <3>2. iter[u].place # "init"
      BY <1>2 DEF Initialising
    <3>3. iter[u].place \notin {"walk", "next"}
      BY <1>3, <2>1 DEF IterFits
    <3> QED BY <2>1, <3>1, <3>2, <3>3 DEF IterType, Kinds, Shared, Excl
  <2>5. Has(u, b)
    BY <1>3, <2>3, <2>4 DEF Has
  <2>6. pBucketLock[b] = u
    BY <1>1, <2>5 DEF IInv, LocksFit
  <2>7. u # t
    BY <1>2
  <2> QED BY <1>2, <2>6, <2>7
<1>8. SameIters /\ ItersType'
  <2>1. ASSUME NEW u \in Threads
        PROVE  /\ iter'[u].kind = iter[u].kind /\ iter'[u].place = iter[u].place
               /\ iter'[u].node = iter[u].node /\ iter'[u].bucket = iter[u].bucket
               /\ iter'[u].kept = iter[u].kept \ {n} /\ iter'[u].todo = iter[u].todo \ {n}
               /\ iter'[u] \in IterType
               /\ iter[u].kept \subseteq Linked /\ iter[u].todo \subseteq Linked
    <3>1. iter[u] \in IterType /\ IterFits(u) /\ TodoFits(u)
      BY <1>1 DEF IInv, ItersType
    <3>2. iter'[u] = [iter[u] EXCEPT !.kept = @ \ {n}, !.todo = @ \ {n}]
      BY <1>2
    <3>3. iter[u].kind # "destroy"
      BY <1>1, <1>3, <3>1 DEF IterFits
    <3>4. iter[u].kept \subseteq Linked /\ iter[u].todo \subseteq Linked
      BY <3>1, <3>3 DEF IterFits, TodoFits, NoIterator
    <3> QED BY <3>1, <3>2, <3>4 DEF IterType
  <2>2. SameIters
    BY <1>5, <2>1 DEF SameIters
  <2>3. iter' = [u \in Threads |-> iter'[u]]
    BY <1>2
  <2> QED BY <1>1, <1>2, <2>1, <2>2, <2>3 DEF ItersType
<1>9. TableType' /\ ThreadsType'
  <2>1. NoElement \in [key : Keys \cup {None}, id : Ids, refs : Nat]
    BY HashAssumption DEF NoElement, Ids
  <2> QED BY <1>1, <1>2, <1>5, <2>1 DEF TInv, TableType, ThreadsType
<1>10. CountAccounted' /\ numberOfElements' \in Nat
  <2>1. At("count", Adding) = {} /\ At("count", {"remove", "xFetchRemove"}) = {}
    BY <1>2 DEF At
  <2>2. Uncounted = 0 /\ Removed = 0
    BY <2>1, FS_EmptySet DEF Uncounted, Removed
  <2>3. \A place, ops : At(place, ops)' = At(place, ops)
    BY <1>2 DEF At
  <2>4. Uncounted' = Uncounted /\ Removed' = Removed /\ AnnouncedEarly' = AnnouncedEarly
        /\ AnnouncedLate' = AnnouncedLate
    BY <2>3 DEF Uncounted, Removed, AnnouncedEarly, AnnouncedLate
  <2>5. AnnouncedEarly \in Nat /\ AnnouncedLate \in Nat
    <3>1. At("lock", {"addS"}) \in SUBSET Threads /\ At("locked", {"addS"}) \in SUBSET Threads
      BY DEF At
    <3> QED BY <3>1, HashAssumption, FS_Subset, FS_CardinalityType DEF AnnouncedEarly, AnnouncedLate
  <2>6. numberOfElements \in Nat /\
        numberOfElements + Uncounted = Cardinality(Linked) + AnnouncedEarly + AnnouncedLate + Removed
    BY CountIs, Typed DEF IInv
  <2> DEFINE e == AnnouncedEarly
             a == AnnouncedLate
             k == Cardinality(Linked)
  <2>7. /\ k - 1 \in Nat /\ k \in Nat /\ e \in Nat /\ a \in Nat /\ numberOfElements \in Nat
        /\ numberOfElements + 0 = k + e + a + 0 /\ numberOfElements' = numberOfElements - 1
    <3>1. k - 1 \in Nat /\ k \in Nat
      BY <1>1, <1>5
    <3>2. numberOfElements + 0 = k + e + a + 0
      BY <2>2, <2>6
    <3>3. numberOfElements' = numberOfElements - 1
      BY <1>2
    <3> QED BY <2>5, <2>6, <3>1, <3>2, <3>3
  <2>8. /\ numberOfElements' + Uncounted' = Cardinality(Linked') + AnnouncedEarly' + AnnouncedLate' + Removed'
        /\ numberOfElements' \in Nat
    <3> HIDE DEF e, a, k
    <3>1. numberOfElements' + 0 = k - 1 + e + a + 0 /\ numberOfElements' \in Nat
      BY <2>7
    <3> QED BY <1>5, <2>2, <2>4, <3>1 DEF e, a, k
  <2> QED BY <2>8, CountIs
<1>11. RefsAccounted'
  <2>1. \A k : Fetchers(k)' = Fetchers(k) /\ Standers(k)' = Standers(k)
    <3>1. \A u \in Threads : \A k : Counts(iter'[u], k) <=> Counts(iter[u], k)
      BY <1>8 DEF Counts, SameIters
    <3>2. \A k : Standers(k)' = {u \in Threads : Counts(iter'[u], k)}
      BY DEF Standers, Counts
    <3> QED BY <1>2, <3>1, <3>2 DEF Fetchers, Standers
  <2>2. \A k \in Linked : element[k].refs = 1 + Cardinality(Fetchers(k)) + Cardinality(Standers(k))
    BY RefsAre DEF IInv
  <2> QED BY <1>1, <1>4, <1>5, <2>1, <2>2, RefsAre
<1>12. ASSUME NEW u \in Threads
       PROVE  CallFits(u)' /\ HeldFits(u)' /\ XFits(u)' /\ IterFits(u)' /\ TodoFits(u)'
  <2>1. CallFits(u)'
    <3>1. References' = References /\ CallFits(u)
      BY <1>2 DEF References, IInv
    <3> QED BY <1>2, <3>1 DEF CallFits
  <2>2. HeldFits(u)' /\ XFits(u)'
    BY <1>2, <1>3 DEF HeldFits, XFits
  <2>3. IterFits(u)'
    <3>1. iter[u].node # None => iter[u].node \in Range(ppHashChains'[iter[u].bucket])
      <4>1. IterFits(u) /\ iter[u].bucket \in Buckets
        BY <1>1 DEF IInv, ItersType, IterType
      <4> QED BY <1>5, <1>7, <4>1 DEF IterFits
    <3> QED BY <1>2, <1>3, <1>8, <3>1, SameItersFit
  <2>4. TodoFits(u)'
    <3>1. iter[u].node \notin {n}
      BY <1>7
    <3> QED BY <1>6, <1>8, <3>1, ShrunkTodo DEF SameIters
  <2> QED BY <2>1, <2>2, <2>3, <2>4
<1>13. LocksFit'
  <2>1. \A u \in Threads, d \in Buckets : Has(u, d)' <=> Has(u, d)
    BY <1>2, <1>8 DEF Has, Bucket, SameIters
  <2> QED BY <1>2, <2>1 DEF IInv, LocksFit
<1>14. Alone'
  <2>1. Initialising' = {}
    <3>1. \A u \in Threads : iter'[u].place = iter[u].place
      BY <1>8 DEF SameIters
    <3> QED BY <1>2, <3>1 DEF Initialising
  <2> QED BY <1>3, <2>1 DEF Alone
<1>15. UniqueIds' /\ IdsFit'
  <2>1. \A d \in Buckets : Adders(d)' = Adders(d)
    BY <1>2 DEF Adders, Bucket
  <2> QED BY <1>2, <1>6, <2>1, ShrunkIds
<1>16. ToCountIsThere'
  BY <1>2 DEF ToCountIsThere
<1>17. IterTypeOK'
  BY <1>8, <1>9, <1>10, Types
<1> QED BY <1>5, <1>10, <1>11, <1>12, <1>13, <1>14, <1>15, <1>16, <1>17 DEF IInv

-----------------------------------------------------------------------------
(***************************************************************************)
(* The invariant                                                           *)
(***************************************************************************)
LEMMA IterStepInvariant ==
  ASSUME IInv, NEW t \in Threads, IterStep(t)
  PROVE  IInv'
<1>1. TInv /\ 0 \in Buckets /\ \A id \in Ids : Bucket(id) \in Buckets
  BY Typed, BucketsAre
<1>2. CASE InitIterator(t)
  BY <1>1, <1>2, StartSteps DEF InitIterator, Shared, Excl
<1>3. CASE XInitIterator(t)
  BY <1>1, <1>3, StartSteps DEF XInitIterator, Shared, Excl
<1>4. ASSUME NEW id \in Ids, InitIteratorInChain(t, id) PROVE IInv'
  BY <1>1, <1>4, StartSteps DEF InitIteratorInChain, Shared, Excl
<1>5. ASSUME NEW id \in Ids, XInitIteratorInChain(t, id) PROVE IInv'
  BY <1>1, <1>5, StartSteps DEF XInitIteratorInChain, Shared, Excl
<1> QED BY <1>2, <1>3, <1>4, <1>5, SharedSteps, ExclSteps, OtherSteps, BaseRemoveStep, BeginDestroyStep,
           DestroyElementStep, EndDestroyStep DEF IterStep

\* Nothing that the threads do, in whatever order, takes the table, its locks, counts,
\* ids and iterators out of the inductive invariant.
THEOREM Invariance == ~ LongLived => (IterSpec => []IInv)
<1> SUFFICES ASSUME ~ LongLived PROVE IterSpec => []IInv
  OBVIOUS
<1>1. IInv /\ [IterNext]_iterVars => IInv'
  <2> SUFFICES ASSUME IInv, [IterNext]_iterVars PROVE IInv'
    OBVIOUS
  <2>1. CASE IterNext
    BY <2>1, MethodInvariant, IterStepInvariant DEF IterNext
  <2>2. CASE UNCHANGED iterVars
    <3> USE <2>2 DEF iterVars, vars, tableVars
    <3>1. IterTypeOK'
      BY DEF IInv, IterTypeOK, TypeOK
    <3>2. OnePlace' /\ Placed' /\ RefsAccounted' /\ CountAccounted' /\ UniqueIds'
      <4>1. Linked' = Linked
        BY DEF Linked
      <4>2. OnePlace' /\ Placed'
        BY DEF IInv, OnePlace, Placed, Bucket
      <4>3. RefsAccounted'
        BY <4>1 DEF IInv, RefsAccounted
      <4>4. CountAccounted' /\ UniqueIds'
        BY <4>1 DEF IInv, CountAccounted, UniqueIds
      <4> QED BY <4>2, <4>3, <4>4
    <3>3. \A b \in Buckets : Adders(b)' = Adders(b)
      BY DEF Adders, Bucket
    <3>4. ToCountIsThere' /\ IdsFit'
      BY <3>3 DEF IInv, ToCountIsThere, IdsFit, Linked, Chain, Bucket, Limit
    <3>5. LocksFit' /\ Alone'
      BY DEF IInv, LocksFit, Has, Bucket, Alone, Initialising, Quiet
    <3>6. ASSUME NEW u \in Threads PROVE CallFits(u)' /\ HeldFits(u)' /\ XFits(u)'
      <4>1. CallFits(u)'
        BY DEF IInv, CallFits, References
      <4>2. HeldFits(u)' /\ XFits(u)'
        BY DEF IInv, HeldFits, XFits, References, IsFirst, Matches, Chain, Bucket
      <4> QED BY <4>1, <4>2
    <3>7. ASSUME NEW u \in Threads PROVE IterFits(u)' /\ TodoFits(u)'
      BY DEF IInv, IterFits, TodoFits, Ahead, Linked
    <3> QED BY <3>1, <3>2, <3>4, <3>5, <3>6, <3>7 DEF IInv
  <2> QED BY <2>1, <2>2
<1>2. IterInit => IInv
  BY Initial
<1> QED BY <1>1, <1>2, PTL DEF IterSpec

-----------------------------------------------------------------------------
(***************************************************************************)
(* What the table promises                                                 *)
(***************************************************************************)
\* Whatever the methods, the base class and the destructor have done: every node is in
\* one place of one chain, the one that its key or id leads to, the ids in the table are
\* different, and numberOfElements is right but for the threads about to count.
THEOREM TableSound == ~ LongLived => (IterSpec => []TableIsSound)
<1>1. IInv => ChainsAreSound
  <2> SUFFICES ASSUME IInv, NEW b \in Buckets, NEW c \in Buckets,
                      NEW i \in 1..Len(ppHashChains[b]), NEW j \in 1..Len(ppHashChains[c])
               PROVE  /\ ppHashChains[b][i] = ppHashChains[c][j] => b = c /\ i = j
                      /\ LET e == element[ppHashChains[b][i]]
                         IN  b = Bucket(IF usage = "key" THEN e.key ELSE e.id)
    BY DEF ChainsAreSound
  <2>1. ppHashChains[b][i] \in Range(ppHashChains[b]) /\ ppHashChains[c][j] \in Range(ppHashChains[c])
    BY DEF Range
  <2>2. ppHashChains[b][i] = ppHashChains[c][j] => b = c
    BY <2>1 DEF IInv, OnePlace
  <2>3. ppHashChains[b][i] = ppHashChains[b][j] /\ b = c => i = j
    BY DEF IInv, OnePlace, Distinct
  <2>4. b = Bucket(IF usage = "key" THEN element[ppHashChains[b][i]].key ELSE element[ppHashChains[b][i]].id)
    BY <2>1 DEF IInv, Placed
  <2> QED BY <2>2, <2>3, <2>4
<1>2. IInv => TableIsSound
  BY <1>1 DEF IInv, TableIsSound
<1> SUFFICES ASSUME ~ LongLived PROVE IterSpec => []TableIsSound
  OBVIOUS
<1>3. IterSpec => []IInv
  BY Invariance
<1> QED BY <1>2, <1>3, PTL

\* The reference count of an element is one more than the threads and iterators that
\* have it, and what they have is in the table: nothing is freed that is still in use.
THEOREM HeldSafe == ~ LongLived => (IterSpec => []HeldIsSafe)
<1>1. IInv => HeldIsSafe
  BY ThreadsHaveLinked DEF IInv, HeldIsSafe, HeldIsLinked
<1> SUFFICES ASSUME ~ LongLived PROVE IterSpec => []HeldIsSafe
  OBVIOUS
<1>2. IterSpec => []IInv
  BY Invariance
<1> QED BY <1>1, <1>2, PTL

\* A method that has returned has no bucket locked; an iterator has at most its own.
THEOREM LocksAreGivenBack == ~ LongLived => (IterSpec => []NoBucketLeftLocked)
<1>1. IInv => NoBucketLeftLocked
  <2> SUFFICES ASSUME IInv, NEW t \in Threads, NEW b \in Buckets,
                      pc[t] \in {"idle", "first", "lock"}, pBucketLock[b] = t
               PROVE  /\ iter[t].kind \in {"x", "xchain"} /\ iter[t].bucket = b
                      /\ iter[t].node # None \/ iter[t].place = "next"
    BY DEF NoBucketLeftLocked
  <2>1. Has(t, b)
    BY DEF IInv, LocksFit
  <2> QED BY <2>1 DEF Has, Busy, Excl
<1> SUFFICES ASSUME ~ LongLived PROVE IterSpec => []NoBucketLeftLocked
  OBVIOUS
<1>2. IterSpec => []IInv
  BY Invariance
<1> QED BY <1>1, <1>2, PTL

\* Only a thread in the bucket, or the destructor, changes its chain.
LEMMA ChainsChange ==
  ASSUME IInv, NEW t \in Threads, Method(t) \/ IterStep(t), destroying = None,
         NEW b \in Buckets, ppHashChains'[b] # ppHashChains[b]
  PROVE  /\ pBucketLock[b] = t
         /\ \/ pc[t] = "locked" /\ pc'[t] # "locked"
            \/ iter[t].kind \in {"x", "xchain"}
<1>1. TInv /\ ThreadsType /\ ItersType /\ None \notin Threads
  BY Typed, HashAssumption
<1>2. CASE Method(t)
  <2>1. CASE Link(t)
    <3> DEFINE c == Bucket(call[t].ref)
    <3>1. c \in Buckets /\ pc[t] = "locked" /\ \E n \in Nodes : Grown(c, n)
      BY <2>1, LinkIs
    <3>2. pc'[t] # "locked"
      BY <1>1, <2>1 DEF Link, Goto, ThreadsType
    <3>3. pBucketLock[c] = t
      BY <3>1, Owner DEF Busy
    <3>4. b = c
      BY <3>1 DEF Grown
    <3> QED BY <3>1, <3>2, <3>3, <3>4
  <2>2. ASSUME NEW v \in Nodes, Takes(t, v)
        PROVE  pBucketLock[b] = t /\ pc[t] = "locked" /\ pc'[t] # "locked"
    <3> DEFINE c == Bucket(call[t].ref)
    <3>1. c \in Buckets /\ v \in Range(ppHashChains[c]) /\ Shrunk({v})
      BY <1>2, <2>2, TakesIs
    <3>2. pc[t] = "locked" /\ pc'[t] # "locked"
      BY <1>1, <2>2 DEF Takes, ThreadsType
    <3>3. pBucketLock[c] = t
      BY <3>2, Owner DEF Busy
    <3>4. b = c
      <4>1. v \in Range(ppHashChains[b])
        BY <3>1 DEF Shrunk
      <4> QED BY <1>1, <3>1, <4>1 DEF TInv, OnePlace
    <3> QED BY <3>2, <3>3, <3>4
  <2>3. CASE Still \/ Fetch(t) \/ Release(t)
    BY <2>3 DEF Still, tableVars, Fetch, Release
  <2> QED BY <1>2, <2>1, <2>2, <2>3, MethodKinds
<1>3. ASSUME NEW n \in Nodes, BaseRemove(t, n)
      PROVE  pBucketLock[b] = t /\ iter[t].kind \in {"x", "xchain"}
  <2>1. /\ ppHashChains' = Without(n) /\ n \in Range(ppHashChains[iter[t].bucket])
        /\ element' = [element EXCEPT ![n] = NoElement] /\ usage' = usage
        /\ pBucketLock[iter[t].bucket] = t /\ iter[t].kind \in {"x", "xchain"}
    BY <1>3 DEF BaseRemove, Unlink
  <2>2. iter[t].bucket \in Buckets
    BY <1>1 DEF ItersType, IterType
  <2>3. n \in Linked
    BY <1>1, <2>1, <2>2, Scopes
  <2>4. \A k \in Nodes \ {n} : element'[k].key = element[k].key /\ element'[k].id = element[k].id
    BY <1>1, <2>1 DEF TInv, TableType
  <2>5. n \in Range(ppHashChains[b])
    BY <1>1, <2>1, <2>3, <2>4, NodeRemoved
  <2> QED BY <1>1, <2>1, <2>2, <2>5 DEF TInv, OnePlace
<1>4. CASE BeginDestroy(t) \/ InitCount(t) \/ NextElement(t) \/ Walk(t) \/ NextInChain(t)
  BY <1>4 DEF BeginDestroy, InitCount, NextElement, Walk, NextInChain
<1>5. CASE XInitLock(t) \/ XNext(t) \/ XWalk(t) \/ EndIteration(t) \/ ForEach(t) \/ ForEachBucket(t)
  BY <1>5 DEF XInitLock, XNext, XWalk, EndIteration, ForEach, ForEachBucket, vars, tableVars
<1>6. CASE InitIterator(t) \/ XInitIterator(t) \/ \E id \in Ids : InitIteratorInChain(t, id) \/ XInitIteratorInChain(t, id)
  BY <1>6 DEF InitIterator, XInitIterator, InitIteratorInChain, XInitIteratorInChain, Starting, vars, tableVars
<1>7. ~ DestroyElement(t) /\ ~ EndDestroy(t)
  BY <1>1 DEF DestroyElement, EndDestroy
<1> QED BY <1>2, <1>3, <1>4, <1>5, <1>6, <1>7 DEF IterStep

\* A bucket is unlocked by the thread that locked it, and its chain changes in the hands
\* of its owner: no other thread can find it half changed.
THEOREM OwnersOnly == ~ LongLived => (IterSpec => BucketsAreOwned)
<1> DEFINE Owned(b) ==
             LET owner == pBucketLock[b]
             IN  /\ (owner # None /\ pBucketLock'[b] = None) => pc'[owner] # pc[owner] \/ iter'[owner] # iter[owner]
                 /\ (ppHashChains'[b] # ppHashChains[b] /\ destroying = None)
                      => /\ owner # None
                         /\ \/ pc[owner] = "locked" /\ pc'[owner] # "locked"
                            \/ iter[owner].kind \in {"x", "xchain"}
<1>1. IInv /\ IInv' /\ [IterNext]_iterVars => \A b \in Buckets : Owned(b)
  <2> SUFFICES ASSUME IInv, IInv', [IterNext]_iterVars, NEW b \in Buckets PROVE Owned(b)
    OBVIOUS
  <2>1. None \notin Threads /\ ThreadsType
    BY Typed, HashAssumption
  <2>2. CASE UNCHANGED iterVars
    <3>1. ppHashChains' = ppHashChains /\ pBucketLock' = pBucketLock
      BY <2>2 DEF iterVars, vars, tableVars
    <3> QED BY <3>1
  <2>3. CASE IterNext
    <3>1. PICK t \in Threads : Method(t) \/ IterStep(t)
      BY <2>3 DEF IterNext
    <3>2. ASSUME pBucketLock[b] # None, pBucketLock'[b] = None, NEW u \in Threads, u = pBucketLock[b],
                 pc'[u] = pc[u], iter'[u] = iter[u]
          PROVE  FALSE
      <4>1. Has(u, b) /\ ~ Has(u, b)'
        BY <2>1, <3>2 DEF IInv, LocksFit
      <4>2. pc[u] \in Busy /\ call'[u].ref # call[u].ref
        BY <3>2, <4>1 DEF Has, Bucket
      <4>3. CASE IterStep(t)
        <5>1. call' = call
          BY <4>3 DEF IterStep, InitIterator, InitCount, NextElement, Walk, NextInChain, XInitIterator, XInitLock,
                      XNext, XWalk, InitIteratorInChain, XInitIteratorInChain, Starting, BaseRemove, EndIteration,
                      ForEach, ForEachBucket, BeginDestroy, DestroyElement, EndDestroy, vars
        <5> QED BY <4>2, <5>1
      <4>4. CASE Method(t)
        <5>1. u = t
          BY <4>2, <4>4, MethodCalls
        <5> QED BY <2>1, <3>2, <4>2, <4>4, <5>1, MethodCalls DEF Busy
      <4> QED BY <3>1, <4>3, <4>4
    <3>3. ppHashChains'[b] # ppHashChains[b] /\ destroying = None
             => /\ pBucketLock[b] = t
                /\ (pc[t] = "locked" /\ pc'[t] # "locked") \/ iter[t].kind \in {"x", "xchain"}
      BY <3>1, ChainsChange
    <3>4. pBucketLock[b] \in Threads \cup {None}
      BY <2>1 DEF ThreadsType
    <3> QED BY <2>1, <3>2, <3>3, <3>4
  <2> QED BY <2>2, <2>3
<1> SUFFICES ASSUME ~ LongLived PROVE IterSpec => BucketsAreOwned
  OBVIOUS
<1>2. IterSpec => []IInv
  BY Invariance
<1>3. IInv /\ IInv' /\ [IterNext]_iterVars =>
        [\A b \in Buckets :
           LET owner == pBucketLock[b]
           IN  /\ (owner # None /\ pBucketLock'[b] = None) => pc'[owner] # pc[owner] \/ iter'[owner] # iter[owner]
               /\ (ppHashChains'[b] # ppHashChains[b] /\ destroying = None)
                    => /\ owner # None
                       /\ \/ pc[owner] = "locked" /\ pc'[owner] # "locked"
                          \/ iter[owner].kind \in {"x", "xchain"}]_iterVars
  BY <1>1
<1> QED BY <1>2, <1>3, PTL DEF BucketsAreOwned, IterSpec

\* An iterator at its end has nothing left that it must still come to.
LEMMA DoneAtEnd ==
  IInv => \A t \in Threads :
            iter[t].kind \notin {"none", "destroy"} /\ iter[t].place = "stand" /\ iter[t].node = None
              => iter[t].todo = {}
<1> SUFFICES ASSUME IInv, NEW t \in Threads, iter[t].kind \notin {"none", "destroy"},
                    iter[t].place = "stand", iter[t].node = None
             PROVE  iter[t].todo = {}
  OBVIOUS
<1>1. TInv /\ iter[t] \in IterType /\ IterFits(t) /\ TodoFits(t)
  BY Typed DEF IInv, ItersType
<1>2. iter[t].bucket \in Buckets /\ (iter[t].bucket = last \/ iter[t].kind = "chain")
  BY <1>1 DEF IterFits, IterType, Kinds, Shared, Excl
<1>3. Ahead(iter[t]) = AheadOf(iter[t].kind, "stand", None, iter[t].bucket)
  BY AheadIs
<1>4. Ahead(iter[t]) = {}
  BY <1>1, <1>2, <1>3, AtEnd
<1> QED BY <1>1, <1>4 DEF TodoFits

\* The element that an iterator comes to was ahead of it.
LEMMA ComesToAhead ==
  ASSUME IInv, NEW t \in Threads, IterStep(t), NEW u \in Threads,
         iter[u].kind \notin {"none", "destroy"}, iter'[u].kind = iter[u].kind,
         iter'[u].node # iter[u].node, iter'[u].node # None
  PROVE  iter'[u].node \in Ahead(iter[u])
<1> DEFINE n == iter[u].node
           b == iter[u].bucket
           k == iter[u].kind
<1>1. /\ TInv /\ ItersType /\ iter[u] \in IterType /\ b \in Buckets /\ destroying = None
      /\ n \in Range(ppHashChains[b]) \cup {None} /\ IterFits(u)
      /\ \A c \in Buckets : Range(ppHashChains[c]) \subseteq Nodes
  <2>1. IterFits(u) /\ iter[u] \in IterType /\ TInv /\ ItersType
    BY Typed DEF IInv, ItersType
  <2> QED BY <2>1, NotDestroying DEF IterFits, IterType, TInv, TableType, Range
<1>2. CASE u = t
  <2> USE <1>2
  <2>1. ASSUME iter[u].place # "walk", NEW m, m = After(b, n), m # None PROVE m \in Ahead(iter[u])
    <3>1. m \in Range(ppHashChains[b]) /\ Precedes(ppHashChains[b], n, m)
      BY <1>1, <2>1, AfterOrder
    <3>2. m \in Nodes
      BY <1>1, <3>1
    <3> QED BY <2>1, <3>1, <3>2 DEF Ahead
  <2>2. ASSUME iter[u].place = "walk", NEW m, m = HeadOf(b), m # None PROVE m \in Ahead(iter[u])
    <3>1. m \in Range(ppHashChains[b])
      BY <1>1, <2>2, HeadIs
    <3>2. m \in Nodes /\ b >= b
      BY <1>1, <3>1, BucketsAre
    <3> QED BY <1>1, <2>2, <3>1, <3>2 DEF Ahead
  <2>3. \A p, m, c : Come(u, p, m, c) => iter'[u].node = m
    BY <1>1 DEF Come, ItersType, IterType
  <2>4. CASE InitCount(t) \/ XInitLock(t)
    <3>1. \E p : Come(u, p, n, b)
      BY <2>4 DEF InitCount, XInitLock
    <3> QED BY <2>3, <3>1
  <2>5. CASE NextElement(t)
    <3>1. iter[u].place # "walk" /\ \E p, c : Come(u, p, After(b, n), c)
      BY <2>5 DEF NextElement, Standing
    <3> QED BY <2>1, <2>3, <3>1
  <2>6. CASE NextInChain(t)
    <3>1. iter[u].place # "walk" /\ \E p, c : Come(u, p, After(b, n), c)
      BY <2>6 DEF NextInChain, Standing
    <3> QED BY <2>1, <2>3, <3>1
  <2>7. CASE XNext(t)
    <3>1. iter[u].place # "walk" /\ \E p, c : Come(u, p, After(b, n), c)
      BY <2>7 DEF XNext
    <3> QED BY <2>1, <2>3, <3>1
  <2>8. CASE Walk(t)
    <3>1. iter[u].place = "walk" /\ \E p, c : Come(u, p, HeadOf(b), c)
      BY <2>8 DEF Walk
    <3> QED BY <2>2, <2>3, <3>1
  <2>9. CASE XWalk(t)
    <3>1. iter[u].place = "walk" /\ \E p, c : Come(u, p, HeadOf(b), c)
      BY <2>9 DEF XWalk
    <3> QED BY <2>2, <2>3, <3>1
  <2>10. CASE EndIteration(t) \/ ForEachBucket(t)
    <3>1. iter' = [iter EXCEPT ![u] = NoIterator] => iter'[u].kind = "none"
      BY <1>1 DEF ItersType, NoIterator
    <3>2. CASE EndIteration(t)
      BY <3>1, <3>2 DEF EndIteration
    <3>3. CASE ForEachBucket(t)
      <4>1. iter'[u].node = n \/ iter'[u].kind = "none"
        <5>1. CASE iter' = [iter EXCEPT ![u] = NoIterator]
          BY <3>1, <5>1
        <5>2. CASE iter' # [iter EXCEPT ![u] = NoIterator]
          <6>1. iter' = [iter EXCEPT ![u].todo = @ \ Range(ppHashChains[b]),
                                     ![u].bucket = IF b = last THEN b ELSE b + 1,
                                     ![u].place = IF b = last THEN "stand" ELSE "walk"]
            BY <3>3, <5>2 DEF ForEachBucket
          <6> QED BY <1>1, <6>1 DEF ItersType, IterType
        <5> QED BY <5>1, <5>2
      <4> QED BY <4>1
    <3> QED BY <2>10, <3>2, <3>3
  <2>11. CASE ForEach(t) \/ BeginDestroy(t) \/ InitIterator(t) \/ XInitIterator(t)
              \/ \E id \in Ids : InitIteratorInChain(t, id) \/ XInitIteratorInChain(t, id)
    BY <2>11 DEF ForEach, BeginDestroy, InitIterator, XInitIterator, InitIteratorInChain, XInitIteratorInChain,
                 Starting, Standing, NoIterator
  <2>12. ASSUME NEW m \in Nodes, BaseRemove(t, m) PROVE FALSE
    <3>1. iter' = [w \in Threads |-> [iter[w] EXCEPT !.kept = @ \ {m}, !.todo = @ \ {m}]]
      BY <2>12 DEF BaseRemove
    <3>2. iter'[u] = [iter[u] EXCEPT !.kept = @ \ {m}, !.todo = @ \ {m}]
      BY <3>1
    <3> QED BY <1>1, <3>2 DEF IterType
  <2>13. ~ DestroyElement(t) /\ ~ EndDestroy(t)
    BY DEF DestroyElement, EndDestroy
  <2> QED BY <2>4, <2>5, <2>6, <2>7, <2>8, <2>9, <2>10, <2>11, <2>12, <2>13 DEF IterStep
<1>3. CASE u # t
  <2>1. iter'[u] = iter[u] \/ \E m \in Nodes : BaseRemove(t, m)
    <3>1. ~ DestroyElement(t) /\ ~ EndDestroy(t)
      BY <1>1, HashAssumption DEF DestroyElement, EndDestroy
    <3>2. (\E x : iter' = [iter EXCEPT ![t] = x]) => iter'[u] = iter[u]
      BY <1>1, <1>3 DEF ItersType
    <3>3. \A p, m, c : Come(t, p, m, c) => iter'[u] = iter[u]
      BY <1>1, <1>3 DEF ItersType, Come
    <3>4. CASE InitCount(t) \/ XInitLock(t) \/ NextElement(t) \/ NextInChain(t) \/ XNext(t) \/ Walk(t) \/ XWalk(t)
      BY <3>3, <3>4 DEF InitCount, XInitLock, NextElement, NextInChain, XNext, Walk, XWalk
    <3>5. CASE EndIteration(t) \/ ForEach(t) \/ BeginDestroy(t) \/ InitIterator(t) \/ XInitIterator(t)
               \/ \E id \in Ids : InitIteratorInChain(t, id) \/ XInitIteratorInChain(t, id)
      BY <3>2, <3>5 DEF EndIteration, ForEach, BeginDestroy, InitIterator, XInitIterator, InitIteratorInChain,
                        XInitIteratorInChain, Starting
    <3>6. CASE ForEachBucket(t)
      <4>1. CASE iter' = [iter EXCEPT ![t] = NoIterator]
        BY <3>2, <4>1
      <4>2. CASE iter' # [iter EXCEPT ![t] = NoIterator]
        BY <1>1, <1>3, <3>6, <4>2 DEF ForEachBucket, ItersType
      <4> QED BY <4>1, <4>2
    <3> QED BY <3>1, <3>4, <3>5, <3>6 DEF IterStep
  <2>2. ASSUME NEW m \in Nodes, BaseRemove(t, m) PROVE FALSE
    <3>1. iter' = [w \in Threads |-> [iter[w] EXCEPT !.kept = @ \ {m}, !.todo = @ \ {m}]]
      BY <2>2 DEF BaseRemove
    <3>2. iter'[u] = [iter[u] EXCEPT !.kept = @ \ {m}, !.todo = @ \ {m}]
      BY <3>1
    <3> QED BY <1>1, <3>2 DEF IterType
  <2> QED BY <2>1, <2>2
<1> QED BY <1>2, <1>3

\* An iteration comes to every element that stays in the table, once, whatever the other
\* threads add and remove meanwhile.
THEOREM IteratesOnceOverAll == ~ LongLived => (IterSpec => IterationsComplete)
<1>1. IInv /\ (\A t \in Threads :
                 iter[t].kind \notin {"none", "destroy"} /\ iter[t].place = "stand" /\ iter[t].node = None
                   => iter[t].todo = {})'
        /\ [IterNext]_iterVars =>
        [\A t \in Threads :
           LET old == iter[t] new == iter'[t]
           IN  (old.kind \notin {"none", "destroy"} /\ new.kind = old.kind /\ new # old) =>
                 /\ (new.node # old.node /\ new.node \in old.kept) => new.node \in old.todo
                 /\ (new.place = "stand" /\ new.node = None) => new.todo = {}]_iterVars
  <2> SUFFICES ASSUME IInv,
                      (\A t \in Threads :
                         iter[t].kind \notin {"none", "destroy"} /\ iter[t].place = "stand" /\ iter[t].node = None
                           => iter[t].todo = {})',
                      IterNext, NEW u \in Threads,
                      iter[u].kind \notin {"none", "destroy"}, iter'[u].kind = iter[u].kind
               PROVE  /\ (iter'[u].node # iter[u].node /\ iter'[u].node \in iter[u].kept)
                           => iter'[u].node \in iter[u].todo
                      /\ (iter'[u].place = "stand" /\ iter'[u].node = None) => iter'[u].todo = {}
    OBVIOUS
  <2>1. (iter'[u].place = "stand" /\ iter'[u].node = None) => iter'[u].todo = {}
    OBVIOUS
  <2>2. ASSUME iter'[u].node # iter[u].node, iter'[u].node \in iter[u].kept PROVE iter'[u].node \in iter[u].todo
    <3>1. PICK t \in Threads : Method(t) \/ IterStep(t)
      BY DEF IterNext
    <3>2. iter[u].kept \subseteq Linked /\ iter[u].todo = iter[u].kept \cap Ahead(iter[u])
      BY DEF IInv, TodoFits
    <3>3. None \notin Linked
      BY Typed, LinkedIs, HashAssumption DEF TInv, TableType
    <3>4. ~ Method(t)
      BY <2>2, MethodIters DEF SameIters
    <3>5. iter'[u].node \in Ahead(iter[u])
      BY <2>2, <3>1, <3>2, <3>3, <3>4, ComesToAhead
    <3> QED BY <2>2, <3>2, <3>5
  <2> QED BY <2>1, <2>2
<1> SUFFICES ASSUME ~ LongLived PROVE IterSpec => IterationsComplete
  OBVIOUS
<1>2. IterSpec => []IInv
  BY Invariance
<1> QED BY <1>1, <1>2, DoneAtEnd, PTL DEF IterationsComplete, IterSpec

-----------------------------------------------------------------------------
(***************************************************************************)
(* The table is a register of elements with atomic operations              *)
(***************************************************************************)
\* Nobody has what is in the bucket of a thread that works on it.
LEMMA NobodyElse ==
  ASSUME IInv, NEW t \in Threads, pc[t] = "locked", NEW n \in Range(Chain(call[t].ref)), NEW u \in Threads
  PROVE  call[u].node # n /\ call[t].node = None
<1>1. TInv /\ XFits(u) /\ XFits(t) /\ None \notin Nodes
  BY Typed, HashAssumption DEF IInv
<1>2. call[t].node = None
  BY <1>1 DEF XFits
<1>3. ASSUME call[u].node = n PROVE FALSE
  <2>1. Bucket(call[t].ref) \in Buckets /\ \A w \in Threads \ {t} : ~ Has(w, Bucket(call[t].ref))
    BY Owner DEF Busy
  <2>2. n \in Nodes
    BY <1>1, <2>1 DEF Chain, TInv, TableType, Range
  <2>3. pc[u] = "exclusive" /\ n \in Range(ppHashChains[Bucket(call[u].ref)])
    BY <1>1, <1>3, <2>2 DEF XFits, Chain
  <2>4. Bucket(call[u].ref) \in Buckets /\ Has(u, Bucket(call[u].ref))
    BY <2>3, Owner DEF Busy
  <2>5. Bucket(call[u].ref) = Bucket(call[t].ref)
    BY <1>1, <2>1, <2>3, <2>4 DEF TInv, OnePlace, Chain
  <2> QED BY <2>1, <2>3, <2>4, <2>5
<1> QED BY <1>2, <1>3

\* A function that differs from another at one place.
LEMMA ChangedAt ==
  ASSUME NEW S, NEW f, NEW g, NEW t \in S, NEW v,
         f = [u \in S |-> f[u]], g = [u \in S |-> g[u]],
         g[t] = v, \A u \in S \ {t} : g[u] = f[u]
  PROVE  g = [f EXCEPT ![t] = v]
OBVIOUS

LEMMA MethodRefines ==
  ASSUME IInv, NEW t \in Threads, Method(t)
  PROVE  [Register!Next]_Register!vars
<1> DEFINE F == [u \in Threads |-> held[u].node]
           X == [u \in Threads |-> call[u].node]
<1>1. /\ TInv /\ ThreadsType /\ ThreadsType' /\ CallFits(t) /\ XFits(t) /\ HeldFits(t) /\ None \notin Nodes
      /\ Linked \subseteq Nodes
      /\ \A u \in Threads \ {t} : call'[u] = call[u] /\ held'[u] = held[u]
  BY Typed, MethodCalls, LinkedIs, HashAssumption DEF IInv, TInv, TableType
<1>2. call'[t].node # None => XFetch(t)
  BY MethodKinds
<1>12. /\ F = [u \in Threads |-> F[u]] /\ F' = [u \in Threads |-> F'[u]]
       /\ X = [u \in Threads |-> X[u]] /\ X' = [u \in Threads |-> X'[u]]
       /\ \A u \in Threads : /\ F[u] = held[u].node /\ F'[u] = held'[u].node
                           /\ X[u] = call[u].node /\ X'[u] = call'[u].node
  OBVIOUS
<1>13. /\ \A u \in Threads \ {t} : F'[u] = F[u] /\ X'[u] = X[u]
  BY <1>1, <1>12
<1>14. ASSUME NEW v, F'[t] = v PROVE F' = [F EXCEPT ![t] = v]
  <2> HIDE DEF F
  <2> QED BY <1>12, <1>13, <1>14, ChangedAt
<1>15. ASSUME NEW v, X'[t] = v PROVE X' = [X EXCEPT ![t] = v]
  <2> HIDE DEF X
  <2> QED BY <1>12, <1>13, <1>15, ChangedAt
<1>3. ASSUME Linked' = Linked, F' = F, X' = X PROVE [Register!Next]_Register!vars
  BY <1>3 DEF Register!vars
<1>4. CASE Link(t)
  <2>1. PICK n \in Nodes : n \notin Linked /\ Linked' = Linked \cup {n}
    BY <1>4, LinkIs DEF Grown
  <2>2. held' = held /\ call' = call
    BY <1>4 DEF Link
  <2>3. Register!Add(n)
    BY <2>1, <2>2 DEF Register!Add
  <2> QED BY <2>1, <2>3 DEF Register!Next
<1>5. ASSUME NEW v \in Nodes, Takes(t, v) PROVE [Register!Next]_Register!vars
  <2>1. v \in Linked /\ Linked' = Linked \ {v} /\ \A u \in Threads : held[u].node # v /\ call[u].node # v
    BY <1>5, TakesIs
  <2>2. held' = held /\ call' = call
    BY <1>5 DEF Takes
  <2>3. Register!Remove(v)
    BY <2>1, <2>2 DEF Register!Remove
  <2> QED BY <2>3 DEF Register!Next
<1>6. CASE Fetch(t) \/ Release(t)
  <2>1. PICK n \in Linked : /\ SameTable /\ n \in Nodes /\ call' = call /\ pc[t] = "locked"
                            /\ IsFirst(n, call[t].ref)
                            /\ \/ held[t] = Nothing /\ held'[t] = [ref |-> call[t].ref, node |-> n]
                               \/ held'[t] = Nothing /\ held[t].node = n
    BY <1>6, FetchIs
  <2>2. Linked' = Linked
    BY <1>1, <2>1, SameIs
  <2>3. \A u \in Threads : call[u].node # n
    BY <2>1, NobodyElse DEF IsFirst
  <2>4. X' = X /\ X = [u \in Threads |-> call[u].node] /\ \A u \in Threads : X[u] # n
    BY <2>1, <2>3
  <2>5. ASSUME held[t] = Nothing, held'[t] = [ref |-> call[t].ref, node |-> n] PROVE Register!Fetch(t, n)
    <3>1. F' = [F EXCEPT ![t] = n] /\ F[t] = None
      <4>1. F'[t] = n /\ F[t] = None
        BY <1>12, <2>5 DEF Nothing
      <4> HIDE DEF F
      <4> QED BY <4>1, <1>14
    <3> QED BY <2>2, <2>4, <3>1 DEF Register!Fetch, Register!Unlocked
  <2>6. ASSUME held'[t] = Nothing, held[t].node = n PROVE Register!Release(t)
    <3>1. F' = [F EXCEPT ![t] = None] /\ F[t] = n /\ n # None
      <4>1. F'[t] = None /\ F[t] = n /\ n # None
        BY <1>1, <1>12, <2>1, <2>6 DEF Nothing
      <4> HIDE DEF F
      <4> QED BY <4>1, <1>14
    <3> QED BY <2>2, <2>4, <3>1 DEF Register!Release, Register!Unlocked
  <2> QED BY <2>1, <2>5, <2>6 DEF Register!Next
<1>7. CASE XFetch(t)
  <2>8. LET n == Find(call[t].ref)
        IN  /\ pc[t] = "locked" /\ n # None /\ call' = [call EXCEPT ![t].node = n] /\ held' = held
            /\ ppHashChains' = ppHashChains
    BY <1>7 DEF XFetch, Found, tableVars
  <2>9. Find(call[t].ref) \in Range(Chain(call[t].ref)) /\ Find(call[t].ref) \in Linked
    <3>1. call[t].ref \in Keys \cup Nat /\ Bucket(call[t].ref) \in Buckets
      BY <2>8, Owner DEF Busy
    <3> QED BY <1>1, <2>8, <3>1, FindIs DEF IsFirst, Chain, Linked
  <2>10. PICK n \in Linked : n = Find(call[t].ref)
    BY <2>9
  <2>1. pc[t] = "locked" /\ n # None /\ call' = [call EXCEPT ![t].node = n] /\ held' = held
        /\ ppHashChains' = ppHashChains
    BY <2>8, <2>10
  <2>2. n \in Range(Chain(call[t].ref)) /\ n \in Linked
    BY <2>9, <2>10
  <2>3. (\A u \in Threads : call[u].node # n) /\ call[t].node = None
    BY <2>1, <2>2, NobodyElse
  <2>4. X' = [X EXCEPT ![t] = n] /\ X[t] = None /\ \A u \in Threads : X[u] # n
    <3>1. call'[t].node = n
      BY <1>1, <2>1 DEF ThreadsType, CallType
    <3>2. X'[t] = n /\ X[t] = None /\ \A u \in Threads : X[u] # n
      BY <1>12, <2>3, <3>1
    <3> HIDE DEF X
    <3> QED BY <1>15, <3>2
  <2>5. Linked' = Linked
    BY <2>1 DEF Linked
  <2>6. Register!FetchExclusively(t, n)
    <3>1. F' = F
      BY <2>1
    <3>2. /\ n \in Linked /\ [u \in Threads |-> call[u].node][t] = None
          /\ \A u \in Threads : [w \in Threads |-> call[w].node][u] # n
          /\ [u \in Threads |-> call[u].node]' = [[u \in Threads |-> call[u].node] EXCEPT ![t] = n]
      BY <2>2, <2>4
    <3>3. UNCHANGED <<Linked, [u \in Threads |-> held[u].node]>>
      BY <2>5, <3>1
    <3> QED BY <3>2, <3>3 DEF Register!FetchExclusively, Register!Unlocked
  <2> QED BY <1>1, <2>2, <2>6 DEF Register!Next
<1>8. CASE Still /\ ~ XFetch(t)
  <2>1. Linked' = Linked /\ F' = F
    BY <1>8 DEF Still, tableVars, Linked
  <2>2. X' = [X EXCEPT ![t] = None]
    BY <1>1, <1>2, <1>8
  <2>3. CASE call[t].node = None
    <3>1. X' = X
      BY <2>2, <2>3
    <3> QED BY <1>3, <2>1, <3>1
  <2>4. CASE call[t].node # None
    <3>1. X[t] # None
      BY <2>4
    <3>2. Register!ReleaseExclusively(t)
      BY <2>1, <2>2, <3>1 DEF Register!ReleaseExclusively
    <3> QED BY <3>2 DEF Register!Next
  <2> QED BY <2>3, <2>4
<1> QED BY <1>4, <1>5, <1>6, <1>7, <1>8, MethodKinds

LEMMA IterStepRefines ==
  ASSUME IInv, NEW t \in Threads, IterStep(t)
  PROVE  [Register!Next]_Register!vars
<1>1. /\ TInv /\ ItersType /\ None \notin Nodes /\ None \notin Threads /\ Linked \subseteq Nodes
  BY Typed, LinkedIs, HashAssumption DEF TInv, TableType
<1>2. held' = held /\ call' = call
  BY DEF IterStep, InitIterator, InitCount, NextElement, Walk, NextInChain, XInitIterator, XInitLock,
         XNext, XWalk, InitIteratorInChain, XInitIteratorInChain, Starting, BaseRemove, EndIteration,
         ForEach, ForEachBucket, BeginDestroy, DestroyElement, EndDestroy, vars
<1>3. ASSUME ppHashChains' = ppHashChains PROVE [Register!Next]_Register!vars
  BY <1>2, <1>3 DEF Register!vars, Linked
<1>4. ASSUME NEW n \in Linked, ppHashChains' = Without(n), usage' = usage,
             \A k \in Nodes \ {n} : element'[k].key = element[k].key /\ element'[k].id = element[k].id,
             \A u \in Threads : held[u] = Nothing /\ call[u].node = None
      PROVE  [Register!Next]_Register!vars
  <2>1. Linked' = Linked \ {n}
    BY <1>1, <1>4, NodeRemoved
  <2>2. \A u \in Threads : held[u].node # n /\ call[u].node # n
    BY <1>1, <1>4 DEF Nothing
  <2>3. Register!Remove(n)
    BY <1>2, <2>1, <2>2 DEF Register!Remove
  <2> QED BY <1>1, <2>3 DEF Register!Next
<1>5. ASSUME NEW n \in Nodes, BaseRemove(t, n) PROVE [Register!Next]_Register!vars
  <2>1. usage = "xiterated"
    <3>1. IterFits(t) /\ iter[t].kind \in Excl
      BY <1>5 DEF IInv, BaseRemove, Excl
    <3> QED BY <3>1 DEF IterFits, Excl
  <2>2. /\ ppHashChains' = Without(n) /\ element' = [element EXCEPT ![n] = NoElement] /\ usage' = usage
        /\ n \in Range(ppHashChains[iter[t].bucket])
    BY <1>5 DEF BaseRemove, Unlink
  <2>3. n \in Linked
    <3>1. iter[t].bucket \in Buckets
      BY <1>1 DEF ItersType, IterType
    <3> QED BY <1>1, <2>2, <3>1, Scopes
  <2>4. \A k \in Nodes \ {n} : element'[k].key = element[k].key /\ element'[k].id = element[k].id
    BY <1>1, <2>2 DEF TInv, TableType
  <2> QED BY <1>4, <2>1, <2>2, <2>3, <2>4, OnlyIterators
<1>6. ASSUME destroying = t
      PROVE  \A u \in Threads : held[u] = Nothing /\ call[u].node = None
  <2>1. \A u \in Threads : pc[u] = "idle" /\ held[u] = Nothing
    BY <1>1, <1>6 DEF IInv, Alone
  <2> QED BY <2>1, NobodyThere DEF NoCall
<1>7. CASE DestroyElement(t)
  <2>1. iter[t].node \in Linked /\ destroying = t
    BY <1>7, ThreadsHaveLinked DEF DestroyElement
  <2>2. PICK v : /\ v = Find(element[iter[t].node].key) /\ usage' = usage
                 /\ \/ ppHashChains' = ppHashChains
                    \/ /\ ppHashChains' = Without(v) /\ v # None
                       /\ \E r : element' = [k \in Nodes |-> IF k = v THEN NoElement
                                                             ELSE [element[k] EXCEPT !.refs = r[k]]]
    <3> DEFINE v == Find(element[iter[t].node].key)
    <3>1. usage' = usage
      BY <1>7 DEF DestroyElement
    <3> DEFINE n    == iter[t].node
               later == {d \in (iter[t].bucket + 1)..last : ppHashChains[d] # <<>>}
               b    == IF After(iter[t].bucket, n) # None \/ later = {} THEN iter[t].bucket ELSE Min(later)
               m    == IF After(iter[t].bucket, n) # None THEN After(iter[t].bucket, n)
                       ELSE IF later = {} THEN None ELSE HeadOf(b)
               refs == [k \in Nodes |-> element[k].refs + (IF k = m THEN 1 ELSE 0) - (IF k = n THEN 1 ELSE 0)]
               gone == IF v # None /\ refs[v] = 1 THEN {v} ELSE {}
    <3>4. /\ ppHashChains' = IF gone = {} THEN ppHashChains ELSE Without(v)
          /\ element' = [k \in Nodes |-> IF k \in gone THEN NoElement ELSE [element[k] EXCEPT !.refs = refs[k]]]
      BY <1>7 DEF DestroyElement
    <3> HIDE DEF refs
    <3>2. \E r : LET out == IF v # None /\ r[v] = 1 THEN {v} ELSE {}
                 IN  /\ ppHashChains' = IF out = {} THEN ppHashChains ELSE Without(v)
                     /\ element' = [k \in Nodes |-> IF k \in out THEN NoElement
                                                    ELSE [element[k] EXCEPT !.refs = r[k]]]
      BY <3>4
    <3> HIDE DEF v
    <3>3. \/ ppHashChains' = ppHashChains
          \/ /\ ppHashChains' = Without(v) /\ v # None
             /\ \E r : element' = [k \in Nodes |-> IF k = v THEN NoElement ELSE [element[k] EXCEPT !.refs = r[k]]]
      BY <3>2
    <3> QED BY <3>1, <3>3 DEF v
  <2>3. CASE ppHashChains' = ppHashChains
    BY <1>3, <2>3
  <2>4. CASE ppHashChains' # ppHashChains
    <3>1. PICK r : element' = [k \in Nodes |-> IF k = v THEN NoElement ELSE [element[k] EXCEPT !.refs = r[k]]]
      BY <2>2, <2>4
    <3>2. \A k \in Nodes \ {v} : element'[k].key = element[k].key /\ element'[k].id = element[k].id
      BY <1>1, <3>1 DEF TInv, TableType
    <3>3. v \in Linked
      <4>1. \E b \in Buckets : iter[t].node \in Range(ppHashChains[b])
        BY <2>1 DEF Linked
      <4>2. element[iter[t].node].key \in Keys
        BY <1>1, <4>1 DEF TInv, Placed
      <4>3. v # None /\ Bucket(element[iter[t].node].key) \in Buckets
        BY <2>2, <2>4, <4>2, BucketsAre
      <4> QED BY <1>1, <2>2, <4>2, <4>3, FindIs DEF IsFirst, Chain, Linked
    <3> QED BY <1>4, <1>6, <2>1, <2>2, <2>4, <3>2, <3>3
  <2> QED BY <2>3, <2>4
<1>8. CASE EndDestroy(t)
  <2>1. ppHashChains' = [b \in Buckets |-> <<>>] /\ destroying = t
    BY <1>8 DEF EndDestroy
  <2>2. Linked' = {}
    BY <2>1 DEF Linked, Range
  <2>3. Register!Clear
    BY <1>2, <1>6, <2>1, <2>2 DEF Register!Clear, Nothing
  <2> QED BY <2>3 DEF Register!Next
<1>9. CASE BeginDestroy(t) \/ InitCount(t) \/ NextElement(t) \/ Walk(t) \/ NextInChain(t)
  BY <1>3, <1>9 DEF BeginDestroy, InitCount, NextElement, Walk, NextInChain
<1>10. CASE XInitLock(t) \/ XNext(t) \/ XWalk(t) \/ EndIteration(t) \/ ForEach(t) \/ ForEachBucket(t)
  BY <1>3, <1>10 DEF XInitLock, XNext, XWalk, EndIteration, ForEach, ForEachBucket, vars, tableVars
<1>11. CASE InitIterator(t) \/ XInitIterator(t) \/ \E id \in Ids : InitIteratorInChain(t, id) \/ XInitIteratorInChain(t, id)
  BY <1>3, <1>11 DEF InitIterator, XInitIterator, InitIteratorInChain, XInitIteratorInChain, Starting, vars, tableVars
<1> QED BY <1>5, <1>7, <1>8, <1>9, <1>10, <1>11 DEF IterStep

\* The methods, iterators and destructor, with all their steps, implement the register:
\* fetching, releasing, adding and removing are atomic, what somebody has fetched stays,
\* and nobody else gets what a thread has fetched exclusively.
THEOREM Refinement == ~ LongLived => (IterSpec => ImplementsRegister)
<1>1. IterInit => Register!Init
  <2> SUFFICES ASSUME IterInit PROVE Register!Init
    OBVIOUS
  <2>1. Linked = {}
    BY DEF IterInit, Init, Linked, Range
  <2>2. held = [u \in Threads |-> Nothing] /\ call = [u \in Threads |-> NoCall]
    BY DEF IterInit, Init
  <2> QED BY <2>1, <2>2 DEF Register!Init, Nothing, NoCall
<1>2. IInv /\ [IterNext]_iterVars => [Register!Next]_Register!vars
  <2> SUFFICES ASSUME IInv, [IterNext]_iterVars PROVE [Register!Next]_Register!vars
    OBVIOUS
  <2>1. CASE IterNext
    BY <2>1, MethodRefines, IterStepRefines DEF IterNext
  <2>2. CASE UNCHANGED iterVars
    BY <2>2 DEF iterVars, vars, tableVars, Register!vars, Linked
  <2> QED BY <2>1, <2>2
<1> SUFFICES ASSUME ~ LongLived PROVE IterSpec => ImplementsRegister
  OBVIOUS
<1>3. IterSpec => []IInv
  BY Invariance
<1> QED BY <1>1, <1>2, <1>3, PTL DEF ImplementsRegister, Register!Spec, IterSpec
=============================================================================
