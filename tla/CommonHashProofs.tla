-------------------------- MODULE CommonHashProofs --------------------------
(***************************************************************************)
(* Proofs about CommonHash.tla, for any nodes, keys, hash function, number *)
(* of buckets and largest id, and for any ids that the caller gives, but   *)
(* that it gives the id 0 to keys of the first bucket only (~ AnyGivenId). *)
(***************************************************************************)
EXTENDS CommonHash, ListLemmas

\* A node is in one place of one chain.
OnePlace == /\ \A b \in Buckets : Distinct(ppHashChains[b])
            /\ \A b, c \in Buckets : b # c => Range(ppHashChains[b]) \cap Range(ppHashChains[c]) = {}

\* It is where its references lead.
Placed == \A b \in Buckets : \A n \in Range(ppHashChains[b]) :
            /\ element[n].key \in Keys
            /\ element[n].id # 0 \/ usage = "id" => b = Bucket(element[n].id)
            /\ element[n].id = 0 \/ usage = "key" => b = Bucket(element[n].key)

Counted == numberOfElements = Cardinality(Linked)

TInv == TypeOK /\ OnePlace /\ Placed /\ Counted

\* The nodes that an iterator at a node of a bucket has still to come to.
Ahead(p, b, whole) ==
  {m \in Nodes : \/ whole /\ \E c \in Buckets : c > b /\ m \in Range(ppHashChains[c])
                 \/ Precedes(ppHashChains[b], p, m)}

ToCome == Ahead(iterator.pCurrentElement, iterator.currentBucket, phase = "table")

\* Between two steps of an iteration nothing that is to come has been visited, and of
\* the elements that it has to visit the others were, once.
Walking ==
  phase \in {"table", "chain"} =>
    LET p == iterator.pCurrentElement
        b == iterator.currentBucket
    IN  /\ p # None => p \in Range(ppHashChains[b])
        /\ phase = "table" /\ p = None => b = numberOfBuckets - 1
        /\ \A n \in Linked : visits[n] <= 1
        /\ \A n \in ToCome : visits[n] = 0
        /\ \A n \in stayed : n \in Linked /\ (n \in ToCome \/ visits[n] = 1)

\* The iterator of the destructor stands on the first element that is left.
Destroying ==
  phase \in {"destroying", "destroyed"} =>
    LET p == iterator.pCurrentElement
        b == iterator.currentBucket
    IN  /\ phase = "destroyed" => p = None
        /\ p = None => Linked = {}
        /\ p # None => p = HeadOf(b) /\ \A c \in Buckets : c < b => ppHashChains[c] = <<>>
        /\ Linked \subseteq stayed
        /\ \A n \in stayed : visits[n] = IF n \in Linked THEN 0 ELSE 1

\* The inductive invariant.
IInv == TInv /\ Walking /\ Destroying

-----------------------------------------------------------------------------
(***************************************************************************)
(* Ids and buckets                                                         *)
(***************************************************************************)
LEMMA BucketsAre ==
  /\ \A ref \in Keys \cup Nat : Bucket(ref) \in Buckets
  /\ 0 \in Buckets /\ numberOfBuckets - 1 \in Buckets
  /\ Buckets \subseteq Nat
  /\ IsFiniteSet(Buckets)
<1> USE HashAssumption
<1>1. ASSUME NEW ref \in Keys \cup Nat PROVE Bucket(ref) \in Buckets
  <2>1. (IF ref \in Keys THEN fpHashFunc[ref] ELSE ref) \in Nat
    OBVIOUS
  <2>2. \A x \in Nat : x % numberOfBuckets \in 0..(numberOfBuckets - 1)
    OBVIOUS
  <2> QED BY <2>1, <2>2 DEF Bucket, Buckets
<1>2. 0 \in Buckets /\ numberOfBuckets - 1 \in Buckets /\ Buckets \subseteq Nat
  BY DEF Buckets
<1>3. IsFiniteSet(Buckets)
  BY FS_Interval DEF Buckets
<1> QED BY <1>1, <1>2, <1>3

\* A generated id is at most the largest one, and leads back to the bucket it was
\* generated for, also when the counter of the bucket starts again.
LEMMA GeneratedIds ==
  ASSUME TypeOK, NEW b \in Buckets
  PROVE  /\ Counter(b) \in Nat
         /\ NewId(b) \in Ids /\ NewId(b) \in Nat
         /\ Bucket(NewId(b)) = b
<1> USE HashAssumption
<1> DEFINE c == Counter(b)
<1>1. b \in 0..(numberOfBuckets - 1) /\ b \in Nat /\ U32Max \in Nat /\ numberOfBuckets \in Nat \ {0}
      /\ U32Max >= numberOfBuckets + b
  BY DEF Buckets
<1>2. bucketCounter[b] \in Nat
  BY DEF TypeOK
<1>3. 1 <= (U32Max - b) \div numberOfBuckets
  BY <1>1, Z3
<1>4. c \in Nat /\ c <= (U32Max - b) \div numberOfBuckets
  <2>1. (U32Max - b) \div numberOfBuckets \in Int
    BY <1>1
  <2> QED BY <1>2, <1>3, <2>1 DEF Counter
<1> HIDE DEF c
<1>5. c * numberOfBuckets + b \in 0..U32Max
  BY <1>1, <1>4, CounterFits
<1>6. (c * numberOfBuckets + b) % numberOfBuckets = b
  BY <1>1, <1>4, CounterAndBucket
<1>7. NewId(b) = c * numberOfBuckets + b
  BY DEF NewId, c
<1>8. NewId(b) \in 0..U32Max /\ NewId(b) \in Nat
  BY <1>1, <1>5, <1>7
<1>9. NewId(b) \notin Keys
  BY <1>8
<1> QED BY <1>4, <1>6, <1>7, <1>8, <1>9 DEF c, Bucket, Ids

LEMMA CounterAfterType ==
  ASSUME TypeOK, NEW id \in Ids
  PROVE  CounterAfter(Bucket(id), id) \in Nat
<1> USE HashAssumption
<1> DEFINE b == Bucket(id)
<1>1. id \in Nat /\ b \in Buckets /\ b = id % numberOfBuckets
  BY BucketsAre DEF Ids, Bucket
<1>2. b \in Nat /\ b <= id /\ bucketCounter[b] \in Nat
  <2>1. b \in Nat /\ bucketCounter[b] \in Nat
    BY <1>1 DEF Buckets, TypeOK
  <2>2. id % numberOfBuckets <= id
    BY <1>1
  <2> QED BY <1>1, <2>1, <2>2
<1> HIDE DEF b
<1>3. (id - b) \div numberOfBuckets \in Nat
  BY <1>1, <1>2
<1>4. CounterAfter(b, id) \in Nat
  BY <1>2, <1>3 DEF CounterAfter
<1> QED BY <1>4 DEF b

-----------------------------------------------------------------------------
(***************************************************************************)
(* The table                                                               *)
(***************************************************************************)
LEMMA LinkedIs ==
  ASSUME TypeOK
  PROVE  /\ Linked \in SUBSET Nodes
         /\ IsFiniteSet(Linked) /\ Cardinality(Linked) \in Nat
         /\ \A n : n \in Linked <=> \E b \in Buckets : n \in Range(ppHashChains[b])
<1>1. \A b \in Buckets : Range(ppHashChains[b]) \subseteq Nodes
  BY DEF TypeOK, Range
<1>2. Linked \in SUBSET Nodes
  BY <1>1 DEF Linked
<1>3. IsFiniteSet(Linked) /\ Cardinality(Linked) \in Nat
  BY <1>2, HashAssumption, FS_Subset, FS_CardinalityType
<1> QED BY <1>2, <1>3 DEF Linked

\* A lookup gives an element of the chain of the reference, or none; it gives the head
\* if that matches.
LEMMA FindGives ==
  ASSUME TypeOK, NEW ref \in Keys \cup Nat
  PROVE  /\ Find(ref) = None \/ Find(ref) \in Range(Chain(ref))
         /\ Chain(ref) # <<>> /\ Matches(Chain(ref)[1], ref) => Find(ref) = Chain(ref)[1]
<1> DEFINE q == Chain(ref)
           T == {i \in 1..Len(q) : Matches(q[i], ref)}
           k == SelectInSeq(q, LAMBDA n : Matches(n, ref))
<1>1. q \in Seq(Nodes)
  BY BucketsAre DEF TypeOK, Chain
<1>2. k = IF T # {} THEN Min(T) ELSE 0
  BY DEF SelectInSeq
<1>3. Find(ref) = IF k = 0 THEN None ELSE q[k]
  BY DEF Find
<1> HIDE DEF k
<1>4. T \in SUBSET Nat
  BY <1>1
<1>5. T # {} => Min(T) \in T /\ \A y \in T : Min(T) <= y
  BY <1>4, LeastNatural
<1>6. k # 0 => k \in 1..Len(q)
  BY <1>2, <1>5
<1>7. ASSUME q # <<>>, Matches(q[1], ref) PROVE k = 1
  <2>1. 1 \in T
    BY <1>1, <1>7
  <2> QED BY <1>2, <1>4, <1>5, <2>1
<1> HIDE DEF q, T
<1>8. Find(ref) = None \/ Find(ref) \in Range(q)
  BY <1>3, <1>6 DEF Range
<1>9. q # <<>> /\ Matches(q[1], ref) => Find(ref) = q[1]
  BY <1>3, <1>7
<1> QED BY <1>8, <1>9 DEF q

TableType == /\ ppHashChains \in [Buckets -> Seq(Nodes)]
             /\ element \in [Nodes -> [key : Keys \cup {None}, id : Ids]]
             /\ numberOfElements \in Nat

\* A new node at either end of the chain that its references lead to keeps the table
\* sound, and the order of the other elements.
LEMMA NodeAdded ==
  ASSUME TInv, NEW b \in Buckets, NEW n \in Nodes \ Linked, NEW k \in Keys, NEW id \in Ids,
         NEW chain \in {Append(ppHashChains[b], n), <<n>> \o ppHashChains[b]},
         ppHashChains' = [ppHashChains EXCEPT ![b] = chain],
         element' = [element EXCEPT ![n] = [key |-> k, id |-> id]],
         numberOfElements' = numberOfElements + 1,
         usage' = usage,
         id # 0 \/ usage = "id" => b = Bucket(id),
         id = 0 \/ usage = "key" => b = Bucket(k)
  PROVE  /\ TableType' /\ OnePlace' /\ Placed' /\ Counted'
         /\ Linked' = Linked \cup {n}
         /\ \A c \in Buckets : Range(ppHashChains'[c]) =
                                 IF c = b THEN Range(ppHashChains[c]) \cup {n} ELSE Range(ppHashChains[c])
         /\ \A c \in Buckets : \A x, y :
              /\ Precedes(ppHashChains[c], x, y) => Precedes(ppHashChains'[c], x, y)
              /\ Precedes(ppHashChains'[c], x, y) => Precedes(ppHashChains[c], x, y) \/ x = n \/ y = n
<1> USE DEF TInv
<1>1. /\ ppHashChains \in [Buckets -> Seq(Nodes)]
      /\ element \in [Nodes -> [key : Keys \cup {None}, id : Ids]]
      /\ numberOfElements \in Nat
  BY DEF TypeOK
<1>2. /\ Linked \in SUBSET Nodes /\ IsFiniteSet(Linked) /\ Cardinality(Linked) \in Nat
      /\ \A m : m \in Linked <=> \E c \in Buckets : m \in Range(ppHashChains[c])
  BY LinkedIs
<1>3. ppHashChains[b] \in Seq(Nodes) /\ n \in Nodes /\ n \notin Range(ppHashChains[b]) /\ Distinct(ppHashChains[b])
  BY <1>1, <1>2 DEF OnePlace
<1>4. /\ chain \in Seq(Nodes)
      /\ Range(chain) = Range(ppHashChains[b]) \cup {n}
      /\ Distinct(chain)
  <2> DEFINE q == ppHashChains[b]
  <2>0. q \in Seq(Nodes) /\ n \in Nodes /\ n \notin Range(q) /\ \A i, j \in 1..Len(q) : i # j => q[i] # q[j]
    BY <1>3 DEF Distinct
  <2>1. CASE chain = Append(q, n)
    <3> HIDE DEF q
    <3>1. \A i, j \in 1..Len(Append(q, n)) : i # j => Append(q, n)[i] # Append(q, n)[j]
      BY <2>0, PushBack, Zenon
    <3>2. Append(q, n) \in Seq(Nodes) /\ Range(Append(q, n)) = Range(q) \cup {n}
      BY <2>0, PushBack, Zenon
    <3>3. Distinct(Append(q, n))
      BY <3>1, Zenon DEF Distinct
    <3> QED BY <2>1, <3>2, <3>3, Zenon DEF q
  <2>2. CASE chain = <<n>> \o q
    <3> HIDE DEF q
    <3>1. \A i, j \in 1..Len(<<n>> \o q) : i # j => (<<n>> \o q)[i] # (<<n>> \o q)[j]
      BY <2>0, PushFront, Zenon
    <3>2. <<n>> \o q \in Seq(Nodes) /\ Range(<<n>> \o q) = Range(q) \cup {n}
      BY <2>0, PushFront, Zenon
    <3>3. Distinct(<<n>> \o q)
      BY <3>1, Zenon DEF Distinct
    <3> QED BY <2>2, <3>2, <3>3, Zenon DEF q
  <2> QED BY <2>1, <2>2
<1>5. \A x, y : /\ Precedes(ppHashChains[b], x, y) => Precedes(chain, x, y)
                /\ Precedes(chain, x, y) => Precedes(ppHashChains[b], x, y) \/ x = n \/ y = n
  <2> DEFINE q == ppHashChains[b]
  <2>1. q \in Seq(Nodes) /\ n \in Nodes /\ chain \in {Append(q, n), <<n>> \o q}
    BY <1>3
  <2> HIDE DEF q
  <2>2. \A r \in {Append(q, n), <<n>> \o q} : \A x, y :
          /\ Precedes(q, x, y) => Precedes(r, x, y)
          /\ Precedes(r, x, y) => Precedes(q, x, y) \/ x = n \/ y = n
    BY <2>1, PushedOrder, Zenon
  <2> QED BY <2>1, <2>2, Zenon DEF q
<1>6. \A c \in Buckets : ppHashChains'[c] = IF c = b THEN chain ELSE ppHashChains[c]
  BY <1>1
<1>7. \A c \in Buckets : Range(ppHashChains'[c]) =
                           IF c = b THEN Range(ppHashChains[c]) \cup {n} ELSE Range(ppHashChains[c])
  <2> SUFFICES ASSUME NEW c \in Buckets
               PROVE  /\ c = b => Range(ppHashChains'[c]) = Range(ppHashChains[c]) \cup {n}
                      /\ c # b => Range(ppHashChains'[c]) = Range(ppHashChains[c])
    BY Zenon
  <2>1. CASE c = b
    <3>1. ppHashChains'[c] = chain
      BY <1>6, <2>1
    <3> QED BY <1>4, <2>1, <3>1
  <2>2. CASE c # b
    <3>1. ppHashChains'[c] = ppHashChains[c]
      BY <1>6, <2>2
    <3> QED BY <2>2, <3>1
  <2> QED BY <2>1, <2>2
<1>71. \A c \in Buckets : \A m : m \in Range(ppHashChains'[c]) <=>
                                   m \in Range(ppHashChains[c]) \/ (c = b /\ m = n)
  <2> SUFFICES ASSUME NEW c \in Buckets, NEW m
               PROVE  m \in Range(ppHashChains'[c]) <=> m \in Range(ppHashChains[c]) \/ (c = b /\ m = n)
    BY Zenon
  <2>1. CASE c = b
    <3>1. Range(ppHashChains'[c]) = Range(ppHashChains[c]) \cup {n}
      BY <1>7, <2>1
    <3> QED BY <2>1, <3>1
  <2>2. CASE c # b
    <3>1. Range(ppHashChains'[c]) = Range(ppHashChains[c])
      BY <1>7, <2>2
    <3> QED BY <2>2, <3>1
  <2> QED BY <2>1, <2>2
<1>8. Linked' = Linked \cup {n}
  <2>1. Linked' = UNION {Range(ppHashChains'[c]) : c \in Buckets}
    BY DEF Linked
  <2>2. \A m : m \in Linked' <=> \E c \in Buckets : m \in Range(ppHashChains'[c])
    BY <2>1
  <2> HIDE DEF Linked
  <2> QED BY <1>2, <1>71, <2>2
<1>9. TableType'
  <2>1. ppHashChains' \in [Buckets -> Seq(Nodes)]
    BY <1>1, <1>4
  <2>2. [key |-> k, id |-> id] \in [key : Keys \cup {None}, id : Ids]
    OBVIOUS
  <2>3. element' \in [Nodes -> [key : Keys \cup {None}, id : Ids]]
    BY <1>1, <2>2
  <2> QED BY <1>1, <2>1, <2>3 DEF TableType
<1>10. OnePlace'
  <2>1. \A c \in Buckets : Distinct(ppHashChains'[c])
    BY <1>4, <1>6 DEF OnePlace
  <2>2. \A c, d \in Buckets : c # d => Range(ppHashChains'[c]) \cap Range(ppHashChains'[d]) = {}
    <3>1. \A c \in Buckets : n \notin Range(ppHashChains[c])
      BY <1>2
    <3> SUFFICES ASSUME NEW c \in Buckets, NEW d \in Buckets, c # d,
                        NEW m, m \in Range(ppHashChains'[c]), m \in Range(ppHashChains'[d])
                 PROVE  FALSE
      BY Zenon
    <3>2. m \in Range(ppHashChains[c]) /\ m \in Range(ppHashChains[d])
      BY <1>71, <3>1
    <3> QED BY <3>2 DEF OnePlace
  <2> QED BY <2>1, <2>2 DEF OnePlace
<1>11. Placed'
  <2>1. /\ element'[n] = [key |-> k, id |-> id]
        /\ \A m \in Nodes \ {n} : element'[m] = element[m]
    BY <1>1
  <2>2. SUFFICES ASSUME NEW c \in Buckets, NEW m \in Range(ppHashChains'[c])
                 PROVE  /\ element'[m].key \in Keys
                        /\ element'[m].id # 0 \/ usage = "id" => c = Bucket(element'[m].id)
                        /\ element'[m].id = 0 \/ usage = "key" => c = Bucket(element'[m].key)
    BY DEF Placed, Bucket
  <2>3. CASE m = n
    <3>1. c = b
      BY <1>2, <1>71, <2>3
    <3> QED BY <2>1, <2>3, <3>1
  <2>4. CASE m # n
    <3>1. m \in Range(ppHashChains[c]) /\ m \in Nodes
      BY <1>2, <1>71, <2>4
    <3> QED BY <2>1, <2>4, <3>1 DEF Placed
  <2> QED BY <2>3, <2>4
<1>12. Counted'
  <2>1. Cardinality(Linked \cup {n}) = Cardinality(Linked) + 1
    BY <1>2, FS_AddElement
  <2>2. numberOfElements' = Cardinality(Linked')
    BY <1>8, <2>1 DEF Counted
  <2> QED BY <2>2 DEF Counted
<1> QED BY <1>5, <1>6, <1>7, <1>8, <1>9, <1>10, <1>11, <1>12

\* An element that is taken out leaves the table sound, and the order of the others.
LEMMA NodeRemoved ==
  ASSUME TInv, NEW b \in Buckets, NEW n \in Range(ppHashChains[b]),
         ppHashChains' = [ppHashChains EXCEPT ![b] = RemoveFirst(@, n)],
         element' = [element EXCEPT ![n] = NoElement],
         numberOfElements' = numberOfElements - 1,
         usage' = usage
  PROVE  /\ TableType' /\ OnePlace' /\ Placed' /\ Counted'
         /\ Linked' = Linked \ {n}
         /\ \A c \in Buckets : Range(ppHashChains'[c]) = Range(ppHashChains[c]) \ {n}
         /\ \A c \in Buckets : \A x, y :
              Precedes(ppHashChains'[c], x, y) <=> Precedes(ppHashChains[c], x, y) /\ x # n /\ y # n
<1> USE DEF TInv
<1>1. /\ ppHashChains \in [Buckets -> Seq(Nodes)]
      /\ element \in [Nodes -> [key : Keys \cup {None}, id : Ids]]
      /\ numberOfElements \in Nat
  BY DEF TypeOK
<1>2. /\ Linked \in SUBSET Nodes /\ IsFiniteSet(Linked) /\ Cardinality(Linked) \in Nat
      /\ \A m : m \in Linked <=> \E c \in Buckets : m \in Range(ppHashChains[c])
  BY LinkedIs
<1>3. ppHashChains[b] \in Seq(Nodes) /\ Distinct(ppHashChains[b]) /\ n \in Linked /\ n \in Nodes
  BY <1>1, <1>2 DEF OnePlace
<1> DEFINE chain == RemoveFirst(ppHashChains[b], n)
<1>4. /\ chain \in Seq(Nodes) /\ Distinct(chain) /\ Range(chain) = Range(ppHashChains[b]) \ {n}
      /\ \A x, y : Precedes(chain, x, y) <=> Precedes(ppHashChains[b], x, y) /\ x # n /\ y # n
  BY <1>3, TakeOut
<1>5. ppHashChains' = [ppHashChains EXCEPT ![b] = chain]
  OBVIOUS
<1> HIDE DEF chain
<1>6. \A c \in Buckets : ppHashChains'[c] = IF c = b THEN chain ELSE ppHashChains[c]
  BY <1>1, <1>5
<1>7. \A c \in Buckets : c # b => n \notin Range(ppHashChains[c])
  BY DEF OnePlace
<1>8. \A c \in Buckets : Range(ppHashChains'[c]) = Range(ppHashChains[c]) \ {n}
  BY <1>4, <1>6, <1>7
<1>9. ASSUME NEW c \in Buckets, NEW x, NEW y
      PROVE  Precedes(ppHashChains'[c], x, y) <=> Precedes(ppHashChains[c], x, y) /\ x # n /\ y # n
  <2>1. Precedes(ppHashChains[c], x, y) => x \in Range(ppHashChains[c]) /\ y \in Range(ppHashChains[c])
    BY DEF Precedes, Range
  <2> QED BY <1>4, <1>6, <1>7, <2>1
<1>10. Linked' = Linked \ {n}
  <2>1. Linked' = UNION {Range(ppHashChains'[c]) : c \in Buckets}
    BY DEF Linked
  <2>2. \A m : m \in Linked' <=> \E c \in Buckets : m \in Range(ppHashChains'[c])
    BY <2>1
  <2> HIDE DEF Linked
  <2> QED BY <1>2, <1>8, <2>2
<1>11. Cardinality(Linked \ {n}) = Cardinality(Linked) - 1
  BY <1>2, <1>3, FS_RemoveElement
<1>12. Counted' /\ numberOfElements' \in Nat
  <2>1. numberOfElements' = Cardinality(Linked')
    BY <1>10, <1>11 DEF Counted
  <2>2. Cardinality(Linked \ {n}) \in Nat
    BY <1>2, FS_Subset, FS_CardinalityType
  <2> QED BY <1>10, <2>1, <2>2 DEF Counted
<1>13. TableType'
  <2>1. ppHashChains' \in [Buckets -> Seq(Nodes)]
    BY <1>1, <1>4, <1>5
  <2>2. NoElement \in [key : Keys \cup {None}, id : Ids]
    BY HashAssumption DEF NoElement, Ids
  <2>3. element' \in [Nodes -> [key : Keys \cup {None}, id : Ids]]
    BY <1>1, <2>2
  <2> QED BY <1>12, <2>1, <2>3 DEF TableType
<1>14. OnePlace'
  <2>1. \A c \in Buckets : Distinct(ppHashChains'[c])
    BY <1>4, <1>6 DEF OnePlace
  <2>2. \A c, d \in Buckets : c # d => Range(ppHashChains'[c]) \cap Range(ppHashChains'[d]) = {}
    BY <1>8 DEF OnePlace
  <2> QED BY <2>1, <2>2 DEF OnePlace
<1>15. Placed'
  <2>1. \A m \in Nodes \ {n} : element'[m] = element[m]
    BY <1>1
  <2>2. SUFFICES ASSUME NEW c \in Buckets, NEW m \in Range(ppHashChains'[c])
                 PROVE  /\ element'[m].key \in Keys
                        /\ element'[m].id # 0 \/ usage = "id" => c = Bucket(element'[m].id)
                        /\ element'[m].id = 0 \/ usage = "key" => c = Bucket(element'[m].key)
    BY DEF Placed, Bucket
  <2>3. m \in Range(ppHashChains[c]) /\ m \in Nodes \ {n}
    BY <1>2, <1>8
  <2> QED BY <2>1, <2>3 DEF Placed
<1> QED BY <1>8, <1>9, <1>10, <1>12, <1>13, <1>14, <1>15

-----------------------------------------------------------------------------
(***************************************************************************)
(* Positions of an iterator                                                *)
(***************************************************************************)
Positions == [pCurrentElement : Nodes \cup {None}, currentBucket : Buckets]

\* pNext of a node of a chain.
LEMMA AfterIs ==
  ASSUME TInv, NEW b \in Buckets, NEW n \in Range(ppHashChains[b])
  PROVE  \E i \in 1..Len(ppHashChains[b]) :
           /\ ppHashChains[b][i] = n
           /\ After(n) = IF i = Len(ppHashChains[b]) THEN None ELSE ppHashChains[b][i + 1]
<1> DEFINE c == CHOOSE d \in Buckets : n \in Range(ppHashChains[d])
           i == SelectInSeq(ppHashChains[b], LAMBDA m : m = n)
<1>1. c \in Buckets /\ n \in Range(ppHashChains[c])
  OBVIOUS
<1> HIDE DEF c
<1>2. c = b
  BY <1>1 DEF TInv, OnePlace
<1>3. After(n) = IF SelectInSeq(ppHashChains[c], LAMBDA m : m = n) = Len(ppHashChains[c]) THEN None
                 ELSE ppHashChains[c][SelectInSeq(ppHashChains[c], LAMBDA m : m = n) + 1]
  BY Zenon DEF After, c
<1>4. After(n) = IF i = Len(ppHashChains[b]) THEN None ELSE ppHashChains[b][i + 1]
  BY <1>2, <1>3, Zenon
<1>5. i \in 1..Len(ppHashChains[b]) /\ ppHashChains[b][i] = n
  <2>1. ppHashChains[b] \in Seq(Nodes)
    BY DEF TInv, TypeOK
  <2> QED BY <2>1, PositionOf, Zenon
<1> HIDE DEF i
<1> QED BY <1>4, <1>5

\* What comes after a node in its chain.
LEMMA AfterOrder ==
  ASSUME TInv, NEW b \in Buckets, NEW n \in Range(ppHashChains[b])
  PROVE  /\ After(n) = None => \A y : ~ Precedes(ppHashChains[b], n, y)
         /\ After(n) # None =>
              /\ After(n) \in Range(ppHashChains[b]) /\ After(n) # n
              /\ \A y : Precedes(ppHashChains[b], n, y) <=>
                          y = After(n) \/ Precedes(ppHashChains[b], After(n), y)
              /\ ~ Precedes(ppHashChains[b], After(n), After(n))
<1> DEFINE q == ppHashChains[b]
<1>1. q \in Seq(Nodes) /\ Distinct(q) /\ None \notin Nodes
  BY HashAssumption DEF TInv, TypeOK, OnePlace
<1>2. PICK i \in 1..Len(q) : q[i] = n /\ After(n) = IF i = Len(q) THEN None ELSE q[i + 1]
  BY AfterIs
<1> HIDE DEF q
<1>3. CASE i = Len(q)
  <2>1. \A y : ~ Precedes(q, n, y)
    BY <1>1, <1>2, <1>3, AfterNext
  <2> QED BY <1>2, <1>3, <2>1 DEF q
<1>4. CASE i # Len(q)
  <2>1. After(n) = q[i + 1]
    BY <1>2, <1>4
  <2>2. i + 1 \in 1..Len(q) /\ \A y : Precedes(q, n, y) <=> y = q[i + 1] \/ Precedes(q, q[i + 1], y)
    BY <1>1, <1>2, <1>4, AfterNext
  <2>3. ~ Precedes(q, q[i + 1], q[i + 1])
    BY <1>1, <2>2, AfterNext
  <2>4. q[i + 1] \in Range(q) /\ q[i + 1] \in Nodes
    BY <1>1, <2>2 DEF Range
  <2>5. q[i + 1] # n
    BY <1>1, <1>2, <2>2 DEF Distinct
  <2> QED BY <1>1, <2>1, <2>2, <2>3, <2>4, <2>5 DEF q
<1> QED BY <1>3, <1>4

\* The head of a chain, if it has one, comes before the rest of it.
LEMMA HeadIs ==
  ASSUME TInv, NEW b \in Buckets
  PROVE  /\ HeadOf(b) \in Nodes \cup {None}
         /\ HeadOf(b) = None <=> ppHashChains[b] = <<>>
         /\ HeadOf(b) = None <=> Range(ppHashChains[b]) = {}
         /\ HeadOf(b) # None =>
              /\ HeadOf(b) = ppHashChains[b][1]
              /\ \A y : y \in Range(ppHashChains[b]) <=> y = HeadOf(b) \/ Precedes(ppHashChains[b], HeadOf(b), y)
              /\ ~ Precedes(ppHashChains[b], HeadOf(b), HeadOf(b))
              /\ \A y : ~ Precedes(ppHashChains[b], y, HeadOf(b))
<1> DEFINE q == ppHashChains[b]
<1>1. q \in Seq(Nodes) /\ Distinct(q)
  BY DEF TInv, TypeOK, OnePlace
<1>2. None \notin Nodes
  BY HashAssumption
<1>3. HeadOf(b) = IF q = <<>> THEN None ELSE q[1]
  BY DEF HeadOf
<1> HIDE DEF q
<1>4. CASE q = <<>>
  BY <1>3, <1>4 DEF Range, q
<1>5. CASE q # <<>>
  <2>1. 1 \in 1..Len(q) /\ q[1] \in Nodes /\ q[1] \in Range(q)
    BY <1>1, <1>5 DEF Range
  <2>2. ~ Precedes(q, q[1], q[1]) /\ \A y : y \in Range(q) <=> y = q[1] \/ Precedes(q, q[1], y)
    BY <1>1, <2>1, AfterNext
  <2>3. \A y : ~ Precedes(q, y, q[1])
    <3> SUFFICES ASSUME NEW y, Precedes(q, y, q[1]) PROVE FALSE
      OBVIOUS
    <3>1. PICK i \in 1..Len(q), j \in 1..Len(q) : i < j /\ q[j] = q[1]
      BY DEF Precedes
    <3>2. j = 1
      BY <2>1, <3>1, <1>1 DEF Distinct
    <3> QED BY <1>1, <3>1, <3>2
  <2> QED BY <1>2, <1>3, <1>5, <2>1, <2>2, <2>3 DEF q
<1> QED BY <1>4, <1>5

\* The next position of an iterator is the first of what is ahead of it; if there is
\* nothing, it is at the end of the last chain.
LEMMA Advance ==
  ASSUME TInv, NEW b \in Buckets, NEW n \in Nodes \cup {None},
         n # None => n \in Range(ppHashChains[b])
  PROVE  \E m \in Nodes \cup {None}, c \in Buckets :
           /\ NextPosition(n, b) = At(m, c)
           /\ m = None => c = numberOfBuckets - 1 /\ Ahead(n, b, TRUE) = {}
           /\ m # None => /\ m \in Range(ppHashChains[c])
                          /\ Ahead(n, b, TRUE) = {m} \cup Ahead(m, c, TRUE)
                          /\ m \notin Ahead(m, c, TRUE)
           /\ \/ n # None /\ m # None /\ c = b /\ m = After(n)
              \/ /\ n # None => After(n) = None
                 /\ m # None => b < c /\ m = HeadOf(c)
                 /\ \A d \in Buckets : b < d /\ d < c => ppHashChains[d] = <<>>
<1> DEFINE q == ppHashChains[b]
           last == numberOfBuckets - 1
           Later(c, y) == \E d \in Buckets : d > c /\ y \in Range(ppHashChains[d])
<1>1. /\ \A c \in Buckets : ppHashChains[c] \in Seq(Nodes) /\ Distinct(ppHashChains[c])
      /\ \A c \in Buckets : \A y \in Range(ppHashChains[c]) : y \in Nodes
      /\ \A c, d \in Buckets : \A y : y \in Range(ppHashChains[c]) /\ y \in Range(ppHashChains[d]) => c = d
  <2>1. \A c \in Buckets : ppHashChains[c] \in Seq(Nodes) /\ Distinct(ppHashChains[c])
    BY DEF TInv, TypeOK, OnePlace
  <2>2. \A c \in Buckets : \A y \in Range(ppHashChains[c]) : y \in Nodes
    BY <2>1 DEF Range
  <2>3. \A c, d \in Buckets : \A y : y \in Range(ppHashChains[c]) /\ y \in Range(ppHashChains[d]) => c = d
    BY DEF TInv, OnePlace
  <2> QED BY <2>1, <2>2, <2>3
<1>2. None \notin Nodes
  BY HashAssumption
<1>3. Buckets \subseteq Nat /\ last \in Buckets /\ last \in Nat /\ \A c \in Buckets : c <= last
  BY BucketsAre DEF Buckets
<1>4. \A p, c : \A y : y \in Ahead(p, c, TRUE) <=> y \in Nodes /\ (Later(c, y) \/ Precedes(ppHashChains[c], p, y))
  BY DEF Ahead
<1>5. \A c \in Buckets : \A x, y : Precedes(ppHashChains[c], x, y) =>
        x \in Range(ppHashChains[c]) /\ y \in Range(ppHashChains[c]) /\ x \in Nodes /\ y \in Nodes
  <2> SUFFICES ASSUME NEW c \in Buckets, NEW x, NEW y, Precedes(ppHashChains[c], x, y)
               PROVE  x \in Range(ppHashChains[c]) /\ y \in Range(ppHashChains[c])
    BY <1>1
  <2> QED BY DEF Precedes, Range
<1> HIDE DEF last, Later
<1>6. CASE n # None /\ After(n) # None
  <2> DEFINE m == After(n)
  <2>1. /\ m \in Range(q)
        /\ \A y : Precedes(q, n, y) <=> y = m \/ Precedes(q, m, y)
        /\ ~ Precedes(q, m, m)
    BY <1>6, AfterOrder
  <2>2. m \in Nodes /\ m # None
    BY <1>1, <1>2, <2>1
  <2>3. NextPosition(n, b) = At(m, b)
    BY <1>6 DEF NextPosition
  <2> HIDE DEF m
  <2>4. Ahead(n, b, TRUE) = {m} \cup Ahead(m, b, TRUE)
    BY <1>4, <2>1, <2>2
  <2>5. m \notin Ahead(m, b, TRUE)
    <3>1. ~ Later(b, m)
      <4> SUFFICES ASSUME Later(b, m) PROVE FALSE
        OBVIOUS
      <4>1. PICK d \in Buckets : d > b /\ m \in Range(ppHashChains[d])
        BY DEF Later
      <4>2. d = b
        BY <1>1, <1>3, <2>1, <4>1
      <4> QED BY <1>3, <4>1, <4>2
    <3> QED BY <1>4, <2>1, <3>1
  <2> QED BY <1>6, <2>1, <2>2, <2>3, <2>4, <2>5 DEF m
<1>7. CASE n = None \/ After(n) = None
  <2>1. \A y : ~ Precedes(q, n, y)
    <3>1. CASE n = None
      BY <1>2, <1>5, <3>1
    <3>2. CASE n # None
      BY <1>7, <3>2, AfterOrder
    <3> QED BY <3>1, <3>2
  <2>2. CASE b = last
    <3>1. NextPosition(n, b) = At(None, b)
      BY <1>7, <2>2 DEF NextPosition, last
    <3>2. \A y : ~ Later(b, y)
      BY <1>3, <2>2 DEF Later
    <3>3. Ahead(n, b, TRUE) = {}
      BY <1>4, <2>1, <3>2
    <3>4. \A d \in Buckets : ~ (b < d)
      BY <1>3, <2>2
    <3> QED BY <1>7, <2>2, <3>1, <3>3, <3>4 DEF last
  <2>3. CASE b # last
    <3> DEFINE T == {c \in (b + 1)..last : ppHashChains[c] # <<>>} \cup {last}
               stop == Min(T)
    <3>1. T \in SUBSET Nat /\ T # {}
      BY <1>3
    <3>2. stop \in T /\ \A c \in T : stop <= c
      BY <3>1, LeastNatural
    <3>3. NextPosition(n, b) = At(HeadOf(stop), stop)
      BY <1>7, <2>3 DEF NextPosition, last
    <3> HIDE DEF stop
    <3>4. stop \in Buckets /\ b < stop
      BY <1>3, <2>3, <3>2 DEF Buckets, last
    <3>5. \A d \in Buckets : b < d /\ d < stop => ppHashChains[d] = <<>>
      <4> SUFFICES ASSUME NEW d \in Buckets, b < d, d < stop, ppHashChains[d] # <<>> PROVE FALSE
        OBVIOUS
      <4>1. d \in T
        BY <1>3
      <4> QED BY <1>3, <3>2, <3>4, <4>1
    <3>6. \A d \in Buckets : b < d /\ d < stop => Range(ppHashChains[d]) = {}
      BY <3>5, HeadIs
    <3>7. ppHashChains[stop] = <<>> => stop = last
      BY <3>2
    <3> HIDE DEF T
    <3>8. \A y : Later(b, y) <=> y \in Range(ppHashChains[stop]) \/ Later(stop, y)
      <4>1. ASSUME NEW y, Later(b, y) PROVE y \in Range(ppHashChains[stop]) \/ Later(stop, y)
        <5>1. PICK d \in Buckets : d > b /\ y \in Range(ppHashChains[d])
          BY <4>1 DEF Later
        <5>2. d = stop \/ d > stop
          BY <1>3, <3>4, <3>6, <5>1
        <5> QED BY <5>1, <5>2 DEF Later
      <4>2. ASSUME NEW y, Later(stop, y) PROVE Later(b, y)
        <5>1. PICK d \in Buckets : d > stop /\ y \in Range(ppHashChains[d])
          BY <4>2 DEF Later
        <5>2. d > b
          BY <1>3, <3>4, <5>1
        <5> QED BY <5>1, <5>2 DEF Later
      <4>3. ASSUME NEW y, y \in Range(ppHashChains[stop]) PROVE Later(b, y)
        BY <3>4, <4>3 DEF Later
      <4> QED BY <4>1, <4>2, <4>3
    <3>9. CASE HeadOf(stop) = None
      <4>1. stop = last /\ Range(ppHashChains[stop]) = {}
        BY <3>4, <3>7, <3>9, HeadIs
      <4>2. \A y : ~ Later(stop, y)
        BY <1>3, <4>1 DEF Later
      <4>3. Ahead(n, b, TRUE) = {}
        BY <1>4, <2>1, <3>8, <4>1, <4>2
      <4> QED BY <1>7, <3>3, <3>4, <3>5, <3>9, <4>1, <4>3 DEF last
    <3>10. CASE HeadOf(stop) # None
      <4> DEFINE m == HeadOf(stop)
      <4>1. /\ m \in Nodes \cup {None}
            /\ \A y : y \in Range(ppHashChains[stop]) <=> y = m \/ Precedes(ppHashChains[stop], m, y)
            /\ ~ Precedes(ppHashChains[stop], m, m)
        BY <3>4, <3>10, HeadIs
      <4> HIDE DEF m
      <4>2. m \in Nodes /\ m # None /\ m \in Range(ppHashChains[stop])
        BY <3>10, <4>1 DEF m
      <4>3. Ahead(n, b, TRUE) = {m} \cup Ahead(m, stop, TRUE)
        BY <1>4, <2>1, <3>8, <4>1, <4>2
      <4>4. m \notin Ahead(m, stop, TRUE)
        <5>1. ~ Later(stop, m)
          <6> SUFFICES ASSUME Later(stop, m) PROVE FALSE
            OBVIOUS
          <6>1. PICK d \in Buckets : d > stop /\ m \in Range(ppHashChains[d])
            BY DEF Later
          <6>2. d = stop
            BY <1>1, <1>3, <3>4, <4>2, <6>1
          <6> QED BY <1>3, <6>1, <6>2
        <5> QED BY <1>4, <4>1, <5>1
      <4> QED BY <1>7, <3>3, <3>4, <3>5, <4>2, <4>3, <4>4 DEF m
    <3> QED BY <3>9, <3>10
  <2> QED BY <2>2, <2>3
<1> QED BY <1>6, <1>7

-----------------------------------------------------------------------------
(***************************************************************************)
(* Additions                                                               *)
(***************************************************************************)
Adds(b, k, id, n) ==
  /\ Working
  /\ \E chain \in {Append(ppHashChains[b], n), <<n>> \o ppHashChains[b]} :
       ppHashChains' = [ppHashChains EXCEPT ![b] = chain]
  /\ element' = [element EXCEPT ![n] = [key |-> k, id |-> id]]
  /\ visits' = [visits EXCEPT ![n] = 0]
  /\ numberOfElements' = numberOfElements + 1
  /\ usage' = usage /\ phase' = phase /\ iterator' = iterator /\ stayed' = stayed

\* Every method that adds links one new node to the chain that its references lead to,
\* or finds that the key exists.
LEMMA AdditionIs ==
  ASSUME TypeOK, ~ AnyGivenId, Additions
  PROVE  \/ /\ UNCHANGED <<usage, table, iteration>> /\ result' = "duplicate"
            /\ \E k \in Keys : usage = "key" /\ Find(k) # None
         \/ /\ \E b \in Buckets, k \in Keys, id \in Ids : \E n \in Nodes \ Linked :
                 /\ Adds(b, k, id, n)
                 /\ id # 0 \/ usage = "id" => b = Bucket(id)
                 /\ id = 0 \/ usage = "key" => b = Bucket(k)
                 /\ result' = "unique" => usage = "key" /\ Find(k) = None
            /\ bucketCounter' \in [Buckets -> Nat]
            /\ result' \in {"added", "unique"}
<1> USE HashAssumption
<1>1. bucketCounter \in [Buckets -> Nat]
  BY DEF TypeOK
<1>2. ASSUME NEW b \in Buckets, NEW k \in Keys, NEW id \in Ids,
             Link(b, k, id, AtHead) \/ Link(b, k, id, AtEnd)
      PROVE  \E n \in Nodes \ Linked : Adds(b, k, id, n)
  <2>1. CASE Link(b, k, id, AtHead)
    <3>1. PICK n \in Nodes \ Linked :
            /\ ppHashChains' = [ppHashChains EXCEPT ![b] = AtHead(@, n)]
            /\ element' = [element EXCEPT ![n] = [key |-> k, id |-> id]]
            /\ visits' = [visits EXCEPT ![n] = 0]
      BY <2>1, Zenon DEF Link
    <3>2. \E chain \in {Append(ppHashChains[b], n), <<n>> \o ppHashChains[b]} :
            ppHashChains' = [ppHashChains EXCEPT ![b] = chain]
      BY <3>1, Zenon DEF AtHead
    <3> QED BY <2>1, <3>1, <3>2, Zenon DEF Link, Adds
  <2>2. CASE Link(b, k, id, AtEnd)
    <3>1. PICK n \in Nodes \ Linked :
            /\ ppHashChains' = [ppHashChains EXCEPT ![b] = AtEnd(@, n)]
            /\ element' = [element EXCEPT ![n] = [key |-> k, id |-> id]]
            /\ visits' = [visits EXCEPT ![n] = 0]
      BY <2>2, Zenon DEF Link
    <3>2. \E chain \in {Append(ppHashChains[b], n), <<n>> \o ppHashChains[b]} :
            ppHashChains' = [ppHashChains EXCEPT ![b] = chain]
      BY <3>1, Zenon DEF AtEnd
    <3> QED BY <2>2, <3>1, <3>2, Zenon DEF Link, Adds
  <2> QED BY <1>2, <2>1, <2>2
<1>3. PICK k \in Keys : \/ Add(k) \/ AddId(k) \/ AddS(k) \/ AddSId(k)
                        \/ addUnique(k) \/ addUniqueunlock(k) \/ addUniqueId(k)
                        \/ \E id \in GivenIds : AddGiven(id, k)
  BY Zenon DEF Additions
<1>4. Bucket(k) \in Buckets
  BY BucketsAre
<1> DEFINE plain  == LinkPlain(k, AtHead) \/ LinkPlain(k, AtEnd)
           withId == LinkWithId(k, AtHead) \/ LinkWithId(k, AtEnd)
           given  == \E id \in GivenIds : AddGiven(id, k)
<1>5. \/ Duplicate(k)
      \/ /\ plain \/ withId \/ given
         /\ \/ result' = "added"
            \/ result' = "unique" /\ usage = "key" /\ Find(k) = None
  BY <1>3, Zenon DEF Add, AddId, AddS, AddSId, addUnique, addUniqueunlock, addUniqueId,
                    AddGiven, LinkPlain
<1> DEFINE done == \/ result' = "added"
                   \/ result' = "unique" /\ usage = "key" /\ Find(k) = None
<1>51. done => result' \in {"added", "unique"} /\ (result' = "unique" => usage = "key" /\ Find(k) = None)
  OBVIOUS
<1>6. CASE Duplicate(k)
  BY <1>6, Zenon DEF Duplicate
<1>7. CASE plain /\ done
  <2>1. Link(Bucket(k), k, 0, AtHead) \/ Link(Bucket(k), k, 0, AtEnd)
    BY <1>7, Zenon DEF LinkPlain
  <2>2. 0 \in Ids
    BY DEF Ids
  <2>3. PICK n \in Nodes \ Linked : Adds(Bucket(k), k, 0, n)
    BY <1>2, <1>4, <2>1, <2>2
  <2>4. bucketCounter' = bucketCounter /\ usage = "key"
    BY <1>7, Zenon DEF LinkPlain
  <2> HIDE DEF done, plain
  <2> QED BY <1>1, <1>4, <1>51, <1>7, <2>2, <2>3, <2>4
<1>8. CASE withId /\ done
  <2>1. /\ Link(Bucket(k), k, NewId(Bucket(k)), AtHead) \/ Link(Bucket(k), k, NewId(Bucket(k)), AtEnd)
        /\ bucketCounter' = [bucketCounter EXCEPT ![Bucket(k)] = Counter(Bucket(k)) + 1]
    BY <1>8, Zenon DEF LinkWithId
  <2>2. /\ Counter(Bucket(k)) + 1 \in Nat
        /\ NewId(Bucket(k)) \in Ids
        /\ Bucket(NewId(Bucket(k))) = Bucket(k)
    BY <1>4, GeneratedIds
  <2>3. PICK n \in Nodes \ Linked : Adds(Bucket(k), k, NewId(Bucket(k)), n)
    BY <1>2, <1>4, <2>1, <2>2
  <2>4. bucketCounter' \in [Buckets -> Nat]
    BY <1>1, <2>1, <2>2
  <2> HIDE DEF done, withId
  <2> QED BY <1>4, <1>51, <1>8, <2>2, <2>3, <2>4
<1>9. CASE given /\ done
  <2>1. PICK id \in GivenIds : AddGiven(id, k)
    BY <1>9
  <2>2. id \in Ids /\ id \in Nat /\ Bucket(id) \in Buckets
    BY BucketsAre DEF Ids
  <2>3. PICK n \in Nodes \ Linked : Adds(Bucket(id), k, id, n)
    BY <1>2, <2>1, <2>2 DEF AddGiven
  <2>4. /\ id = 0 => Bucket(k) = 0
        /\ usage = "id"
        /\ bucketCounter' = [bucketCounter EXCEPT ![Bucket(id)] = CounterAfter(Bucket(id), id)]
    BY <2>1 DEF AddGiven
  <2>5. id = 0 => Bucket(id) = 0
    BY <2>2 DEF Bucket
  <2>6. CounterAfter(Bucket(id), id) \in Nat
    BY <2>2, CounterAfterType
  <2>7. bucketCounter' \in [Buckets -> Nat]
    BY <1>1, <2>4, <2>6
  <2> HIDE DEF done, given
  <2> QED BY <1>51, <1>9, <2>2, <2>3, <2>4, <2>5, <2>7
<1> QED BY <1>5, <1>6, <1>7, <1>8, <1>9, Zenon

LEMMA SameTable ==
  ASSUME TInv, UNCHANGED <<usage, table>>
  PROVE  /\ TableType' /\ OnePlace' /\ Placed' /\ Counted' /\ Linked' = Linked
         /\ bucketCounter' \in [Buckets -> Nat] /\ usage' \in {"key", "id"}
<1>1. /\ ppHashChains' = ppHashChains /\ element' = element /\ numberOfElements' = numberOfElements
      /\ usage' = usage /\ bucketCounter' = bucketCounter
  BY DEF table
<1>2. Linked' = Linked
  BY <1>1 DEF Linked
<1>3. Placed'
  BY <1>1 DEF TInv, Placed, Bucket
<1>4. OnePlace' /\ Counted'
  BY <1>1, <1>2 DEF TInv, OnePlace, Counted
<1> QED BY <1>1, <1>2, <1>3, <1>4 DEF TInv, TypeOK, TableType

LEMMA ResultOnly ==
  ASSUME IInv, UNCHANGED <<usage, table, iteration>>, result' \in Nodes \cup {None} \cup Results
  PROVE  IInv'
<1>1. /\ ppHashChains' = ppHashChains /\ usage' = usage
      /\ phase' = phase /\ iterator' = iterator /\ stayed' = stayed /\ visits' = visits
  BY DEF table, iteration
<1>2. /\ TableType' /\ OnePlace' /\ Placed' /\ Counted' /\ Linked' = Linked
      /\ bucketCounter' \in [Buckets -> Nat] /\ usage' \in {"key", "id"}
  BY SameTable DEF IInv
<1>3. TypeOK'
  BY <1>1, <1>2 DEF IInv, TInv, TypeOK, TableType
<1>4. ToCome' = ToCome
  BY <1>1 DEF ToCome, Ahead
<1>5. Walking'
  BY <1>1, <1>2, <1>4 DEF IInv, Walking
<1>6. Destroying'
  BY <1>1, <1>2 DEF IInv, Destroying, HeadOf
<1> QED BY <1>2, <1>3, <1>5, <1>6 DEF IInv, TInv

LEMMA AdditionKeeps ==
  ASSUME IInv, ~ AnyGivenId, Additions
  PROVE  IInv'
<1> USE HashAssumption
<1>0. TInv /\ TypeOK /\ Walking /\ Destroying
  BY DEF IInv, TInv
<1>1. CASE UNCHANGED <<usage, table, iteration>> /\ result' = "duplicate"
  BY <1>1, ResultOnly DEF Results
<1>2. CASE /\ \E b \in Buckets, k \in Keys, id \in Ids : \E n \in Nodes \ Linked :
                /\ Adds(b, k, id, n)
                /\ id # 0 \/ usage = "id" => b = Bucket(id)
                /\ id = 0 \/ usage = "key" => b = Bucket(k)
           /\ bucketCounter' \in [Buckets -> Nat]
           /\ result' \in {"added", "unique"}
  <2>1. PICK b \in Buckets, k \in Keys, id \in Ids : \E n \in Nodes \ Linked :
                /\ Adds(b, k, id, n)
                /\ id # 0 \/ usage = "id" => b = Bucket(id)
                /\ id = 0 \/ usage = "key" => b = Bucket(k)
    BY <1>2
  <2>2. PICK n \in Nodes \ Linked :
                /\ Adds(b, k, id, n)
                /\ id # 0 \/ usage = "id" => b = Bucket(id)
                /\ id = 0 \/ usage = "key" => b = Bucket(k)
    BY <2>1
  <2>3. PICK chain \in {Append(ppHashChains[b], n), <<n>> \o ppHashChains[b]} :
          ppHashChains' = [ppHashChains EXCEPT ![b] = chain]
    BY <2>2 DEF Adds
  <2>4. /\ element' = [element EXCEPT ![n] = [key |-> k, id |-> id]]
        /\ visits' = [visits EXCEPT ![n] = 0]
        /\ numberOfElements' = numberOfElements + 1
        /\ usage' = usage /\ phase' = phase /\ iterator' = iterator /\ stayed' = stayed
        /\ phase \in {"live", "table", "chain"}
    BY <2>2 DEF Adds, Working
  <2>5. /\ TableType' /\ OnePlace' /\ Placed' /\ Counted'
        /\ Linked' = Linked \cup {n}
        /\ \A c \in Buckets : Range(ppHashChains'[c]) =
                                 IF c = b THEN Range(ppHashChains[c]) \cup {n} ELSE Range(ppHashChains[c])
        /\ \A c \in Buckets : \A x, y :
              /\ Precedes(ppHashChains[c], x, y) => Precedes(ppHashChains'[c], x, y)
              /\ Precedes(ppHashChains'[c], x, y) => Precedes(ppHashChains[c], x, y) \/ x = n \/ y = n
    BY <1>0, <2>2, <2>3, <2>4, NodeAdded
  <2>51. \A c \in Buckets : \A y : /\ y \in Range(ppHashChains[c]) => y \in Range(ppHashChains'[c])
                                   /\ y \in Range(ppHashChains'[c]) => y \in Range(ppHashChains[c]) \/ y = n
    BY <2>5
  <2>6. visits \in [Nodes -> Nat] /\ iterator \in Positions
    BY <1>0 DEF TypeOK, Positions
  <2>7. TypeOK'
    <3>1. visits' \in [Nodes -> Nat]
      BY <2>4, <2>6
    <3> QED BY <1>0, <1>2, <2>4, <2>5, <3>1 DEF TypeOK, TableType, Results
  <2>8. Walking'
    <3> SUFFICES ASSUME phase \in {"table", "chain"} PROVE Walking'
      BY <2>4 DEF Walking
    <3> DEFINE p == iterator.pCurrentElement
               c == iterator.currentBucket
    <3>1. c \in Buckets /\ p \in Nodes \cup {None}
      BY <2>6 DEF Positions
    <3>2. /\ p # None => p \in Range(ppHashChains[c])
          /\ phase = "table" /\ p = None => c = numberOfBuckets - 1
          /\ \A m \in Linked : visits[m] <= 1
          /\ \A m \in ToCome : visits[m] = 0
          /\ \A m \in stayed : m \in Linked /\ (m \in ToCome \/ visits[m] = 1)
      BY <1>0 DEF Walking
    <3>3. p # n
      <4>1. p # None => p \in Linked
        BY <1>0, <3>1, <3>2, LinkedIs
      <4> QED BY <4>1
    <3>4. \A m : m \in ToCome <=> /\ m \in Nodes
                                  /\ \/ phase = "table" /\ \E d \in Buckets : d > c /\ m \in Range(ppHashChains[d])
                                     \/ Precedes(ppHashChains[c], p, m)
      BY DEF ToCome, Ahead
    <3>5. \A m : m \in ToCome' <=> /\ m \in Nodes
                                   /\ \/ phase = "table" /\ \E d \in Buckets : d > c /\ m \in Range(ppHashChains'[d])
                                      \/ Precedes(ppHashChains'[c], p, m)
      BY <2>4 DEF ToCome, Ahead
    <3>6. \A m : m \in ToCome => m \in ToCome'
      BY <2>5, <2>51, <3>1, <3>4, <3>5
    <3>7. \A m : m \in ToCome' => m \in ToCome \/ m = n
      BY <2>5, <2>51, <3>1, <3>3, <3>4, <3>5
    <3>8. visits'[n] = 0 /\ \A m \in Nodes : m # n => visits'[m] = visits[m]
      BY <2>4, <2>6
    <3>9. Linked \subseteq Nodes /\ ToCome \subseteq Nodes /\ n \notin Linked
      BY <1>0, <3>4, LinkedIs
    <3> HIDE DEF p, c
    <3>10. p # None => p \in Range(ppHashChains'[c])
      BY <2>51, <3>1, <3>2
    <3>11. \A m \in Linked' : visits'[m] <= 1
      BY <2>5, <3>2, <3>8, <3>9
    <3>12. \A m \in ToCome' : visits'[m] = 0
      BY <3>2, <3>7, <3>8, <3>9
    <3>13. \A m \in stayed : m \in Linked' /\ (m \in ToCome' \/ visits'[m] = 1)
      BY <2>5, <3>2, <3>6, <3>8, <3>9
    <3> QED BY <2>4, <3>2, <3>10, <3>11, <3>12, <3>13 DEF Walking, p, c
  <2>9. Destroying'
    BY <2>4 DEF Destroying
  <2> QED BY <2>5, <2>7, <2>8, <2>9 DEF IInv, TInv
<1> QED BY <1>0, <1>1, <1>2, AdditionIs

-----------------------------------------------------------------------------
(***************************************************************************)
(* Lookups and removals                                                    *)
(***************************************************************************)
LEMMA ReferencesAre == References \subseteq Keys \cup Nat
BY DEF References, Ids

LEMMA FetchKeeps ==
  ASSUME IInv, NEW ref \in References, Fetch(ref)
  PROVE  IInv'
<1>1. Find(ref) \in Nodes \cup {None}
  <2>1. TypeOK /\ ref \in Keys \cup Nat
    BY ReferencesAre DEF IInv, TInv
  <2>2. \A n \in Range(Chain(ref)) : n \in Nodes
    <3>1. Chain(ref) \in Seq(Nodes)
      BY <2>1, BucketsAre DEF TypeOK, Chain
    <3> QED BY <3>1 DEF Range
  <2> QED BY <2>1, <2>2, FindGives
<1> QED BY <1>1, ResultOnly DEF Fetch

\* What a lookup finds is taken out of the chain, if it finds anything.
LEMMA UnlinkIs ==
  ASSUME TInv, NEW ref \in Keys \cup Nat, Unlink(ref), usage' = usage
  PROVE  /\ bucketCounter' = bucketCounter /\ result' \in Nodes \cup {None}
         /\ TableType' /\ OnePlace' /\ Placed' /\ Counted'
         /\ Linked' = Linked \ {Find(ref)}
         /\ \A c \in Buckets : Range(ppHashChains'[c]) = Range(ppHashChains[c]) \ {Find(ref)}
         /\ \A c \in Buckets : \A x, y :
              Precedes(ppHashChains'[c], x, y) <=> Precedes(ppHashChains[c], x, y) /\ x # Find(ref) /\ y # Find(ref)
<1> DEFINE n == Find(ref)
<1>1. n = None \/ n \in Range(Chain(ref))
  BY FindGives DEF TInv
<1>2. result' = n
  BY DEF Unlink
<1>3. Bucket(ref) \in Buckets
  BY BucketsAre
<1>4. /\ Linked \subseteq Nodes
      /\ \A c \in Buckets : ppHashChains[c] \in Seq(Nodes) /\ \A x \in Range(ppHashChains[c]) : x \in Nodes
  BY LinkedIs DEF TInv, TypeOK, Range
<1>5. None \notin Nodes
  BY HashAssumption
<1>6. CASE n = None
  <2>1. UNCHANGED table
    BY <1>6 DEF Unlink
  <2>2. ppHashChains' = ppHashChains /\ bucketCounter' = bucketCounter
    BY <2>1 DEF table
  <2>3. TableType' /\ OnePlace' /\ Placed' /\ Counted' /\ Linked' = Linked
    BY <2>1, SameTable
  <2> HIDE DEF n
  <2>4. \A c \in Buckets : n \notin Range(ppHashChains[c])
    BY <1>4, <1>5, <1>6
  <2>5. \A c \in Buckets : \A x, y : Precedes(ppHashChains[c], x, y) =>
          x \in Range(ppHashChains[c]) /\ y \in Range(ppHashChains[c])
    BY DEF Precedes, Range
  <2>6. n \notin Linked
    BY <1>4, <1>5, <1>6
  <2> QED BY <1>2, <1>6, <2>2, <2>3, <2>4, <2>5, <2>6 DEF n
<1>7. CASE n # None
  <2>1. n \in Range(ppHashChains[Bucket(ref)])
    BY <1>1, <1>7 DEF Chain
  <2>2. /\ ppHashChains' = [ppHashChains EXCEPT ![Bucket(ref)] = RemoveFirst(@, n)]
        /\ element' = [element EXCEPT ![n] = NoElement]
        /\ numberOfElements' = numberOfElements - 1
        /\ bucketCounter' = bucketCounter
    BY <1>7 DEF Unlink
  <2>3. n \in Nodes
    BY <1>3, <1>4, <2>1
  <2> HIDE DEF n
  <2> QED BY <1>2, <1>3, <2>1, <2>2, <2>3, NodeRemoved DEF n
<1> QED BY <1>6, <1>7

LEMMA RemovalKeeps ==
  ASSUME IInv, NEW ref \in References, RemoveElement(ref)
  PROVE  IInv'
<1>0. TInv /\ TypeOK /\ Walking /\ Destroying /\ ref \in Keys \cup Nat
  BY ReferencesAre DEF IInv, TInv
<1> DEFINE n == Find(ref)
           p == iterator.pCurrentElement
           c == iterator.currentBucket
<1>1. /\ usage' = usage /\ phase' = phase /\ iterator' = iterator /\ visits' = visits
      /\ stayed' = stayed \ {n} /\ Unlink(ref)
      /\ n = None \/ n # p
      /\ phase \in {"live", "table", "chain"}
  BY DEF RemoveElement, Working
<1>2. /\ bucketCounter' = bucketCounter /\ result' \in Nodes \cup {None}
      /\ TableType' /\ OnePlace' /\ Placed' /\ Counted'
      /\ Linked' = Linked \ {n}
      /\ \A d \in Buckets : Range(ppHashChains'[d]) = Range(ppHashChains[d]) \ {n}
      /\ \A d \in Buckets : \A x, y :
           Precedes(ppHashChains'[d], x, y) <=> Precedes(ppHashChains[d], x, y) /\ x # n /\ y # n
  BY <1>0, <1>1, UnlinkIs
<1> HIDE DEF n
<1>3. iterator \in Positions /\ visits \in [Nodes -> Nat]
  BY <1>0 DEF TypeOK, Positions
<1>4. TypeOK'
  BY <1>0, <1>1, <1>2 DEF TypeOK, TableType
<1>5. Walking'
  <2> SUFFICES ASSUME phase \in {"table", "chain"} PROVE Walking'
    BY <1>1 DEF Walking
  <2>1. c \in Buckets /\ p \in Nodes \cup {None} /\ None \notin Nodes
    BY <1>3, HashAssumption DEF Positions
  <2>2. /\ p # None => p \in Range(ppHashChains[c])
        /\ phase = "table" /\ p = None => c = numberOfBuckets - 1
        /\ \A m \in Linked : visits[m] <= 1
        /\ \A m \in ToCome : visits[m] = 0
        /\ \A m \in stayed : m \in Linked /\ (m \in ToCome \/ visits[m] = 1)
    BY <1>0 DEF Walking
  <2>3. \A m : m \in ToCome <=> /\ m \in Nodes
                                /\ \/ phase = "table" /\ \E d \in Buckets : d > c /\ m \in Range(ppHashChains[d])
                                   \/ Precedes(ppHashChains[c], p, m)
    BY DEF ToCome, Ahead
  <2>4. \A m : m \in ToCome' <=> /\ m \in Nodes
                                 /\ \/ phase = "table" /\ \E d \in Buckets : d > c /\ m \in Range(ppHashChains'[d])
                                    \/ Precedes(ppHashChains'[c], p, m)
    BY <1>1 DEF ToCome, Ahead
  <2> HIDE DEF p, c
  <2>5. \A m : m \in ToCome' => m \in ToCome
    BY <1>2, <2>1, <2>3, <2>4
  <2>6. \A x, y : Precedes(ppHashChains[c], x, y) => x \in Nodes
    BY <1>0, <2>1 DEF TypeOK, Precedes
  <2>7. \A m : m \in ToCome /\ m # n => m \in ToCome'
    BY <1>1, <1>2, <2>1, <2>3, <2>4, <2>6 DEF p
  <2>8. p # None => p \in Range(ppHashChains'[c])
    BY <1>1, <1>2, <2>1, <2>2 DEF p
  <2>9. \A m \in stayed' : m \in Linked' /\ (m \in ToCome' \/ visits'[m] = 1)
    BY <1>1, <1>2, <2>2, <2>7
  <2>10. \A m \in Linked' : visits'[m] <= 1
    BY <1>1, <1>2, <2>2
  <2> QED BY <1>1, <2>2, <2>5, <2>8, <2>9, <2>10 DEF Walking, p, c
<1>6. Destroying'
  BY <1>1 DEF Destroying
<1> QED BY <1>2, <1>4, <1>5, <1>6 DEF IInv, TInv

-----------------------------------------------------------------------------
(***************************************************************************)
(* Iterations                                                              *)
(***************************************************************************)
LEMMA NothingAhead ==
  ASSUME TInv, NEW c \in Buckets, NEW whole, whole => c = numberOfBuckets - 1
  PROVE  Ahead(None, c, whole) = {}
<1>1. \A y : ~ Precedes(ppHashChains[c], None, y)
  BY HashAssumption DEF TInv, TypeOK, Precedes
<1>2. whole => \A d \in Buckets : ~ (d > c)
  BY HashAssumption DEF Buckets
<1> QED BY <1>1, <1>2 DEF Ahead

\* An iteration begins, or goes on, at the first of what is to come.
LEMMA BeginKeeps ==
  ASSUME IInv, NEW m \in Nodes \cup {None}, NEW c \in Buckets, NEW kind \in {"table", "chain"},
         NEW scope \in SUBSET Linked, Begin(kind, At(m, c), scope),
         kind = "table" /\ m = None => c = numberOfBuckets - 1,
         m = None => scope = {},
         m # None => /\ m \in Range(ppHashChains[c])
                     /\ scope = {m} \cup Ahead(m, c, kind = "table")
                     /\ m \notin Ahead(m, c, kind = "table")
  PROVE  IInv'
<1>0. TInv /\ TypeOK
  BY DEF IInv, TInv
<1>1. /\ phase' = kind /\ stayed' = scope /\ result' = "none"
      /\ UNCHANGED <<usage, table>>
      /\ iterator' = [pCurrentElement |-> m, currentBucket |-> c]
      /\ visits' = [n \in Nodes |-> IF n = m THEN 1 ELSE 0]
      /\ ppHashChains' = ppHashChains
  BY DEF Begin, At, table
<1>2. /\ TableType' /\ OnePlace' /\ Placed' /\ Counted' /\ Linked' = Linked
      /\ bucketCounter' \in [Buckets -> Nat] /\ usage' \in {"key", "id"}
  BY <1>0, <1>1, SameTable
<1>3. Linked \subseteq Nodes
  BY <1>0, LinkedIs
<1>4. TypeOK'
  <2>1. iterator' \in [pCurrentElement : Nodes \cup {None}, currentBucket : Buckets]
    BY <1>1
  <2>2. visits' \in [Nodes -> Nat]
    BY <1>1
  <2>3. stayed' \in SUBSET Nodes /\ phase' \in {"live", "table", "chain", "destroying", "destroyed"}
    BY <1>1, <1>3
  <2> QED BY <1>1, <1>2, <2>1, <2>2, <2>3 DEF TypeOK, TableType, Results
<1>5. ToCome' = Ahead(m, c, kind = "table")
  BY <1>1 DEF ToCome, Ahead
<1>6. m = None => ToCome' = {}
  BY <1>0, <1>5, NothingAhead
<1>7. ToCome' \subseteq Nodes
  BY <1>5 DEF Ahead
<1>8. \A n \in ToCome' : visits'[n] = 0
  BY <1>1, <1>5, <1>6, <1>7
<1>9. \A n \in scope : n \in Linked /\ (n \in ToCome' \/ visits'[n] = 1)
  BY <1>1, <1>3, <1>5
<1>10. Walking'
  <2>1. \A n \in Linked' : visits'[n] <= 1
    BY <1>1, <1>2, <1>3
  <2> QED BY <1>1, <1>2, <1>8, <1>9, <2>1 DEF Walking
<1>11. Destroying'
  BY <1>1 DEF Destroying
<1> QED BY <1>2, <1>4, <1>10, <1>11 DEF IInv, TInv

LEMMA VisitKeeps ==
  ASSUME IInv, NEW m \in Nodes \cup {None}, NEW c \in Buckets, Visit(At(m, c)),
         phase \in {"table", "chain"},
         phase = "table" /\ m = None => c = numberOfBuckets - 1,
         m = None => ToCome = {},
         m # None => /\ m \in Range(ppHashChains[c])
                     /\ ToCome = {m} \cup Ahead(m, c, phase = "table")
                     /\ m \notin Ahead(m, c, phase = "table")
  PROVE  IInv'
<1>0. TInv /\ TypeOK /\ Walking
  BY DEF IInv, TInv
<1>1. /\ phase' = phase /\ stayed' = stayed /\ result' = "none"
      /\ UNCHANGED <<usage, table>>
      /\ iterator' = [pCurrentElement |-> m, currentBucket |-> c]
      /\ visits' = [n \in Nodes |-> visits[n] + IF n = m THEN 1 ELSE 0]
      /\ ppHashChains' = ppHashChains
  BY DEF Visit, At, table
<1>2. /\ TableType' /\ OnePlace' /\ Placed' /\ Counted' /\ Linked' = Linked
      /\ bucketCounter' \in [Buckets -> Nat] /\ usage' \in {"key", "id"}
  BY <1>0, <1>1, SameTable
<1>3. Linked \subseteq Nodes /\ visits \in [Nodes -> Nat] /\ None \notin Nodes
  BY <1>0, LinkedIs, HashAssumption DEF TypeOK
<1>4. TypeOK'
  <2>1. iterator' \in [pCurrentElement : Nodes \cup {None}, currentBucket : Buckets]
    BY <1>1
  <2>2. visits' \in [Nodes -> Nat]
    BY <1>1, <1>3
  <2> QED BY <1>0, <1>1, <1>2, <2>1, <2>2 DEF TypeOK, TableType, Results
<1>5. /\ \A n \in Linked : visits[n] <= 1
      /\ \A n \in ToCome : visits[n] = 0
      /\ \A n \in stayed : n \in Linked /\ (n \in ToCome \/ visits[n] = 1)
      /\ ToCome \subseteq Nodes
  BY <1>0 DEF Walking, ToCome, Ahead
<1>6. ToCome' = Ahead(m, c, phase = "table")
  BY <1>1 DEF ToCome, Ahead
<1>7. m = None => ToCome' = {}
  BY <1>0, <1>6, NothingAhead
<1>8. m # None => m \in ToCome /\ m \in Nodes /\ m \notin ToCome' /\ \A n : n \in ToCome <=> n = m \/ n \in ToCome'
  BY <1>6
<1>9. \A n \in ToCome' : n \in ToCome /\ visits'[n] = 0
  BY <1>1, <1>3, <1>5, <1>7, <1>8
<1>10. \A n \in Linked : visits'[n] <= 1
  BY <1>1, <1>3, <1>5, <1>8
<1>11. \A n \in stayed : n \in Linked /\ (n \in ToCome' \/ visits'[n] = 1)
  <2> SUFFICES ASSUME NEW n \in stayed PROVE n \in ToCome' \/ visits'[n] = 1
    BY <1>5
  <2>1. CASE n = m
    BY <1>1, <1>3, <1>5, <1>8, <2>1
  <2>2. CASE n # m
    <3>1. visits'[n] = visits[n] /\ visits[n] \in Nat
      BY <1>1, <1>3, <1>5, <2>2
    <3>2. n \in ToCome => n \in ToCome'
      BY <1>7, <1>8, <2>2
    <3> QED BY <1>5, <3>1, <3>2
  <2> QED BY <2>1, <2>2
<1>12. Walking'
  BY <1>1, <1>2, <1>9, <1>10, <1>11 DEF Walking
<1>13. Destroying'
  BY <1>1 DEF Destroying
<1> QED BY <1>2, <1>4, <1>12, <1>13 DEF IInv, TInv

\* The first position is the first element of the table, if there is one.
LEMMA FirstIs ==
  ASSUME TInv
  PROVE  \E m \in Nodes \cup {None}, c \in Buckets :
           /\ FirstPosition = At(m, c)
           /\ m = None => c = numberOfBuckets - 1 /\ Linked = {}
           /\ m # None => /\ m \in Range(ppHashChains[c])
                          /\ Linked = {m} \cup Ahead(m, c, TRUE)
                          /\ m \notin Ahead(m, c, TRUE)
                          /\ m = HeadOf(c)
                          /\ \A d \in Buckets : d < c => ppHashChains[d] = <<>>
<1>1. /\ 0 \in Buckets /\ Buckets \subseteq Nat /\ None \notin Nodes
      /\ \A d \in Buckets : d = 0 \/ d > 0
  BY BucketsAre, HashAssumption
<1>2. Linked \subseteq Nodes /\ \A n : n \in Linked <=> \E b \in Buckets : n \in Range(ppHashChains[b])
  BY LinkedIs DEF TInv
<1>3. \A p, c : \A y : y \in Ahead(p, c, TRUE) <=>
        y \in Nodes /\ ((\E d \in Buckets : d > c /\ y \in Range(ppHashChains[d])) \/ Precedes(ppHashChains[c], p, y))
  BY DEF Ahead
<1>4. CASE HeadOf(0) # None
  <2> DEFINE m == HeadOf(0)
  <2>1. FirstPosition = At(m, 0)
    BY <1>4 DEF FirstPosition
  <2>2. /\ m \in Nodes
        /\ \A y : y \in Range(ppHashChains[0]) <=> y = m \/ Precedes(ppHashChains[0], m, y)
        /\ ~ Precedes(ppHashChains[0], m, m)
    BY <1>1, <1>4, HeadIs
  <2> HIDE DEF m
  <2>3. \A y : y \in Linked <=> y \in Range(ppHashChains[0]) \/ \E d \in Buckets : d > 0 /\ y \in Range(ppHashChains[d])
    BY <1>1, <1>2
  <2>4. Linked = {m} \cup Ahead(m, 0, TRUE)
    BY <1>2, <1>3, <2>2, <2>3
  <2>5. m \in Range(ppHashChains[0])
    BY <2>2
  <2>6. m \notin Ahead(m, 0, TRUE)
    <3>1. \A d \in Buckets : m \in Range(ppHashChains[d]) => d = 0
      BY <1>1, <2>5 DEF TInv, OnePlace
    <3>2. ~ \E d \in Buckets : d > 0 /\ m \in Range(ppHashChains[d])
      BY <1>1, <3>1
    <3> QED BY <1>3, <2>2, <3>2
  <2>7. \A d \in Buckets : ~ (d < 0)
    BY <1>1
  <2> QED BY <1>1, <1>4, <2>1, <2>2, <2>4, <2>5, <2>6, <2>7 DEF m
<1>5. CASE HeadOf(0) = None
  <2>1. FirstPosition = NextPosition(None, 0)
    BY <1>5 DEF FirstPosition
  <2>2. ppHashChains[0] = <<>> /\ Range(ppHashChains[0]) = {}
    BY <1>1, <1>5, HeadIs
  <2>3. PICK m \in Nodes \cup {None}, c \in Buckets :
           /\ NextPosition(None, 0) = At(m, c)
           /\ m = None => c = numberOfBuckets - 1 /\ Ahead(None, 0, TRUE) = {}
           /\ m # None => /\ m \in Range(ppHashChains[c])
                          /\ Ahead(None, 0, TRUE) = {m} \cup Ahead(m, c, TRUE)
                          /\ m \notin Ahead(m, c, TRUE)
           /\ m # None => 0 < c /\ m = HeadOf(c)
           /\ \A d \in Buckets : 0 < d /\ d < c => ppHashChains[d] = <<>>
    <3>1. None \in Nodes \cup {None} /\ 0 \in Buckets /\ (None # None => None \in Range(ppHashChains[0]))
      BY <1>1
    <3>2. PICK m \in Nodes \cup {None}, c \in Buckets :
           /\ NextPosition(None, 0) = At(m, c)
           /\ m = None => c = numberOfBuckets - 1 /\ Ahead(None, 0, TRUE) = {}
           /\ m # None => /\ m \in Range(ppHashChains[c])
                          /\ Ahead(None, 0, TRUE) = {m} \cup Ahead(m, c, TRUE)
                          /\ m \notin Ahead(m, c, TRUE)
           /\ \/ None # None /\ m # None /\ c = 0 /\ m = After(None)
              \/ /\ None # None => After(None) = None
                 /\ m # None => 0 < c /\ m = HeadOf(c)
                 /\ \A d \in Buckets : 0 < d /\ d < c => ppHashChains[d] = <<>>
      BY <3>1, Advance
    <3> QED BY <3>2
  <2>4. \A y : ~ Precedes(ppHashChains[0], None, y)
    <3>1. \A y : Precedes(ppHashChains[0], None, y) => None \in Range(ppHashChains[0])
      BY DEF Precedes, Range
    <3> QED BY <2>2, <3>1
  <2>5. Linked = Ahead(None, 0, TRUE)
    <3>1. \A y : y \in Linked <=> \E d \in Buckets : d > 0 /\ y \in Range(ppHashChains[d])
      BY <1>1, <1>2, <2>2
    <3> QED BY <1>2, <1>3, <2>4, <3>1
  <2>6. \A d \in Buckets : d < c => ppHashChains[d] = <<>>
    BY <1>1, <2>2, <2>3
  <2> QED BY <2>1, <2>3, <2>5, <2>6
<1> QED BY <1>4, <1>5

LEMMA InitIteratorKeeps ==
  ASSUME IInv, InitIterator
  PROVE  IInv'
<1>1. PICK m \in Nodes \cup {None}, c \in Buckets :
           /\ FirstPosition = At(m, c)
           /\ m = None => c = numberOfBuckets - 1 /\ Linked = {}
           /\ m # None => /\ m \in Range(ppHashChains[c])
                          /\ Linked = {m} \cup Ahead(m, c, TRUE)
                          /\ m \notin Ahead(m, c, TRUE)
  BY FirstIs DEF IInv
<1>2. Begin("table", At(m, c), Linked)
  BY <1>1 DEF InitIterator
<1>3. ("table" = "table") = TRUE
  OBVIOUS
<1> QED BY <1>1, <1>2, <1>3, BeginKeeps

LEMMA InitIteratorInChainKeeps ==
  ASSUME IInv, NEW ref \in References, InitIteratorInChain(ref)
  PROVE  IInv'
<1> DEFINE c == Bucket(ref)
           m == HeadOf(c)
<1>1. TInv /\ TypeOK /\ c \in Buckets
  BY BucketsAre, ReferencesAre DEF IInv, TInv
<1>2. /\ m \in Nodes \cup {None}
      /\ m = None <=> Range(ppHashChains[c]) = {}
      /\ m # None => /\ \A y : y \in Range(ppHashChains[c]) <=> y = m \/ Precedes(ppHashChains[c], m, y)
                     /\ ~ Precedes(ppHashChains[c], m, m)
  BY <1>1, HeadIs
<1>3. Range(ppHashChains[c]) \in SUBSET Linked /\ Linked \subseteq Nodes
  BY <1>1, LinkedIs
<1>4. Begin("chain", At(m, c), Range(ppHashChains[c]))
  BY DEF InitIteratorInChain, Chain
<1> HIDE DEF m, c
<1>5. \A y : y \in Ahead(m, c, "chain" = "table") <=> y \in Nodes /\ Precedes(ppHashChains[c], m, y)
  BY DEF Ahead
<1>6. m # None => /\ m \in Range(ppHashChains[c])
                  /\ Range(ppHashChains[c]) = {m} \cup Ahead(m, c, "chain" = "table")
                  /\ m \notin Ahead(m, c, "chain" = "table")
  BY <1>2, <1>3, <1>5
<1> QED BY <1>1, <1>2, <1>3, <1>4, <1>6, BeginKeeps

LEMMA NextElementKeeps ==
  ASSUME IInv, NextElement
  PROVE  IInv'
<1> DEFINE p == iterator.pCurrentElement
           b == iterator.currentBucket
<1>1. phase = "table" /\ p # None /\ Visit(NextPosition(p, b))
  BY DEF NextElement
<1>2. p \in Nodes \cup {None} /\ b \in Buckets /\ p \in Range(ppHashChains[b])
  BY <1>1 DEF IInv, TInv, TypeOK, Walking
<1>3. TInv
  BY DEF IInv
<1> HIDE DEF p, b
<1>4. PICK m \in Nodes \cup {None}, c \in Buckets :
           /\ NextPosition(p, b) = At(m, c)
           /\ m = None => c = numberOfBuckets - 1 /\ Ahead(p, b, TRUE) = {}
           /\ m # None => /\ m \in Range(ppHashChains[c])
                          /\ Ahead(p, b, TRUE) = {m} \cup Ahead(m, c, TRUE)
                          /\ m \notin Ahead(m, c, TRUE)
           /\ \/ p # None /\ m # None /\ c = b /\ m = After(p)
              \/ /\ p # None => After(p) = None
                 /\ m # None => b < c /\ m = HeadOf(c)
                 /\ \A d \in Buckets : b < d /\ d < c => ppHashChains[d] = <<>>
  BY <1>2, <1>3, Advance
<1>5. ToCome = Ahead(p, b, TRUE) /\ (phase = "table") = TRUE
  BY <1>1 DEF ToCome, p, b
<1>6. Visit(At(m, c))
  BY <1>1, <1>4
<1> QED BY <1>1, <1>4, <1>5, <1>6, VisitKeeps

LEMMA NextInChainKeeps ==
  ASSUME IInv, NextInChain
  PROVE  IInv'
<1> DEFINE p == iterator.pCurrentElement
           b == iterator.currentBucket
           q == ppHashChains[b]
<1>1. phase = "chain" /\ p # None /\ Visit(At(After(p), b))
  BY DEF NextInChain
<1>2. b \in Buckets /\ p \in Range(q) /\ q \in Seq(Nodes) /\ Distinct(q) /\ None \notin Nodes
  BY <1>1, HashAssumption DEF IInv, TInv, TypeOK, Walking, OnePlace
<1>3. /\ TInv
      /\ After(p) = None => \A y : ~ Precedes(q, p, y)
      /\ After(p) # None => /\ After(p) \in Range(q)
                            /\ \A y : Precedes(q, p, y) <=> y = After(p) \/ Precedes(q, After(p), y)
                            /\ ~ Precedes(q, After(p), After(p))
  <2>1. TInv
    BY DEF IInv
  <2> QED BY <1>2, <2>1, AfterOrder
<1>4. ToCome = Ahead(p, b, FALSE) /\ (phase = "table") = FALSE
  BY <1>1 DEF ToCome
<1>5. \A n : \A y : y \in Ahead(n, b, FALSE) <=> y \in Nodes /\ Precedes(q, n, y)
  BY DEF Ahead
<1> DEFINE m == After(p)
<1>6. m # None => m \in Nodes
  BY <1>2, <1>3 DEF Range
<1> HIDE DEF q, p, b, m
<1>7. m = None => ToCome = {}
  BY <1>3, <1>4, <1>5 DEF m
<1>8. m # None => /\ m \in Range(q)
                  /\ ToCome = {m} \cup Ahead(m, b, FALSE)
                  /\ m \notin Ahead(m, b, FALSE)
  BY <1>3, <1>4, <1>5, <1>6 DEF m
<1> QED BY <1>1, <1>2, <1>4, <1>6, <1>7, <1>8, VisitKeeps DEF m, q

LEMMA EndIterationKeeps ==
  ASSUME IInv, EndIteration
  PROVE  IInv'
<1>1. /\ phase' = "live" /\ UNCHANGED <<usage, table>> /\ result' = "none"
      /\ iterator' = At(None, 0) /\ stayed' = {} /\ visits' = NoVisits
  BY DEF EndIteration, Rest
<1>2. /\ TableType' /\ OnePlace' /\ Placed' /\ Counted'
      /\ bucketCounter' \in [Buckets -> Nat] /\ usage' \in {"key", "id"}
  BY <1>1, SameTable DEF IInv
<1>3. TypeOK'
  BY <1>1, <1>2, BucketsAre DEF TypeOK, TableType, Results, At, NoVisits
<1> QED BY <1>1, <1>2, <1>3 DEF IInv, TInv, Walking, Destroying

\* No two places have the same occupant, so that forEach comes to each element once.
LEMMA forEachKeeps ==
  ASSUME IInv, forEach
  PROVE  IInv'
<1>0. TInv /\ TypeOK
  BY DEF IInv, TInv
<1>1. /\ phase' = "table" /\ UNCHANGED <<usage, table>> /\ result' = "none"
      /\ iterator' = [pCurrentElement |-> None, currentBucket |-> numberOfBuckets - 1]
      /\ ppHashChains' = ppHashChains
  BY DEF forEach, At, table
<1>2. PICK seen \in {Places} \cup {UpTo(place) : place \in Places} :
        /\ stayed' = IF seen = Places THEN Linked ELSE {Occupant(q) : q \in seen}
        /\ visits' = [n \in Nodes |-> Cardinality({q \in seen : Occupant(q) = n})]
  BY DEF forEach
<1>3. seen \subseteq Places
  BY DEF UpTo
<1>4. \A q \in Places : \E b \in Buckets : \E i \in 1..Len(ppHashChains[b]) : q = <<b, i>>
  BY DEF Places
<1>5. /\ \A q \in Places : Occupant(q) \in Linked
      /\ \A q, r \in Places : Occupant(q) = Occupant(r) => q = r
  <2>1. \A b, c \in Buckets : \A i \in 1..Len(ppHashChains[b]), j \in 1..Len(ppHashChains[c]) :
          ppHashChains[b][i] = ppHashChains[c][j] => b = c /\ i = j
    <3> SUFFICES ASSUME NEW b \in Buckets, NEW c \in Buckets,
                        NEW i \in 1..Len(ppHashChains[b]), NEW j \in 1..Len(ppHashChains[c]),
                        ppHashChains[b][i] = ppHashChains[c][j]
                 PROVE  b = c /\ i = j
      OBVIOUS
    <3>1. ppHashChains[b][i] \in Range(ppHashChains[b]) /\ ppHashChains[c][j] \in Range(ppHashChains[c])
      BY DEF Range
    <3>2. b = c
      BY <1>0, <3>1 DEF TInv, OnePlace
    <3> QED BY <1>0, <3>2 DEF TInv, OnePlace, Distinct
  <2>2. \A b \in Buckets : \A i \in 1..Len(ppHashChains[b]) : ppHashChains[b][i] \in Linked
    <3> SUFFICES ASSUME NEW b \in Buckets, NEW i \in 1..Len(ppHashChains[b])
                 PROVE  ppHashChains[b][i] \in Linked
      OBVIOUS
    <3>1. ppHashChains[b][i] \in Range(ppHashChains[b])
      BY DEF Range
    <3> QED BY <1>0, <3>1, LinkedIs
  <2> QED BY <1>4, <2>1, <2>2 DEF Occupant
<1>6. \A n \in Linked : \E q \in Places : Occupant(q) = n
  <2> SUFFICES ASSUME NEW n \in Linked PROVE \E q \in Places : Occupant(q) = n
    OBVIOUS
  <2>1. PICK b \in Buckets : n \in Range(ppHashChains[b])
    BY <1>0, LinkedIs
  <2>2. PICK i \in 1..Len(ppHashChains[b]) : ppHashChains[b][i] = n
    BY <2>1 DEF Range
  <2>3. <<b, i>> \in Places
    BY DEF Places
  <2>4. Occupant(<<b, i>>) = n
    BY <2>2 DEF Occupant
  <2> QED BY <2>3, <2>4
<1>7. \A n : {q \in seen : Occupant(q) = n} = {} \/ \E q \in seen : {r \in seen : Occupant(r) = n} = {q}
  BY <1>3, <1>5
<1>8. ASSUME NEW n \in Nodes
      PROVE  /\ visits'[n] \in {0, 1}
             /\ (\E q \in seen : Occupant(q) = n) => visits'[n] = 1
  <2>1. visits'[n] = Cardinality({q \in seen : Occupant(q) = n})
    BY <1>2
  <2>2. CASE {q \in seen : Occupant(q) = n} = {}
    <3>1. visits'[n] = 0
      BY <2>1, <2>2, FS_EmptySet
    <3> QED BY <2>2, <3>1
  <2>3. CASE \E q \in seen : {r \in seen : Occupant(r) = n} = {q}
    <3>1. visits'[n] = 1
      BY <2>1, <2>3, FS_Singleton
    <3> QED BY <3>1
  <2> QED BY <1>7, <2>2, <2>3
<1>9. \A n \in stayed' : n \in Linked /\ visits'[n] = 1
  <2>1. Linked \subseteq Nodes
    BY <1>0, LinkedIs
  <2>2. \A n \in stayed' : n \in Linked /\ \E q \in seen : Occupant(q) = n
    BY <1>2, <1>3, <1>5, <1>6
  <2> QED BY <1>8, <2>1, <2>2
<1>10. /\ TableType' /\ OnePlace' /\ Placed' /\ Counted' /\ Linked' = Linked
       /\ bucketCounter' \in [Buckets -> Nat] /\ usage' \in {"key", "id"}
  BY <1>0, <1>1, SameTable
<1>11. TypeOK'
  <2>1. iterator' \in [pCurrentElement : Nodes \cup {None}, currentBucket : Buckets]
    BY <1>1, BucketsAre
  <2>2. visits' \in [Nodes -> Nat]
    <3>1. visits' = [n \in Nodes |-> visits'[n]]
      BY <1>2
    <3>2. \A n \in Nodes : visits'[n] \in Nat
      BY <1>8
    <3> QED BY <3>1, <3>2
  <2>3. stayed' \in SUBSET Nodes
    BY <1>0, <1>9, LinkedIs
  <2> QED BY <1>1, <1>10, <2>1, <2>2, <2>3 DEF TypeOK, TableType, Results
<1>12. ToCome' = {}
  <2>1. ToCome' = Ahead(None, numberOfBuckets - 1, TRUE)
    BY <1>1 DEF ToCome, Ahead
  <2> QED BY <1>0, <2>1, NothingAhead, BucketsAre
<1>13. Walking'
  <2>1. \A n \in Linked' : visits'[n] <= 1
    BY <1>0, <1>8, <1>10, LinkedIs
  <2> QED BY <1>1, <1>9, <1>10, <1>12, <2>1 DEF Walking
<1>14. Destroying'
  BY <1>1 DEF Destroying
<1> QED BY <1>10, <1>11, <1>13, <1>14 DEF IInv, TInv

-----------------------------------------------------------------------------
(***************************************************************************)
(* The destructor                                                          *)
(***************************************************************************)
LEMMA BeginDestroyKeeps ==
  ASSUME IInv, BeginDestroy
  PROVE  IInv'
<1>0. TInv /\ TypeOK
  BY DEF IInv, TInv
<1>1. PICK m \in Nodes \cup {None}, c \in Buckets :
           /\ FirstPosition = At(m, c)
           /\ m = None => Linked = {}
           /\ m # None => m = HeadOf(c) /\ \A d \in Buckets : d < c => ppHashChains[d] = <<>>
  BY <1>0, FirstIs
<1>2. /\ phase' = "destroying" /\ UNCHANGED <<usage, table>> /\ result' = "none"
      /\ iterator' = [pCurrentElement |-> m, currentBucket |-> c]
      /\ stayed' = Linked /\ visits' = NoVisits /\ ppHashChains' = ppHashChains
  BY <1>1 DEF BeginDestroy, At, table
<1>3. /\ TableType' /\ OnePlace' /\ Placed' /\ Counted' /\ Linked' = Linked
      /\ bucketCounter' \in [Buckets -> Nat] /\ usage' \in {"key", "id"}
  BY <1>0, <1>2, SameTable
<1>4. Linked \subseteq Nodes
  BY <1>0, LinkedIs
<1>5. TypeOK'
  BY <1>2, <1>3, <1>4 DEF TypeOK, TableType, Results, NoVisits
<1>6. HeadOf(c)' = HeadOf(c)
  BY <1>2 DEF HeadOf
<1>7. Destroying'
  BY <1>1, <1>2, <1>3, <1>4, <1>6 DEF Destroying, NoVisits, HeadOf
<1>8. Walking'
  BY <1>2 DEF Walking
<1> QED BY <1>3, <1>5, <1>7, <1>8 DEF IInv, TInv

\* What the saved key or id leads to is the element itself, because it is the first of
\* its chain; the iterator has gone on to the element that is the first without it.
LEMMA DestroyElementKeeps ==
  ASSUME IInv, DestroyElement
  PROVE  IInv'
<1> DEFINE n == iterator.pCurrentElement
           b == iterator.currentBucket
           ref == IF element[n].id = 0 THEN element[n].key ELSE element[n].id
<1>0. TInv /\ TypeOK /\ Destroying
  BY DEF IInv, TInv
<1>1. /\ phase = "destroying" /\ n # None
      /\ iterator' = NextPosition(n, b)
      /\ Unlink(ref)
      /\ visits' = [m \in Nodes |-> visits[m] + IF m = Find(ref) THEN 1 ELSE 0]
      /\ usage' = usage /\ phase' = phase /\ stayed' = stayed
  BY DEF DestroyElement
<1>2. /\ n = HeadOf(b) /\ \A c \in Buckets : c < b => ppHashChains[c] = <<>>
      /\ Linked \subseteq stayed
      /\ \A m \in stayed : visits[m] = IF m \in Linked THEN 0 ELSE 1
  BY <1>0, <1>1 DEF Destroying
<1>3. n \in Nodes /\ b \in Buckets /\ None \notin Nodes
  BY <1>0, <1>1, HashAssumption DEF TypeOK
<1> HIDE DEF b
<1>4. /\ ppHashChains[b] # <<>> /\ ppHashChains[b][1] = n
      /\ n \in Range(ppHashChains[b])
      /\ \A y : y \in Range(ppHashChains[b]) <=> y = n \/ Precedes(ppHashChains[b], n, y)
  <2>1. HeadOf(b) # None
    BY <1>1, <1>2
  <2>2. /\ ppHashChains[b] # <<>> /\ HeadOf(b) = ppHashChains[b][1]
        /\ \A y : y \in Range(ppHashChains[b]) <=> y = HeadOf(b) \/ Precedes(ppHashChains[b], HeadOf(b), y)
    BY <1>0, <1>3, <2>1, HeadIs
  <2> HIDE DEF n
  <2> QED BY <1>2, <2>2
<1>5. /\ element[n].key \in Keys /\ element[n].id \in Ids /\ element[n].id \in Nat
      /\ element[n].id # 0 => b = Bucket(element[n].id)
      /\ element[n].id = 0 => b = Bucket(element[n].key)
  BY <1>0, <1>3, <1>4 DEF TInv, TypeOK, Placed, Ids
<1>6. ref \in Keys \cup Nat /\ Bucket(ref) = b /\ Matches(n, ref)
  <2>1. Keys \cap Nat = {}
    BY HashAssumption
  <2>2. CASE element[n].id = 0
    BY <1>5, <2>2 DEF Matches
  <2>3. CASE element[n].id # 0
    BY <1>5, <2>1, <2>3 DEF Matches
  <2> QED BY <2>2, <2>3
<1> HIDE DEF ref
<1>7. Find(ref) = n
  BY <1>0, <1>4, <1>6, FindGives DEF Chain
<1>8. /\ bucketCounter' = bucketCounter /\ result' \in Nodes \cup {None}
      /\ TableType' /\ OnePlace' /\ Placed' /\ Counted'
      /\ Linked' = Linked \ {n}
      /\ \A c \in Buckets : Range(ppHashChains'[c]) = Range(ppHashChains[c]) \ {n}
      /\ \A c \in Buckets : \A x, y :
           Precedes(ppHashChains'[c], x, y) <=> Precedes(ppHashChains[c], x, y) /\ x # n /\ y # n
  BY <1>0, <1>1, <1>6, <1>7, UnlinkIs
<1> HIDE DEF n
<1>9. PICK m \in Nodes \cup {None}, c \in Buckets :
           /\ NextPosition(n, b) = At(m, c)
           /\ m = None => c = numberOfBuckets - 1 /\ Ahead(n, b, TRUE) = {}
           /\ m # None => /\ m \in Range(ppHashChains[c])
                          /\ Ahead(n, b, TRUE) = {m} \cup Ahead(m, c, TRUE)
                          /\ m \notin Ahead(m, c, TRUE)
           /\ \/ n # None /\ m # None /\ c = b /\ m = After(n)
              \/ /\ n # None => After(n) = None
                 /\ m # None => b < c /\ m = HeadOf(c)
                 /\ \A d \in Buckets : b < d /\ d < c => ppHashChains[d] = <<>>
  <2>1. n \in Nodes \cup {None}
    BY <1>3
  <2> QED BY <1>0, <1>3, <1>4, <2>1, Advance
<1>10. iterator' = [pCurrentElement |-> m, currentBucket |-> c]
  BY <1>1, <1>9 DEF At, n
<1>11. visits \in [Nodes -> Nat] /\ stayed \subseteq Nodes
  BY <1>0 DEF TypeOK
<1>12. visits' = [x \in Nodes |-> visits[x] + IF x = n THEN 1 ELSE 0]
  BY <1>1, <1>7
<1>13. TypeOK'
  <2>1. visits' \in [Nodes -> Nat]
    BY <1>11, <1>12
  <2>2. iterator' \in [pCurrentElement : Nodes \cup {None}, currentBucket : Buckets]
    BY <1>10
  <2> QED BY <1>0, <1>1, <1>8, <2>1, <2>2 DEF TypeOK, TableType
<1>14. \A d \in Buckets : ppHashChains[d] = <<>> <=> Range(ppHashChains[d]) = {}
  BY <1>0, HeadIs
<1>15. \A d \in Buckets : ppHashChains'[d] \in Seq(Nodes) /\ Distinct(ppHashChains'[d])
  BY <1>8 DEF TableType, OnePlace
<1>16. \A d \in Buckets : Range(ppHashChains'[d]) = {} => ppHashChains'[d] = <<>>
  <2> SUFFICES ASSUME NEW d \in Buckets, ppHashChains'[d] # <<>> PROVE Range(ppHashChains'[d]) # {}
    OBVIOUS
  <2> DEFINE q == ppHashChains'[d]
  <2>1. q \in Seq(Nodes) /\ q # <<>>
    BY <1>15
  <2> HIDE DEF q
  <2>2. 1 \in 1..Len(q)
    BY <2>1
  <2>3. q[1] \in Range(q)
    BY <2>2 DEF Range
  <2> QED BY <2>3 DEF q
<1>17. \A d \in Buckets : d < b => ppHashChains'[d] = <<>>
  BY <1>2, <1>8, <1>14, <1>16
<1>18. m = None => Linked' = {}
  <2> SUFFICES ASSUME m = None, NEW x \in Linked PROVE x = n
    BY <1>8
  <2>1. PICK d \in Buckets : x \in Range(ppHashChains[d])
    BY <1>0, LinkedIs
  <2>2. x \in Nodes
    BY <1>0, LinkedIs
  <2>3. x \notin Ahead(n, b, TRUE)
    BY <1>9
  <2>4. ~ (d > b) /\ (d = b => x = n)
    BY <1>4, <2>1, <2>2, <2>3 DEF Ahead
  <2>5. ~ (d < b)
    BY <1>2, <1>14, <2>1
  <2>6. d \in Nat /\ b \in Nat
    BY <1>3, BucketsAre
  <2> QED BY <2>4, <2>5, <2>6
<1>19. ASSUME m # None
       PROVE  HeadOf(c)' = m /\ \A d \in Buckets : d < c => ppHashChains'[d] = <<>>
  <2>1. m \in Range(ppHashChains[c]) /\ m \in Nodes
    BY <1>9, <1>19
  <2>2. SUFFICES /\ m # n
                 /\ \A y \in Range(ppHashChains[c]) : y = n \/ y = m \/ Precedes(ppHashChains[c], m, y)
                 /\ \A d \in Buckets : d < c => ppHashChains'[d] = <<>>
    <3>1. m \in Range(ppHashChains'[c])
      BY <1>8, <2>1, <2>2
    <3>2. \A y \in Range(ppHashChains'[c]) : y = m \/ Precedes(ppHashChains'[c], m, y)
      BY <1>8, <2>2
    <3>3. ppHashChains'[c] # <<>> /\ ppHashChains'[c][1] = m
      BY <1>15, <3>1, <3>2, FirstInOrder
    <3> QED BY <2>2, <3>3 DEF HeadOf
  <2>3. CASE c = b /\ m = After(n)
    <3>1. /\ After(n) # n
          /\ \A y : Precedes(ppHashChains[b], n, y) <=> y = After(n) \/ Precedes(ppHashChains[b], After(n), y)
      BY <1>0, <1>3, <1>4, <1>19, <2>3, AfterOrder
    <3> QED BY <1>4, <1>17, <2>3, <3>1
  <2>4. CASE /\ After(n) = None /\ b < c /\ m = HeadOf(c)
             /\ \A d \in Buckets : b < d /\ d < c => ppHashChains[d] = <<>>
    <3>0. b \in Nat /\ c \in Nat /\ \A d \in Buckets : d \in Nat
      BY <1>3, BucketsAre
    <3>1. m # n
      <4>1. b # c
        BY <2>4, <3>0
      <4> QED BY <1>0, <1>3, <1>4, <2>1, <4>1 DEF TInv, OnePlace
    <3>2. \A y \in Range(ppHashChains[c]) : y = m \/ Precedes(ppHashChains[c], m, y)
      BY <1>0, <1>19, <2>4, HeadIs
    <3>3. ppHashChains'[b] = <<>>
      <4>1. \A y : ~ Precedes(ppHashChains[b], n, y)
        BY <1>0, <1>3, <1>4, <2>4, AfterOrder
      <4> QED BY <1>3, <1>4, <1>8, <1>16, <4>1
    <3>4. \A d \in Buckets : b < d /\ d < c => ppHashChains'[d] = <<>>
      BY <1>8, <1>14, <1>16, <2>4
    <3>5. \A d \in Buckets : d < c => d < b \/ d = b \/ (b < d /\ d < c)
      BY <3>0
    <3> QED BY <1>17, <3>1, <3>2, <3>3, <3>4, <3>5
  <2> QED BY <1>1, <1>9, <1>19, <2>3, <2>4 DEF n
<1>20. \A x \in stayed : visits'[x] = IF x \in Linked' THEN 0 ELSE 1
  <2>1. n \in Linked
    BY <1>0, <1>3, <1>4, LinkedIs
  <2> QED BY <1>2, <1>8, <1>11, <1>12, <2>1
<1>21. Destroying'
  BY <1>1, <1>2, <1>8, <1>10, <1>18, <1>19, <1>20 DEF Destroying
<1>22. Walking'
  BY <1>1 DEF Walking
<1> QED BY <1>8, <1>13, <1>21, <1>22 DEF IInv, TInv

LEMMA EndDestroyKeeps ==
  ASSUME IInv, EndDestroy
  PROVE  IInv'
<1>1. /\ phase = "destroying" /\ iterator.pCurrentElement = None /\ phase' = "destroyed"
      /\ UNCHANGED <<usage, table>> /\ result' = "none" /\ ppHashChains' = ppHashChains
      /\ iterator' = iterator /\ stayed' = stayed /\ visits' = visits
  BY DEF EndDestroy, table
<1>2. /\ TableType' /\ OnePlace' /\ Placed' /\ Counted' /\ Linked' = Linked
      /\ bucketCounter' \in [Buckets -> Nat] /\ usage' \in {"key", "id"}
  BY <1>1, SameTable DEF IInv
<1>3. TypeOK'
  BY <1>1, <1>2 DEF IInv, TInv, TypeOK, TableType, Results
<1>4. Destroying'
  BY <1>1, <1>2 DEF IInv, Destroying
<1>5. Walking'
  BY <1>1 DEF Walking
<1> QED BY <1>2, <1>3, <1>4, <1>5 DEF IInv, TInv

-----------------------------------------------------------------------------
LEMMA InitIInv == Init => IInv
<1> SUFFICES ASSUME Init PROVE IInv
  OBVIOUS
<1>1. /\ usage \in {"key", "id"} /\ numberOfElements = 0 /\ result = "none" /\ phase = "live"
      /\ ppHashChains = [b \in Buckets |-> <<>>] /\ element = [n \in Nodes |-> NoElement]
      /\ bucketCounter = [b \in Buckets |-> 1]
      /\ iterator = [pCurrentElement |-> None, currentBucket |-> 0]
      /\ stayed = {} /\ visits = NoVisits
  BY DEF Init
<1>2. NoElement \in [key : Keys \cup {None}, id : Ids]
  BY HashAssumption DEF NoElement, Ids
<1>3. TypeOK
  <2>1. <<>> \in Seq(Nodes)
    OBVIOUS
  <2> QED BY <1>1, <1>2, <2>1, BucketsAre DEF TypeOK, Results, NoVisits
<1>4. \A b \in Buckets : ppHashChains[b] = <<>> /\ Range(ppHashChains[b]) = {}
  BY <1>1 DEF Range
<1>5. OnePlace /\ Placed
  <2>1. Distinct(<<>>)
    BY DEF Distinct
  <2> QED BY <1>4, <2>1 DEF OnePlace, Placed
<1>6. Linked = {}
  BY <1>3, <1>4, LinkedIs
<1>7. Counted
  BY <1>1, <1>6, FS_EmptySet DEF Counted
<1> QED BY <1>1, <1>3, <1>5, <1>7 DEF IInv, TInv, Walking, Destroying

LEMMA NextIInv ==
  ASSUME ~ AnyGivenId, IInv, [Next]_vars
  PROVE  IInv'
<1>1. CASE Additions
  BY <1>1, AdditionKeeps
<1>2. CASE Accesses
  BY <1>2, FetchKeeps, RemovalKeeps, InitIteratorInChainKeeps DEF Accesses
<1>3. CASE Iterate
  BY <1>3, InitIteratorKeeps, NextElementKeeps, NextInChainKeeps, EndIterationKeeps, forEachKeeps DEF Iterate
<1>4. CASE Destroy
  BY <1>4, BeginDestroyKeeps, DestroyElementKeeps, EndDestroyKeeps DEF Destroy
<1>5. CASE UNCHANGED vars
  BY <1>5, ResultOnly DEF vars, IInv, TInv, TypeOK
<1> QED BY <1>1, <1>2, <1>3, <1>4, <1>5 DEF Next

\* The invariant holds in every behaviour of a caller that keeps to the ids it may give.
THEOREM Invariance == ~ AnyGivenId => (Spec => []IInv)
<1> SUFFICES ASSUME ~ AnyGivenId PROVE Spec => []IInv
  OBVIOUS
<1>1. IInv /\ [Next]_vars => IInv'
  BY NextIInv
<1> QED BY <1>1, InitIInv, PTL DEF Spec

\* Every node is in one place of one chain, the chain that its key and its id lead to,
\* and numberOfElements is the number of nodes, whatever was added and removed.
THEOREM TableSound == ~ AnyGivenId => (Spec => []TableIsSound)
<1>1. IInv => TableIsSound
  <2> SUFFICES ASSUME IInv PROVE TableIsSound
    OBVIOUS
  <2>1. TypeOK /\ OnePlace /\ Placed /\ Counted
    BY DEF IInv, TInv
  <2>2. \A b, c \in Buckets : \A i \in 1..Len(ppHashChains[b]), j \in 1..Len(ppHashChains[c]) :
          ppHashChains[b][i] = ppHashChains[c][j] => b = c /\ i = j
    <3> SUFFICES ASSUME NEW b \in Buckets, NEW c \in Buckets,
                        NEW i \in 1..Len(ppHashChains[b]), NEW j \in 1..Len(ppHashChains[c]),
                        ppHashChains[b][i] = ppHashChains[c][j]
                 PROVE  b = c /\ i = j
      OBVIOUS
    <3>1. ppHashChains[b][i] \in Range(ppHashChains[b]) /\ ppHashChains[c][j] \in Range(ppHashChains[c])
      BY DEF Range
    <3>2. b = c
      BY <2>1, <3>1 DEF OnePlace
    <3> QED BY <2>1, <3>2 DEF OnePlace, Distinct
  <2> QED BY <2>1, <2>2 DEF TableIsSound, Placed, Counted
<1> QED BY <1>1, Invariance, PTL

\* An iteration comes to no element twice and to each one that stays, whatever else than
\* the element under the iterator the caller adds and removes between its steps; the
\* destructor removes every element once, and follows none that it has deleted.
THEOREM WalksComplete == ~ AnyGivenId => (Spec => []WalksAreComplete)
<1>1. IInv => WalksAreComplete
  <2> SUFFICES ASSUME IInv PROVE WalksAreComplete
    OBVIOUS
  <2>1. TInv /\ TypeOK /\ Walking /\ Destroying
    BY DEF IInv, TInv
  <2> DEFINE p == iterator.pCurrentElement
             b == iterator.currentBucket
  <2>2. p \in Nodes \cup {None} /\ b \in Buckets
    BY <2>1 DEF TypeOK
  <2>3. IterationIsComplete
    <3> SUFFICES ASSUME phase \in {"table", "chain"}
                 PROVE  /\ \A n \in Linked : visits[n] <= 1
                        /\ p = None => \A n \in stayed : visits[n] = 1
      BY DEF IterationIsComplete
    <3>1. p = None => ToCome = {}
      BY <2>1, <2>2, NothingAhead DEF Walking, ToCome
    <3> QED BY <2>1, <3>1 DEF Walking
  <2>4. DestructorFreesAll
    <3>1. phase = "destroying" /\ p # None => p \in Linked
      <4> SUFFICES ASSUME phase = "destroying", p # None PROVE p \in Linked
        OBVIOUS
      <4>1. HeadOf(b) = p
        BY <2>1 DEF Destroying
      <4>2. HeadOf(b) \in Range(ppHashChains[b])
        BY <2>1, <2>2, <4>1, HeadIs
      <4> QED BY <2>1, <2>2, <4>1, <4>2, LinkedIs
    <3>2. phase = "destroyed" => Linked = {} /\ \A n \in stayed : visits[n] = 1
      BY <2>1 DEF Destroying
    <3> QED BY <3>1, <3>2 DEF DestructorFreesAll
  <2> QED BY <2>3, <2>4 DEF WalksAreComplete
<1> QED BY <1>1, Invariance, PTL

-----------------------------------------------------------------------------
(***************************************************************************)
(* Selections                                                              *)
(***************************************************************************)
\* One turn of the selection, and the sequences that it makes.
Turn(a, x, S) == IF x \in S THEN Append(a, x) ELSE a

Selects(f, N, s, S) ==
  /\ f \in [0..Len(s) -> Seq(N)] /\ f[0] = <<>>
  /\ \A i \in 1..Len(s) : f[i] = Turn(f[i - 1], s[i], S)
  /\ Selected(s, S) = f[Len(s)]

LEMMA SelectedIs ==
  ASSUME NEW N, NEW s \in Seq(N), NEW S
  PROVE  \E f : Selects(f, N, s, S)
<1> DEFINE l == Len(s)
           Made(f, k) == /\ f \in [0..k -> Seq(N)] /\ f[0] = <<>>
                         /\ \A i \in 1..k : f[i] = Turn(f[i - 1], s[i], S)
           B == {k \in 0..l : \E f : Made(f, k)}
<1>0. l \in Nat /\ \A i \in 1..l : s[i] \in N
  OBVIOUS
<1>1. 0 \in B
  <2>1. Made([i \in 0..0 |-> <<>>], 0)
    OBVIOUS
  <2>2. \E f : Made(f, 0)
    BY <2>1
  <2>3. 0 \in 0..l
    BY <1>0
  <2> HIDE DEF Made, l
  <2> QED BY <2>2, <2>3
<1>2. ASSUME NEW k \in 0..(l - 1), k \in B PROVE k + 1 \in B
  <2>1. PICK f : Made(f, k)
    BY <1>2
  <2>2. k \in Nat /\ k + 1 \in 1..l /\ k + 1 \in 0..l
    BY <1>0
  <2>3. f[k] \in Seq(N) /\ s[k + 1] \in N
    BY <1>0, <2>1, <2>2
  <2>4. Turn(f[k], s[k + 1], S) \in Seq(N)
    BY <2>3 DEF Turn
  <2> DEFINE g == [i \in 0..(k + 1) |-> IF i = k + 1 THEN Turn(f[k], s[k + 1], S) ELSE f[i]]
  <2>5. g \in [0..(k + 1) -> Seq(N)]
    <3> SUFFICES ASSUME NEW i \in 0..(k + 1) PROVE (IF i = k + 1 THEN Turn(f[k], s[k + 1], S) ELSE f[i]) \in Seq(N)
      OBVIOUS
    <3>1. i # k + 1 => i \in 0..k
      BY <2>2
    <3> QED BY <2>1, <2>4, <3>1
  <2>6. g[0] = <<>>
    BY <2>1, <2>2
  <2>7. ASSUME NEW i \in 1..(k + 1) PROVE g[i] = Turn(g[i - 1], s[i], S)
    <3>1. CASE i = k + 1
      <4>1. i - 1 = k /\ g[k] = f[k] /\ g[k + 1] = Turn(f[k], s[k + 1], S)
        BY <2>2, <3>1
      <4> HIDE DEF g
      <4> QED BY <3>1, <4>1
    <3>2. CASE i # k + 1
      <4>1. i \in 1..k /\ g[i] = f[i] /\ g[i - 1] = f[i - 1]
        BY <2>2, <3>2
      <4>2. f[i] = Turn(f[i - 1], s[i], S)
        BY <2>1, <4>1
      <4> HIDE DEF g
      <4> QED BY <4>1, <4>2
    <3> QED BY <3>1, <3>2
  <2> HIDE DEF g
  <2>8. Made(g, k + 1)
    BY <2>5, <2>6, <2>7
  <2> HIDE DEF Made
  <2> QED BY <2>2, <2>8
<1>3. l \in B
  <2> HIDE DEF B
  <2>1. B \in SUBSET (0..l)
    BY DEF B
  <2> HIDE DEF l
  <2>2. B = 0..l
    BY <1>0, <1>1, <1>2, <2>1, Stepwise
  <2> QED BY <1>0, <2>2
<1>4. PICK f : Made(f, l)
  BY <1>3
<1> DEFINE upTo[i \in 0..Len(s)] == IF i = 0 THEN <<>>
                                    ELSE IF s[i] \in S THEN Append(upTo[i - 1], s[i])
                                    ELSE upTo[i - 1]
<1>5. f = [i \in 0..Len(s) |-> IF i = 0 THEN <<>>
                               ELSE IF s[i] \in S THEN Append(f[i - 1], s[i])
                               ELSE f[i - 1]]
  <2>1. ASSUME NEW i \in 0..Len(s)
        PROVE  f[i] = IF i = 0 THEN <<>> ELSE IF s[i] \in S THEN Append(f[i - 1], s[i]) ELSE f[i - 1]
    <3>1. i = 0 \/ i \in 1..Len(s)
      BY <1>0
    <3> QED BY <1>4, <3>1 DEF Turn
  <2>2. f = [i \in 0..Len(s) |-> f[i]]
    BY <1>4
  <2> QED BY <2>1, <2>2
<1>6. upTo = [i \in 0..Len(s) |-> IF i = 0 THEN <<>>
                                  ELSE IF s[i] \in S THEN Append(upTo[i - 1], s[i])
                                  ELSE upTo[i - 1]]
  BY <1>5
<1>7. Selected(s, S) = upTo[l]
  BY DEF Selected
<1> HIDE DEF upTo
<1>8. \A i \in 0..l : upTo[i] = IF i = 0 THEN <<>> ELSE Turn(upTo[i - 1], s[i], S)
  <2> SUFFICES ASSUME NEW i \in 0..l PROVE upTo[i] = IF i = 0 THEN <<>> ELSE Turn(upTo[i - 1], s[i], S)
    OBVIOUS
  <2>1. upTo[i] = IF i = 0 THEN <<>> ELSE IF s[i] \in S THEN Append(upTo[i - 1], s[i]) ELSE upTo[i - 1]
    BY <1>6
  <2> QED BY <2>1 DEF Turn
<1> DEFINE E == {i \in 0..l : upTo[i] = f[i]}
<1>9. 0 \in E
  BY <1>0, <1>4, <1>8
<1>10. ASSUME NEW i \in 0..(l - 1), i \in E PROVE i + 1 \in E
  <2>1. i + 1 \in 1..l /\ i + 1 \in 0..l /\ (i + 1) - 1 = i /\ i + 1 # 0
    BY <1>0
  <2>2. upTo[i + 1] = Turn(upTo[i], s[i + 1], S)
    BY <1>8, <2>1
  <2>3. f[i + 1] = Turn(f[i], s[i + 1], S)
    BY <1>4, <2>1
  <2> QED BY <1>10, <2>1, <2>2, <2>3
<1>11. upTo[l] = f[l]
  <2>1. E \in SUBSET (0..l)
    OBVIOUS
  <2> HIDE DEF E, l
  <2>2. E = 0..l
    BY <1>0, <1>9, <1>10, <2>1, Stepwise
  <2>3. l \in E
    BY <1>0, <2>2
  <2> QED BY <2>3 DEF E
<1> QED BY <1>4, <1>7, <1>11 DEF Selects

\* What is selected from s is a sequence of members of s.
LEMMA SelectedType ==
  ASSUME NEW N, NEW s \in Seq(N), NEW S
  PROVE  Selected(s, S) \in Seq(N)
<1>1. PICK f : Selects(f, N, s, S)
  BY SelectedIs
<1>2. Len(s) \in 0..Len(s)
  OBVIOUS
<1> QED BY <1>1, <1>2 DEF Selects

\* Only what S says of the members of s matters.
LEMMA SelectedSame ==
  ASSUME NEW N, NEW s \in Seq(N), NEW S, NEW T,
         \A i \in 1..Len(s) : s[i] \in S <=> s[i] \in T
  PROVE  Selected(s, S) = Selected(s, T)
<1>1. PICK f : Selects(f, N, s, S)
  BY SelectedIs
<1>2. PICK g : Selects(g, N, s, T)
  BY SelectedIs
<1>3. PICK l \in Nat : l = Len(s)
  OBVIOUS
<1> DEFINE B == {i \in 0..l : f[i] = g[i]}
<1>4. 0 \in B
  BY <1>1, <1>2, <1>3 DEF Selects
<1>5. ASSUME NEW i \in 0..(l - 1), i \in B PROVE i + 1 \in B
  <2>1. i + 1 \in 1..l /\ (i + 1) - 1 = i /\ i + 1 \in 0..l
    BY <1>3
  <2>2. f[i + 1] = Turn(f[i], s[i + 1], S) /\ g[i + 1] = Turn(g[i], s[i + 1], T)
    BY <1>1, <1>2, <1>3, <2>1 DEF Selects
  <2>3. s[i + 1] \in S <=> s[i + 1] \in T
    BY <1>3, <2>1
  <2>4. f[i + 1] = g[i + 1]
    BY <1>5, <2>2, <2>3 DEF Turn
  <2> QED BY <2>1, <2>4
<1>6. B \in SUBSET (0..l)
  OBVIOUS
<1>7. B = 0..l
  <2> HIDE DEF B
  <2> QED BY <1>3, <1>4, <1>5, <1>6, Stepwise
<1>8. l \in B
  BY <1>3, <1>7
<1> QED BY <1>1, <1>2, <1>3, <1>8 DEF Selects

LEMMA SelectedEmpty ==
  ASSUME NEW S
  PROVE  Selected(<<>>, S) = <<>>
<1>1. <<>> \in Seq({}) /\ Len(<<>>) = 0
  OBVIOUS
<1>2. PICK f : Selects(f, {}, <<>>, S)
  BY <1>1, SelectedIs
<1> QED BY <1>1, <1>2 DEF Selects

\* Two selections agree as long as their sequences do.
LEMMA SelectionsAgree ==
  ASSUME NEW N, NEW s \in Seq(N), NEW t \in Seq(N), NEW S, NEW T, NEW f, NEW g,
         Selects(f, N, s, S), Selects(g, N, t, T),
         NEW l \in Nat, l <= Len(s), l <= Len(t),
         \A i \in 1..l : s[i] = t[i] /\ (s[i] \in S <=> s[i] \in T)
  PROVE  f[l] = g[l]
<1> DEFINE B == {i \in 0..l : f[i] = g[i]}
<1>1. 0 \in B
  BY DEF Selects
<1>2. ASSUME NEW i \in 0..(l - 1), i \in B PROVE i + 1 \in B
  <2>1. i + 1 \in 1..l /\ (i + 1) - 1 = i /\ i + 1 \in 0..l /\ i + 1 \in 1..Len(s) /\ i + 1 \in 1..Len(t)
    OBVIOUS
  <2>2. f[i + 1] = Turn(f[i], s[i + 1], S) /\ g[i + 1] = Turn(g[i], t[i + 1], T)
    BY <2>1 DEF Selects
  <2>3. s[i + 1] = t[i + 1] /\ (s[i + 1] \in S <=> s[i + 1] \in T)
    BY <2>1
  <2>4. f[i + 1] = g[i + 1]
    BY <1>2, <2>2, <2>3 DEF Turn
  <2> QED BY <2>1, <2>4
<1>3. B \in SUBSET (0..l)
  OBVIOUS
<1>4. B = 0..l
  <2> HIDE DEF B
  <2> QED BY <1>1, <1>2, <1>3, Stepwise
<1>5. l \in B
  BY <1>4
<1> QED BY <1>5

LEMMA SelectedBehind ==
  ASSUME NEW N, NEW s \in Seq(N), NEW n \in N, NEW S
  PROVE  Selected(Append(s, n), S) = Turn(Selected(s, S), n, S)
<1>1. PICK f : Selects(f, N, s, S)
  BY SelectedIs
<1>2. PICK t \in Seq(N) : t = Append(s, n)
  <2>1. Append(s, n) \in Seq(N)
    OBVIOUS
  <2> QED BY <2>1
<1>3. PICK g : Selects(g, N, t, S)
  BY SelectedIs
<1>4. PICK l \in Nat : l = Len(s)
  OBVIOUS
<1>5. Len(t) = l + 1 /\ t[l + 1] = n /\ \A i \in 1..l : t[i] = s[i]
  BY <1>2, <1>4
<1>6. f[l] = g[l]
  <2>1. l <= Len(s) /\ l <= Len(t)
    BY <1>4, <1>5
  <2> QED BY <1>1, <1>3, <1>5, <2>1, SelectionsAgree
<1>7. l + 1 \in 1..Len(t) /\ (l + 1) - 1 = l
  BY <1>5
<1>8. g[l + 1] = Turn(g[l], t[l + 1], S)
  BY <1>3, <1>7 DEF Selects
<1>9. Selected(t, S) = g[l + 1] /\ Selected(s, S) = f[l]
  BY <1>1, <1>3, <1>4, <1>5 DEF Selects
<1> QED BY <1>2, <1>5, <1>6, <1>8, <1>9

LEMMA SelectedBefore ==
  ASSUME NEW N, NEW s \in Seq(N), NEW n \in N, NEW S
  PROVE  Selected(<<n>> \o s, S) = IF n \in S THEN <<n>> \o Selected(s, S) ELSE Selected(s, S)
<1>1. PICK f : Selects(f, N, s, S)
  BY SelectedIs
<1>2. PICK t \in Seq(N) : t = <<n>> \o s
  <2>1. <<n>> \in Seq(N)
    OBVIOUS
  <2>2. <<n>> \o s \in Seq(N)
    BY <2>1
  <2> QED BY <2>2
<1>3. PICK g : Selects(g, N, t, S)
  BY SelectedIs
<1>4. PICK l \in Nat : l = Len(s)
  OBVIOUS
<1>5. Len(t) = l + 1 /\ t[1] = n /\ \A i \in 1..l : t[i + 1] = s[i]
  BY <1>2, <1>4
<1> DEFINE with(a) == IF n \in S THEN <<n>> \o a ELSE a
           B == {i \in 0..l : g[i + 1] = with(f[i])}
<1>6. 0 \in B
  <2>1. 1 \in 1..Len(t) /\ 1 - 1 = 0
    BY <1>5
  <2>2. g[1] = Turn(g[0], t[1], S)
    BY <1>3, <2>1 DEF Selects
  <2>3. g[0] = <<>> /\ f[0] = <<>>
    BY <1>1, <1>3 DEF Selects
  <2>4. Append(<<>>, n) = <<n>> \o <<>>
    OBVIOUS
  <2>5. g[1] = with(f[0])
    BY <1>5, <2>2, <2>3, <2>4 DEF Turn
  <2> HIDE DEF with
  <2> QED BY <2>5
<1>7. ASSUME NEW i \in 0..(l - 1), i \in B PROVE i + 1 \in B
  <2>1. i + 1 \in 1..l /\ (i + 1) - 1 = i /\ i + 1 \in 0..l /\ i \in 0..l
        /\ (i + 1) + 1 \in 1..Len(t) /\ ((i + 1) + 1) - 1 = i + 1
    BY <1>5
  <2>2. f[i + 1] = Turn(f[i], s[i + 1], S)
    BY <1>1, <1>4, <2>1 DEF Selects
  <2>3. g[(i + 1) + 1] = Turn(g[i + 1], t[(i + 1) + 1], S)
    BY <1>3, <2>1 DEF Selects
  <2>4. t[(i + 1) + 1] = s[i + 1] /\ g[i + 1] = with(f[i])
    BY <1>5, <1>7, <2>1
  <2>5. f[i] \in Seq(N) /\ s[i + 1] \in N
    BY <1>1, <1>4, <2>1, SMTT(30) DEF Selects
  <2>6. Turn(with(f[i]), s[i + 1], S) = with(Turn(f[i], s[i + 1], S))
    <3>1. \A a \in Seq(N), x \in N : Append(<<n>> \o a, x) = <<n>> \o Append(a, x)
      OBVIOUS
    <3> QED BY <2>5, <3>1 DEF Turn
  <2> HIDE DEF with
  <2> QED BY <2>1, <2>2, <2>3, <2>4, <2>6
<1>8. B \in SUBSET (0..l)
  OBVIOUS
<1>9. B = 0..l
  <2> HIDE DEF B
  <2> QED BY <1>6, <1>7, <1>8, Stepwise
<1>10. l \in B
  BY <1>9
<1>11. Selected(t, S) = g[l + 1] /\ Selected(s, S) = f[l]
  BY <1>1, <1>3, <1>4, <1>5 DEF Selects
<1> QED BY <1>2, <1>10, <1>11

\* Without one of its members, a sequence selects the rest.
LEMMA SelectedWithout ==
  ASSUME NEW N, NEW s \in Seq(N), NEW p \in 1..Len(s), NEW t \in Seq(N), Len(t) = Len(s) - 1,
         \A i \in 1..Len(t) : t[i] = IF i < p THEN s[i] ELSE s[i + 1], NEW S, s[p] \notin S
  PROVE  Selected(t, S) = Selected(s, S)
<1>1. PICK f : Selects(f, N, s, S)
  BY SelectedIs
<1>2. PICK g : Selects(g, N, t, S)
  BY SelectedIs
<1>3. PICK l \in Nat : l = Len(s)
  OBVIOUS
<1>4. Len(t) = l - 1 /\ p \in 1..l /\ p \in Nat
  BY <1>3
<1>5. f[p - 1] = g[p - 1]
  <2>1. p - 1 \in Nat /\ p - 1 <= Len(s) /\ p - 1 <= Len(t)
    BY <1>3, <1>4
  <2>2. \A i \in 1..(p - 1) : s[i] = t[i] /\ (s[i] \in S <=> s[i] \in S)
    BY <1>3, <1>4
  <2> QED BY <1>1, <1>2, <2>1, <2>2, SelectionsAgree
<1> DEFINE B == {i \in 0..(l - p) : f[p + i] = g[(p - 1) + i]}
<1>6. 0 \in B
  <2>1. p \in 1..Len(s) /\ p + 0 = p /\ (p - 1) + 0 = p - 1 /\ 0 \in 0..(l - p)
    BY <1>3, <1>4
  <2>2. f[p] = Turn(f[p - 1], s[p], S)
    BY <1>1, <2>1 DEF Selects
  <2>3. f[p] = f[p - 1]
    BY <2>2 DEF Turn
  <2> QED BY <1>5, <2>1, <2>3
<1>7. ASSUME NEW i \in 0..((l - p) - 1), i \in B PROVE i + 1 \in B
  <2>1. /\ i \in Nat /\ i + 1 \in 0..(l - p)
        /\ p + (i + 1) \in 1..Len(s) /\ (p + (i + 1)) - 1 = p + i
        /\ (p - 1) + (i + 1) \in 1..Len(t) /\ ((p - 1) + (i + 1)) - 1 = (p - 1) + i
        /\ ~ ((p - 1) + (i + 1) < p) /\ ((p - 1) + (i + 1)) + 1 = p + (i + 1)
    BY <1>3, <1>4
  <2>2. f[p + (i + 1)] = Turn(f[p + i], s[p + (i + 1)], S)
    BY <1>1, <2>1 DEF Selects
  <2>3. g[(p - 1) + (i + 1)] = Turn(g[(p - 1) + i], t[(p - 1) + (i + 1)], S)
    BY <1>2, <2>1 DEF Selects
  <2>4. t[(p - 1) + (i + 1)] = s[p + (i + 1)]
    BY <2>1
  <2>5. f[p + i] = g[(p - 1) + i]
    BY <1>7
  <2>6. f[p + (i + 1)] = g[(p - 1) + (i + 1)]
    BY <2>2, <2>3, <2>4, <2>5
  <2> QED BY <2>1, <2>6
<1>8. B \in SUBSET (0..(l - p))
  OBVIOUS
<1>9. l - p \in Nat /\ p + (l - p) = l /\ (p - 1) + (l - p) = l - 1
  BY <1>4
<1>10. B = 0..(l - p)
  <2>1. PICK k \in Nat : k = l - p
    BY <1>9
  <2>2. 0 \in B /\ B \in SUBSET (0..k) /\ \A i \in 0..(k - 1) : i \in B => i + 1 \in B
    BY <1>6, <1>7, <1>8, <2>1
  <2> HIDE DEF B
  <2>3. B = 0..k
    BY <2>2, Stepwise
  <2> QED BY <2>1, <2>3
<1>11. l - p \in B
  BY <1>9, <1>10
<1>12. f[l] = g[l - 1]
  BY <1>9, <1>11
<1> QED BY <1>1, <1>2, <1>3, <1>4, <1>12 DEF Selects

\* To select twice is to select what is in both sets.
LEMMA SelectedTwice ==
  ASSUME NEW N, NEW s \in Seq(N), NEW S, NEW T
  PROVE  Selected(Selected(s, S), T) = Selected(s, S \cap T)
<1>1. PICK f : Selects(f, N, s, S)
  BY SelectedIs
<1>2. PICK g : Selects(g, N, s, S \cap T)
  BY SelectedIs
<1>3. PICK l \in Nat : l = Len(s)
  OBVIOUS
<1> DEFINE B == {i \in 0..l : Selected(f[i], T) = g[i]}
<1>4. 0 \in B
  BY <1>1, <1>2, SelectedEmpty DEF Selects
<1>5. ASSUME NEW i \in 0..(l - 1), i \in B PROVE i + 1 \in B
  <2>1. i + 1 \in 1..l /\ (i + 1) - 1 = i /\ i + 1 \in 0..l /\ i \in 0..l
    OBVIOUS
  <2>2. f[i + 1] = Turn(f[i], s[i + 1], S) /\ g[i + 1] = Turn(g[i], s[i + 1], S \cap T)
    BY <1>1, <1>2, <1>3, <2>1 DEF Selects
  <2>3. f[i] \in Seq(N) /\ s[i + 1] \in N
    BY <1>1, <1>3, <2>1, SMTT(30) DEF Selects
  <2>4. Selected(Append(f[i], s[i + 1]), T) = Turn(Selected(f[i], T), s[i + 1], T)
    BY <2>3, SelectedBehind
  <2>5. Selected(f[i], T) = g[i]
    BY <1>5
  <2>6. CASE s[i + 1] \in S
    <3>1. f[i + 1] = Append(f[i], s[i + 1]) /\ g[i + 1] = Turn(g[i], s[i + 1], T)
      BY <2>2, <2>6 DEF Turn
    <3> QED BY <2>1, <2>4, <2>5, <3>1
  <2>7. CASE s[i + 1] \notin S
    <3>1. f[i + 1] = f[i] /\ g[i + 1] = g[i]
      BY <2>2, <2>7 DEF Turn
    <3> QED BY <2>1, <2>5, <3>1
  <2> QED BY <2>6, <2>7
<1>6. B \in SUBSET (0..l)
  OBVIOUS
<1>7. B = 0..l
  <2> HIDE DEF B
  <2> QED BY <1>3, <1>4, <1>5, <1>6, Stepwise
<1>8. l \in B
  BY <1>7
<1> QED BY <1>1, <1>2, <1>3, <1>8 DEF Selects

\* Nothing is selected where nothing is wanted, and otherwise the first one wanted comes
\* first.
LEMMA SelectedNone ==
  ASSUME NEW N, NEW s \in Seq(N), NEW S, \A i \in 1..Len(s) : s[i] \notin S
  PROVE  Selected(s, S) = <<>>
<1>1. Selected(s, S) = Selected(s, S \cap {})
  BY SelectedSame
<1>2. PICK f : Selects(f, N, s, {})
  BY SelectedIs
<1>3. PICK l \in Nat : l = Len(s)
  OBVIOUS
<1> DEFINE B == {i \in 0..l : f[i] = <<>>}
<1>4. 0 \in B
  BY <1>2, <1>3 DEF Selects
<1>5. ASSUME NEW i \in 0..(l - 1), i \in B PROVE i + 1 \in B
  <2>1. i + 1 \in 1..l /\ (i + 1) - 1 = i /\ i + 1 \in 0..l
    OBVIOUS
  <2>2. f[i + 1] = Turn(f[i], s[i + 1], {})
    BY <1>2, <1>3, <2>1 DEF Selects
  <2> QED BY <1>5, <2>1, <2>2 DEF Turn
<1>6. B \in SUBSET (0..l)
  OBVIOUS
<1>7. B = 0..l
  <2> HIDE DEF B
  <2> QED BY <1>3, <1>4, <1>5, <1>6, Stepwise
<1>8. l \in B
  BY <1>7
<1>9. Selected(s, {}) = <<>>
  BY <1>2, <1>3, <1>8 DEF Selects
<1>10. S \cap {} = {}
  OBVIOUS
<1> QED BY <1>1, <1>9, <1>10

LEMMA SelectedFirst ==
  ASSUME NEW N, NEW s \in Seq(N), NEW S, NEW p \in 1..Len(s), s[p] \in S,
         \A i \in 1..(p - 1) : s[i] \notin S
  PROVE  Selected(s, S) # <<>> /\ Selected(s, S)[1] = s[p]
<1>1. PICK f : Selects(f, N, s, S)
  BY SelectedIs
<1>2. PICK l \in Nat : l = Len(s)
  OBVIOUS
<1>3. p \in 1..l /\ p \in Nat
  BY <1>2
<1> DEFINE A == {i \in 0..(p - 1) : f[i] = <<>>}
<1>4. p - 1 \in A
  <2>1. 0 \in A
    BY <1>1, <1>3 DEF Selects
  <2>2. ASSUME NEW i \in 0..((p - 1) - 1), i \in A PROVE i + 1 \in A
    <3>1. i + 1 \in 1..Len(s) /\ (i + 1) - 1 = i /\ i + 1 \in 0..(p - 1) /\ i + 1 \in 1..(p - 1)
      BY <1>2, <1>3
    <3>2. f[i + 1] = Turn(f[i], s[i + 1], S) /\ s[i + 1] \notin S
      BY <1>1, <3>1 DEF Selects
    <3> QED BY <2>2, <3>1, <3>2 DEF Turn
  <2>3. PICK k \in Nat : k = p - 1
    BY <1>3
  <2>4. 0 \in A /\ A \in SUBSET (0..k) /\ \A i \in 0..(k - 1) : i \in A => i + 1 \in A
    BY <2>1, <2>2, <2>3
  <2> HIDE DEF A
  <2>5. A = 0..k
    BY <2>4, Stepwise
  <2> QED BY <2>3, <2>5
<1> DEFINE B == {i \in 0..(l - p) : f[p + i] # <<>> /\ f[p + i][1] = s[p]}
<1>5. 0 \in B
  <2>1. p \in 1..Len(s) /\ p + 0 = p /\ 0 \in 0..(l - p)
    BY <1>2, <1>3
  <2>2. f[p] = Turn(f[p - 1], s[p], S)
    BY <1>1, <2>1 DEF Selects
  <2>3. f[p] = Append(<<>>, s[p])
    BY <1>4, <2>2 DEF Turn
  <2>4. f[p] # <<>> /\ f[p][1] = s[p]
    BY <2>3
  <2> QED BY <2>1, <2>4
<1>6. ASSUME NEW i \in 0..((l - p) - 1), i \in B PROVE i + 1 \in B
  <2>1. /\ i + 1 \in 0..(l - p) /\ p + (i + 1) \in 1..Len(s) /\ (p + (i + 1)) - 1 = p + i
        /\ p + i \in 0..Len(s)
    BY <1>2, <1>3
  <2>2. f[p + (i + 1)] = Turn(f[p + i], s[p + (i + 1)], S)
    BY <1>1, <2>1 DEF Selects
  <2>3. f[p + i] \in Seq(N) /\ s[p + (i + 1)] \in N
    BY <1>1, <2>1, SMTT(30) DEF Selects
  <2>4. \A a \in Seq(N), x \in N : a # <<>> => Append(a, x) # <<>> /\ Append(a, x)[1] = a[1]
    OBVIOUS
  <2>5. f[p + i] # <<>> /\ f[p + i][1] = s[p]
    BY <1>6
  <2>6. f[p + (i + 1)] # <<>> /\ f[p + (i + 1)][1] = s[p]
    BY <2>2, <2>3, <2>4, <2>5 DEF Turn
  <2> QED BY <2>1, <2>6
<1>7. l - p \in B
  <2>1. PICK k \in Nat : k = l - p
    BY <1>3
  <2>2. 0 \in B /\ B \in SUBSET (0..k) /\ \A i \in 0..(k - 1) : i \in B => i + 1 \in B
    BY <1>5, <1>6, <2>1
  <2> HIDE DEF B
  <2>3. B = 0..k
    BY <2>2, Stepwise
  <2> QED BY <2>1, <2>3
<1>8. p + (l - p) = l
  BY <1>3
<1>9. f[l] # <<>> /\ f[l][1] = s[p]
  BY <1>7, <1>8
<1> QED BY <1>1, <1>2, <1>9 DEF Selects

-----------------------------------------------------------------------------
(***************************************************************************)
(* The buckets implement one list per reference                            *)
(***************************************************************************)
\* The elements of a reference.
Stack(ref) == IF ref \in References THEN Selected(Chain(ref), Matching(ref)) ELSE <<>>

Refs == Keys \cup Ids

LEMMA StacksAre ==
  /\ \A s, S : Stacks!Selected(s, S) = Selected(s, S)
  /\ \A s : Stacks!Range(s) = Range(s)
BY DEF Stacks!Selected, Selected, Stacks!Range, Range

LEMMA ChainIs ==
  ASSUME TypeOK, NEW ref \in Keys \cup Nat
  PROVE  /\ Bucket(ref) \in Buckets /\ Chain(ref) = ppHashChains[Bucket(ref)]
         /\ Chain(ref) \in Seq(Nodes) /\ Len(Chain(ref)) \in Nat
         /\ \A i \in 1..Len(Chain(ref)) : /\ Chain(ref)[i] \in Nodes /\ Chain(ref)[i] \in Range(Chain(ref))
                                          /\ Chain(ref)[i] \in Linked
         /\ \A n \in Range(Chain(ref)) : n \in Linked
<1>1. Bucket(ref) \in Buckets
  BY BucketsAre
<1>2. PICK q \in Seq(Nodes) : q = Chain(ref)
  BY <1>1 DEF TypeOK, Chain
<1>3. \A i \in 1..Len(q) : q[i] \in Nodes /\ q[i] \in Range(q)
  BY DEF Range
<1>4. \A n \in Range(q) : n \in Linked
  BY <1>1, <1>2, LinkedIs DEF Chain
<1> QED BY <1>1, <1>2, <1>3, <1>4 DEF Chain

\* The elements of a reference are in the table, and a lookup gives the first of them.
LEMMA StackIs ==
  ASSUME TypeOK, NEW ref \in Keys \cup Ids
  PROVE  /\ Stack(ref) \in Seq(Nodes)
         /\ \A n \in Range(Stack(ref)) : n \in Linked
         /\ ref \in References => Find(ref) = IF Stack(ref) = <<>> THEN None ELSE Stack(ref)[1]
<1>0. ref \in Keys \cup Nat
  BY DEF Ids
<1>1. PICK q : q = Chain(ref)
  OBVIOUS
<1>2. q \in Seq(Nodes) /\ \A n \in Range(q) : n \in Linked
  BY <1>0, <1>1, ChainIs
<1>3. CASE ref \notin References
  <2>1. Stack(ref) = <<>>
    BY <1>3 DEF Stack
  <2>2. <<>> \in Seq(Nodes) /\ Range(<<>>) = {}
    BY DEF Range
  <2> QED BY <1>3, <2>1, <2>2
<1>4. CASE ref \in References
  <2>1. Stack(ref) = Selected(q, Matching(ref))
    BY <1>1, <1>4 DEF Stack
  <2>2. Stack(ref) \in Seq(Nodes)
    BY <1>2, <2>1, SelectedType
  <2>3. \A n \in Range(Stack(ref)) : n \in Linked
    <3>1. q \in Seq(Range(q))
      BY <1>2 DEF Range
    <3>2. PICK t \in Seq(Range(q)) : t = Stack(ref)
      BY <2>1, <3>1, SelectedType
    <3>3. \A n \in Range(t) : n \in Range(q)
      <4>1. \A i \in DOMAIN t : t[i] \in Range(q)
        OBVIOUS
      <4>2. Range(t) = {t[i] : i \in DOMAIN t}
        BY DEF Range
      <4> QED BY <4>1, <4>2
    <3> QED BY <1>2, <3>2, <3>3
  <2>4. Find(ref) = IF Stack(ref) = <<>> THEN None ELSE Stack(ref)[1]
    <3> DEFINE T == {i \in 1..Len(q) : Matches(q[i], ref)}
               k == SelectInSeq(q, LAMBDA n : Matches(n, ref))
    <3>1. k = IF T # {} THEN Min(T) ELSE 0
      BY DEF SelectInSeq
    <3>2. Find(ref) = IF k = 0 THEN None ELSE q[k]
      BY <1>1 DEF Find
    <3> HIDE DEF k
    <3>3. T \in SUBSET Nat
      BY <1>2
    <3>4. \A i \in 1..Len(q) : q[i] \in Nodes
      BY <1>2
    <3>5. CASE T = {}
      <4>1. \A i \in 1..Len(q) : q[i] \notin Matching(ref)
        BY <3>5 DEF Matching
      <4>2. Stack(ref) = <<>>
        BY <1>2, <2>1, <4>1, SelectedNone
      <4> QED BY <3>1, <3>2, <3>5, <4>2
    <3>6. CASE T # {}
      <4>1. k \in T /\ \A y \in T : k <= y
        BY <3>1, <3>3, <3>6, LeastNatural
      <4>2. k \in 1..Len(q) /\ q[k] \in Matching(ref) /\ k # 0
        BY <3>3, <3>4, <4>1 DEF Matching
      <4>3. \A i \in 1..(k - 1) : q[i] \notin Matching(ref)
        <5> SUFFICES ASSUME NEW i \in 1..(k - 1) PROVE q[i] \notin Matching(ref)
          OBVIOUS
        <5>1. i \in 1..Len(q) /\ ~ (k <= i)
          BY <1>2, <4>2
        <5>2. ~ Matches(q[i], ref)
          BY <4>1, <5>1
        <5> QED BY <5>2 DEF Matching
      <4>4. Stack(ref) # <<>> /\ Stack(ref)[1] = q[k]
        BY <1>2, <2>1, <4>2, <4>3, SelectedFirst
      <4> QED BY <3>2, <4>2, <4>4
    <3> QED BY <3>5, <3>6
  <2> QED BY <2>2, <2>3, <2>4
<1> QED BY <1>3, <1>4

\* An addition puts the node in front of the elements of its references, or after them.
LEMMA AdditionStacks ==
  ASSUME TypeOK, NEW b \in Buckets, NEW k, NEW id, NEW n \in Nodes \ Linked, Adds(b, k, id, n)
  PROVE  /\ \/ \A r \in Refs : Stack(r)' \in {Stack(r), <<n>> \o Stack(r)}
            \/ \A r \in Refs : Stack(r)' \in {Stack(r), Append(Stack(r), n)}
         /\ k \in References \cap Keys /\ Bucket(k) = b /\ Stack(k) = <<>> => Stack(k)' = <<n>>
<1>1. PICK chain \in {Append(ppHashChains[b], n), <<n>> \o ppHashChains[b]} :
        ppHashChains' = [ppHashChains EXCEPT ![b] = chain]
  BY DEF Adds
<1>2. /\ ppHashChains \in [Buckets -> Seq(Nodes)]
      /\ element \in [Nodes -> [key : Keys \cup {None}, id : Ids]]
      /\ element' = [element EXCEPT ![n] = [key |-> k, id |-> id]] /\ usage' = usage
  BY DEF Adds, TypeOK
<1>3. element'[n].key = k /\ \A m \in Nodes \ {n} : element'[m] = element[m]
  BY <1>2
<1>4. PICK q \in Seq(Nodes) : q = ppHashChains[b]
  BY <1>2
<1>5. References' = References
  BY <1>2 DEF References
<1> DEFINE new(r) == Matching(r)'
<1>6. ASSUME NEW r \in References
      PROVE  /\ Stack(r) = Selected(ppHashChains[Bucket(r)], Matching(r))
             /\ Stack(r)' = Selected(ppHashChains'[Bucket(r)], new(r))
             /\ Bucket(r) \in Buckets
             /\ Selected(ppHashChains[Bucket(r)], new(r)) = Stack(r)
  <2>1. r \in Keys \cup Nat
    BY ReferencesAre
  <2>2. /\ Stack(r) = Selected(ppHashChains[Bucket(r)], Matching(r))
        /\ Stack(r)' = Selected(ppHashChains'[Bucket(r)], new(r))
    BY <1>5 DEF Stack, Chain, Bucket
  <2>3. PICK c : c = ppHashChains[Bucket(r)]
    OBVIOUS
  <2>4. Bucket(r) \in Buckets /\ c \in Seq(Nodes) /\ \A i \in 1..Len(c) : c[i] \in Nodes \ {n}
    BY <2>1, <2>3, ChainIs
  <2>5. \A m \in Nodes \ {n} : m \in new(r) <=> m \in Matching(r)
    BY <1>3 DEF Matching, Matches
  <2> HIDE DEF new
  <2>6. \A i \in 1..Len(c) : c[i] \in new(r) <=> c[i] \in Matching(r)
    BY <2>4, <2>5
  <2>7. Selected(c, new(r)) = Selected(c, Matching(r))
    BY <2>4, <2>6, SelectedSame
  <2> QED BY <2>2, <2>3, <2>4, <2>7
<1>7. ASSUME NEW r \in Refs, r \notin References PROVE Stack(r)' = Stack(r)
  BY <1>5, <1>7 DEF Stack
<1> HIDE DEF new
<1>8. \A r \in References : Bucket(r) # b => Stack(r)' = Stack(r)
  BY <1>1, <1>2, <1>6
<1>9. CASE chain = Append(ppHashChains[b], n)
  <2>1. ASSUME NEW r \in References, Bucket(r) = b PROVE Stack(r)' = Turn(Stack(r), n, new(r))
    <3>1. Selected(Append(q, n), new(r)) = Turn(Selected(q, new(r)), n, new(r))
      BY SelectedBehind
    <3>2. Stack(r)' = Selected(Append(q, n), new(r))
      BY <1>1, <1>2, <1>4, <1>6, <1>9, <2>1
    <3>3. Selected(q, new(r)) = Stack(r)
      BY <1>4, <1>6, <2>1
    <3> QED BY <3>1, <3>2, <3>3
  <2>2. \A r \in Refs : Stack(r)' \in {Stack(r), Append(Stack(r), n)}
    BY <1>7, <1>8, <2>1 DEF Turn
  <2>3. k \in References \cap Keys /\ Bucket(k) = b /\ Stack(k) = <<>> => Stack(k)' = <<n>>
    <3> SUFFICES ASSUME k \in References \cap Keys, Bucket(k) = b, Stack(k) = <<>> PROVE Stack(k)' = <<n>>
      OBVIOUS
    <3>1. n \in new(k)
      BY <1>3 DEF new, Matching, Matches
    <3>2. Stack(k)' = Append(<<>>, n)
      BY <2>1, <3>1 DEF Turn
    <3> QED BY <3>2
  <2> QED BY <2>2, <2>3
<1>10. CASE chain = <<n>> \o ppHashChains[b]
  <2>1. ASSUME NEW r \in References, Bucket(r) = b
        PROVE  Stack(r)' = IF n \in new(r) THEN <<n>> \o Stack(r) ELSE Stack(r)
    <3>1. Selected(<<n>> \o q, new(r)) = IF n \in new(r) THEN <<n>> \o Selected(q, new(r)) ELSE Selected(q, new(r))
      BY SelectedBefore
    <3>2. Stack(r)' = Selected(<<n>> \o q, new(r))
      BY <1>1, <1>2, <1>4, <1>6, <1>10, <2>1
    <3>3. Selected(q, new(r)) = Stack(r)
      BY <1>4, <1>6, <2>1
    <3> QED BY <3>1, <3>2, <3>3
  <2>2. \A r \in Refs : Stack(r)' \in {Stack(r), <<n>> \o Stack(r)}
    BY <1>7, <1>8, <2>1
  <2>3. k \in References \cap Keys /\ Bucket(k) = b /\ Stack(k) = <<>> => Stack(k)' = <<n>>
    <3> SUFFICES ASSUME k \in References \cap Keys, Bucket(k) = b, Stack(k) = <<>> PROVE Stack(k)' = <<n>>
      OBVIOUS
    <3>1. n \in new(k)
      BY <1>3 DEF new, Matching, Matches
    <3>2. Stack(k)' = <<n>> \o <<>>
      BY <2>1, <3>1
    <3>3. <<n>> \o <<>> = <<n>>
      OBVIOUS
    <3> QED BY <3>2, <3>3
  <2> QED BY <2>2, <2>3
<1> QED BY <1>1, <1>9, <1>10

\* A removal takes the element that was found out of the lists of all references.
LEMMA RemovalStacks ==
  ASSUME TInv, NEW ref \in Keys \cup Nat, Unlink(ref), usage' = usage
  PROVE  \A r \in Refs : Stack(r)' = Selected(Stack(r), Nodes \ {Find(ref)})
<1>0. TypeOK
  BY DEF TInv
<1>1. PICK n : n = Find(ref)
  OBVIOUS
<1>2. SUFFICES ASSUME NEW r \in Refs PROVE Stack(r)' = Selected(Stack(r), Nodes \ {n})
  BY <1>1
<1>3. References' = References
  BY DEF References
<1>4. CASE r \notin References
  BY <1>3, <1>4, SelectedEmpty DEF Stack
<1>5. CASE r \in References
  <2>1. r \in Keys \cup Nat /\ Bucket(r) \in Buckets
    BY <1>5, ReferencesAre, BucketsAre
  <2>2. PICK c : c = ppHashChains[Bucket(r)]
    OBVIOUS
  <2>3. PICK d : d = ppHashChains'[Bucket(r)]
    OBVIOUS
  <2>4. PICK M : M = Matching(r)
    OBVIOUS
  <2>5. PICK M2 : M2 = Matching(r)'
    OBVIOUS
  <2>6. Stack(r) = Selected(c, M) /\ Stack(r)' = Selected(d, M2)
    BY <1>3, <1>5, <2>2, <2>3, <2>4, <2>5 DEF Stack, Chain, Bucket
  <2>7. c \in Seq(Nodes)
    BY <1>0, <2>1, <2>2, ChainIs
  <2>8. Selected(Stack(r), Nodes \ {n}) = Selected(c, M \cap (Nodes \ {n}))
    BY <2>6, <2>7, SelectedTwice
  <2>9. None \notin Nodes
    BY HashAssumption
  <2>10. CASE n = None
    <3>1. ppHashChains' = ppHashChains /\ element' = element
      BY <1>1, <2>10 DEF Unlink, table
    <3>2. d = c /\ M2 = M
      BY <2>2, <2>3, <2>4, <2>5, <3>1 DEF Matching, Matches
    <3>3. \A i \in 1..Len(c) : c[i] \in M <=> c[i] \in M \cap (Nodes \ {n})
      BY <2>7, <2>9, <2>10
    <3>4. Selected(c, M) = Selected(c, M \cap (Nodes \ {n}))
      BY <2>7, <3>3, SelectedSame
    <3> QED BY <2>6, <2>8, <3>2, <3>4
  <2>11. CASE n # None
    <3>1. /\ ppHashChains' = [ppHashChains EXCEPT ![Bucket(ref)] = RemoveFirst(@, n)]
          /\ element' = [element EXCEPT ![n] = NoElement]
      BY <1>1, <2>11 DEF Unlink
    <3>2. n \in Range(ppHashChains[Bucket(ref)]) /\ Bucket(ref) \in Buckets
      BY <1>0, <1>1, <2>11, FindGives, BucketsAre DEF Chain
    <3>3. /\ TableType' /\ \A b \in Buckets : Range(ppHashChains'[b]) = Range(ppHashChains[b]) \ {n}
      BY <1>1, UnlinkIs
    <3>4. d \in Seq(Nodes) /\ n \notin Range(d)
      BY <2>1, <2>3, <3>3 DEF TableType
    <3>5. \A m \in Nodes \ {n} : m \in M2 <=> m \in M \cap (Nodes \ {n})
      <4>1. \A m \in Nodes \ {n} : element'[m] = element[m]
        BY <1>0, <3>1 DEF TypeOK
      <4> QED BY <2>4, <2>5, <4>1 DEF Matching, Matches
    <3>6. \A i \in 1..Len(d) : d[i] \in M2 <=> d[i] \in M \cap (Nodes \ {n})
      <4>1. \A i \in 1..Len(d) : d[i] \in Nodes /\ d[i] \in Range(d)
        BY <3>4 DEF Range
      <4> QED BY <3>4, <3>5, <4>1
    <3>7. Stack(r)' = Selected(d, M \cap (Nodes \ {n}))
      BY <2>6, <3>4, <3>6, SelectedSame
    <3>8. Selected(d, M \cap (Nodes \ {n})) = Selected(c, M \cap (Nodes \ {n}))
      <4>1. CASE Bucket(r) # Bucket(ref)
        <5>1. d = c
          BY <1>0, <2>1, <2>2, <2>3, <3>1, <4>1 DEF TypeOK
        <5> QED BY <5>1
      <4>2. CASE Bucket(r) = Bucket(ref)
        <5>1. d = RemoveFirst(c, n) /\ n \in Range(c)
          BY <1>0, <2>2, <2>3, <3>1, <3>2, <4>2 DEF TypeOK
        <5>2. PICK p \in 1..Len(c) :
                /\ c[p] = n /\ Len(d) = Len(c) - 1
                /\ \A i \in 1..(Len(c) - 1) : d[i] = IF i < p THEN c[i] ELSE c[i + 1]
          BY <2>7, <5>1, TakenOut
        <5>3. c[p] \notin M \cap (Nodes \ {n})
          BY <5>2
        <5>4. \A i \in 1..Len(d) : d[i] = IF i < p THEN c[i] ELSE c[i + 1]
          BY <5>2
        <5> QED BY <2>7, <3>4, <5>2, <5>3, <5>4, SelectedWithout
      <4> QED BY <4>1, <4>2
    <3> QED BY <2>8, <3>7, <3>8
  <2> QED BY <2>10, <2>11
<1> QED BY <1>4, <1>5

LEMMA ListsAre == \A r \in Refs : Lists[r] = Stack(r)
BY DEF Lists, Stack, Refs

\* What the refinement mapping makes of the lists.
LEMMA StacksOf ==
  /\ \A r \in Refs : Stacks!First(r) = IF Stack(r) = <<>> THEN None ELSE Stack(r)[1]
  /\ \A n : (\A r \in Refs : n \notin Range(Stack(r))) => Stacks!Free(n)
BY ListsAre, StacksAre DEF Stacks!First, Stacks!Free, Refs

SameStacks == \A r \in Refs : Stack(r)' = Stack(r)

LEMMA TableKept == UNCHANGED <<usage, table>> => SameStacks
BY DEF SameStacks, Stack, References, Chain, Bucket, Matching, Matches, table

LEMMA NothingPut ==
  ASSUME SameStacks
  PROVE  /\ result' = "none" => Stacks!Look
         /\ \A r \in Refs : Stack(r) # <<>> /\ result' = "duplicate" => Stacks!Refuse(r)
         /\ \A r \in Refs : result' = Stacks!First(r) => Stacks!Fetch(r)
         /\ result' = result => UNCHANGED Stacks!vars
<1>1. Lists = [r \in Refs |-> Stack(r)]
  BY DEF Lists, Stack, Refs
<1>2. Lists' = [r \in Refs |-> Stack(r)']
  BY DEF Lists, Stack, Refs, Ids
<1>3. Lists' = Lists
  BY <1>1, <1>2 DEF SameStacks
<1> QED BY <1>3, ListsAre DEF Stacks!Look, Stacks!Refuse, Stacks!Fetch, Stacks!vars

LEMMA InitStacks == Init => Stacks!Init
<1> SUFFICES ASSUME Init PROVE Stacks!Init
  OBVIOUS
<1>1. \A r \in References : Chain(r) = <<>>
  BY ReferencesAre, BucketsAre DEF Init, Chain
<1>2. \A r \in References : Selected(Chain(r), Matching(r)) = <<>>
  BY <1>1, SelectedEmpty
<1>3. Lists = [r \in Keys \cup Ids |-> <<>>]
  BY <1>2 DEF Lists
<1> QED BY <1>3 DEF Init, Stacks!Init

\* A method that adds puts the new node into the list of each of its references, and one
\* that insists on a new key looks for it first.
LEMMA AdditionsAreStacks ==
  ASSUME TInv, ~ AnyGivenId, Additions
  PROVE  Stacks!Next
<1>0. TypeOK
  BY DEF TInv
<1>1. \/ /\ UNCHANGED <<usage, table, iteration>> /\ result' = "duplicate"
         /\ \E k \in Keys : usage = "key" /\ Find(k) # None
      \/ /\ \E b \in Buckets, k \in Keys, id \in Ids : \E n \in Nodes \ Linked :
              /\ Adds(b, k, id, n)
              /\ id # 0 \/ usage = "id" => b = Bucket(id)
              /\ id = 0 \/ usage = "key" => b = Bucket(k)
              /\ result' = "unique" => usage = "key" /\ Find(k) = None
         /\ bucketCounter' \in [Buckets -> Nat]
         /\ result' \in {"added", "unique"}
  BY <1>0, AdditionIs, Zenon
<1>2. ASSUME NEW k \in Keys, usage = "key"
      PROVE  k \in References /\ k \in Refs /\ (Find(k) = None <=> Stack(k) = <<>>)
  <2>1. k \in References /\ k \in Refs /\ k \in Keys \cup Ids
    BY <1>2 DEF References, Refs
  <2>2. /\ Stack(k) \in Seq(Nodes)
        /\ Find(k) = IF Stack(k) = <<>> THEN None ELSE Stack(k)[1]
    BY <1>0, <2>1, StackIs
  <2>3. None \notin Nodes
    BY HashAssumption
  <2>4. \A t \in Seq(Nodes) : t # <<>> => t[1] \in Nodes
    OBVIOUS
  <2> QED BY <2>1, <2>2, <2>3, <2>4
<1>3. CASE /\ UNCHANGED <<usage, table, iteration>> /\ result' = "duplicate"
           /\ \E k \in Keys : usage = "key" /\ Find(k) # None
  <2>1. PICK k \in Keys : usage = "key" /\ Find(k) # None
    BY <1>3
  <2>2. SameStacks
    BY <1>3, TableKept
  <2>3. Stack(k) # <<>> /\ k \in Refs
    BY <1>2, <2>1
  <2>4. Stacks!Refuse(k)
    BY <1>3, <2>2, <2>3, NothingPut
  <2> QED BY <2>3, <2>4 DEF Stacks!Next, Refs
<1>4. CASE \E b \in Buckets, k \in Keys, id \in Ids : \E n \in Nodes \ Linked :
              /\ Adds(b, k, id, n)
              /\ id # 0 \/ usage = "id" => b = Bucket(id)
              /\ id = 0 \/ usage = "key" => b = Bucket(k)
              /\ result' = "unique" => usage = "key" /\ Find(k) = None
              /\ result' \in {"added", "unique"}
  <2>1. PICK b \in Buckets, k \in Keys, id \in Ids, n \in Nodes \ Linked :
              /\ Adds(b, k, id, n)
              /\ id = 0 \/ usage = "key" => b = Bucket(k)
              /\ result' = "unique" => usage = "key" /\ Find(k) = None
              /\ result' \in {"added", "unique"}
    BY <1>4
  <2>2. /\ \/ \A r \in Refs : Stack(r)' \in {Stack(r), <<n>> \o Stack(r)}
           \/ \A r \in Refs : Stack(r)' \in {Stack(r), Append(Stack(r), n)}
        /\ k \in References \cap Keys /\ Bucket(k) = b /\ Stack(k) = <<>> => Stack(k)' = <<n>>
    BY <1>0, <2>1, AdditionStacks
  <2>3. Stacks!Put(n)
    <3>1. \A r \in Refs : n \notin Range(Stack(r))
      BY <1>0, StackIs DEF Refs
    <3>2. Stacks!Free(n)
      BY <3>1, StacksOf
    <3>3. DOMAIN Lists' = Refs /\ \A r \in Refs : Lists'[r] = Stack(r)'
      BY DEF Lists, Stack, Refs, Ids
    <3>4. \/ \A r \in Refs : Lists'[r] \in {Lists[r], <<n>> \o Lists[r]}
          \/ \A r \in Refs : Lists'[r] \in {Lists[r], Append(Lists[r], n)}
      BY <2>2, <3>3, ListsAre
    <3> QED BY <3>2, <3>3, <3>4 DEF Stacks!Put, Refs
  <2>4. CASE result' = "added"
    <3>1. Stacks!Add(n)
      BY <2>3, <2>4 DEF Stacks!Add
    <3> QED BY <3>1 DEF Stacks!Next
  <2>5. CASE result' = "unique"
    <3>1. usage = "key" /\ Find(k) = None
      BY <2>1, <2>5
    <3>2. k \in References /\ k \in Refs /\ Stack(k) = <<>> /\ Bucket(k) = b
      BY <1>2, <2>1, <3>1
    <3>3. Stack(k)' = <<n>>
      BY <2>2, <3>2
    <3>4. Lists[k] = <<>> /\ Lists'[k] = <<n>>
      <4>1. \A r \in Refs : Lists'[r] = Stack(r)'
        BY DEF Lists, Stack, Refs, Ids
      <4> QED BY <3>2, <3>3, <4>1, ListsAre
    <3>5. Stacks!AddUnique(n)
      BY <2>3, <2>5, <3>2, <3>4 DEF Stacks!AddUnique, Refs
    <3> QED BY <3>5 DEF Stacks!Next
  <2> QED BY <2>1, <2>4, <2>5
<1> QED BY <1>1, <1>3, <1>4

\* What a reference leads to is taken out of every list.
LEMMA RemovalIsStacks ==
  ASSUME TInv, NEW r \in References, NEW ref \in Keys \cup Nat, Find(ref) = Find(r),
         Unlink(ref), usage' = usage
  PROVE  Stacks!Next
<1>0. TypeOK
  BY DEF TInv
<1>1. r \in Refs /\ r \in Keys \cup Ids
  BY DEF References, Refs
<1>2. result' = Find(r)
  BY DEF Unlink
<1>3. Stacks!First(r) = Find(r)
  BY <1>0, <1>1, StackIs, StacksOf
<1>4. \A s \in Refs : Stack(s)' = Selected(Stack(s), Nodes \ {Find(r)})
  BY RemovalStacks
<1>5. Lists' = [s \in Refs |-> Stack(s)']
  BY DEF Lists, Stack, Refs, Ids
<1>6. Lists' = [s \in Keys \cup Ids |-> Stacks!Selected(Lists[s], Nodes \ {Stacks!First(r)})]
  BY <1>3, <1>4, <1>5, ListsAre, StacksAre DEF Refs
<1>7. Stacks!Remove(r)
  BY <1>2, <1>3, <1>6 DEF Stacks!Remove
<1> QED BY <1>1, <1>7 DEF Stacks!Next, Refs

\* The destructor saves the key or the id of an element; the element is the first of its
\* chain, thus of the list of that reference, or of the id that the caller uses.
LEMMA DestroyElementIsStacks ==
  ASSUME IInv, DestroyElement
  PROVE  Stacks!Next
<1> DEFINE n == iterator.pCurrentElement
           b == iterator.currentBucket
           ref == IF element[n].id = 0 THEN element[n].key ELSE element[n].id
           r == IF usage = "id" THEN element[n].id ELSE ref
<1>0. TInv /\ TypeOK /\ Destroying
  BY DEF IInv, TInv
<1>1. phase = "destroying" /\ n # None /\ Unlink(ref) /\ usage' = usage
  BY DEF DestroyElement
<1>2. n = HeadOf(b)
  BY <1>0, <1>1 DEF Destroying
<1>3. n \in Nodes /\ b \in Buckets /\ usage \in {"key", "id"} /\ Keys \cap Nat = {}
  BY <1>0, <1>1, HashAssumption DEF TypeOK
<1>4. ppHashChains[b] # <<>> /\ ppHashChains[b][1] = n /\ n \in Range(ppHashChains[b])
  <2>1. HeadOf(b) # None
    BY <1>1, <1>2
  <2>2. /\ ppHashChains[b] # <<>> /\ HeadOf(b) = ppHashChains[b][1]
        /\ HeadOf(b) \in Range(ppHashChains[b])
    <3> HIDE DEF b
    <3> QED BY <1>0, <1>3, <2>1, HeadIs
  <2> QED BY <1>2, <2>2
<1>5. /\ element[n].key \in Keys /\ element[n].id \in Ids /\ element[n].id \in Nat
      /\ element[n].id # 0 \/ usage = "id" => b = Bucket(element[n].id)
      /\ element[n].id = 0 \/ usage = "key" => b = Bucket(element[n].key)
  BY <1>0, <1>3, <1>4 DEF TInv, TypeOK, Placed, Ids
<1>6. ref \in Keys \cup Nat /\ Bucket(ref) = b /\ Matches(n, ref)
  BY <1>3, <1>5 DEF Matches
<1>7. r \in References /\ r \in Keys \cup Nat /\ Bucket(r) = b /\ Matches(n, r)
  BY <1>3, <1>5 DEF Matches, References
<1> HIDE DEF ref, r
<1>8. Find(ref) = n /\ Find(r) = n
  BY <1>0, <1>4, <1>6, <1>7, FindGives DEF Chain
<1> QED BY <1>0, <1>1, <1>6, <1>7, <1>8, RemovalIsStacks

LEMMA NextStacks ==
  ASSUME IInv, ~ AnyGivenId, [Next]_vars
  PROVE  [Stacks!Next]_(Stacks!vars)
<1>0. TInv /\ TypeOK
  BY DEF IInv, TInv
<1>1. CASE Additions
  BY <1>0, <1>1, AdditionsAreStacks
<1>2. ASSUME NEW ref \in References, Fetch(ref) PROVE Stacks!Next
  <2>1. SameStacks /\ result' = Find(ref)
    BY <1>2, TableKept DEF Fetch
  <2>2. ref \in Keys \cup Ids /\ ref \in Refs
    BY DEF References, Refs
  <2>3. Stacks!First(ref) = Find(ref)
    BY <1>0, <2>2, StackIs, StacksOf
  <2>4. Stacks!Fetch(ref)
    BY <2>1, <2>2, <2>3, NothingPut
  <2> QED BY <2>2, <2>4 DEF Stacks!Next
<1>3. ASSUME NEW ref \in References, RemoveElement(ref) PROVE Stacks!Next
  <2>1. ref \in Keys \cup Nat /\ Unlink(ref) /\ usage' = usage
    BY <1>3, ReferencesAre DEF RemoveElement
  <2> QED BY <1>0, <2>1, RemovalIsStacks
<1>4. CASE DestroyElement
  BY <1>4, DestroyElementIsStacks
<1>5. ASSUME UNCHANGED <<usage, table>>, result' = "none" PROVE Stacks!Next
  <2>1. Stacks!Look
    BY <1>5, TableKept, NothingPut
  <2> QED BY <2>1 DEF Stacks!Next
<1>6. ASSUME NEW ref \in References, InitIteratorInChain(ref) PROVE Stacks!Next
  BY <1>5, <1>6 DEF InitIteratorInChain, Begin
<1>7. CASE Iterate
  <2>1. CASE InitIterator
    BY <1>5, <2>1 DEF InitIterator, Begin
  <2>2. CASE NextElement
    BY <1>5, <2>2 DEF NextElement, Visit
  <2>3. CASE NextInChain
    BY <1>5, <2>3 DEF NextInChain, Visit
  <2>4. CASE EndIteration
    BY <1>5, <2>4 DEF EndIteration
  <2>5. CASE forEach
    BY <1>5, <2>5 DEF forEach
  <2> QED BY <1>7, <2>1, <2>2, <2>3, <2>4, <2>5 DEF Iterate
<1>8. CASE BeginDestroy \/ EndDestroy
  BY <1>5, <1>8 DEF BeginDestroy, EndDestroy
<1>9. CASE UNCHANGED vars
  <2>1. SameStacks /\ result' = result
    BY <1>9, TableKept DEF vars
  <2> QED BY <2>1, NothingPut
<1>10. Next => \/ Additions \/ Iterate \/ BeginDestroy \/ DestroyElement \/ EndDestroy
               \/ \E ref \in References : Fetch(ref) \/ RemoveElement(ref) \/ InitIteratorInChain(ref)
  BY DEF Next, Accesses, Destroy
<1> QED BY <1>1, <1>2, <1>3, <1>4, <1>6, <1>7, <1>8, <1>9, <1>10

\* Whatever shares a bucket, the elements of a reference form a list of their own: an
\* addition puts the node in front of the lists of its references or behind them, a
\* unique one finds the list of its key empty, and lookups, removals and the destructor
\* take the front.
THEOREM StacksImplemented == ~ AnyGivenId => (Spec => ImplementsStacks)
<1> SUFFICES ASSUME ~ AnyGivenId PROVE Spec => ImplementsStacks
  OBVIOUS
<1>1. IInv /\ [Next]_vars => [Stacks!Next]_(Stacks!vars)
  BY NextStacks
<1>2. Spec => []IInv
  BY Invariance
<1> QED BY <1>1, <1>2, InitStacks, PTL DEF Spec, ImplementsStacks, Stacks!Spec
=============================================================================
