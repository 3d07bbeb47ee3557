----------------------------- MODULE CommonHash -----------------------------
(***************************************************************************)
(* Sdf_cl_commonHash (common/src/sdfhashtable.cpp:12-817): a chained hash  *)
(* table for one thread, with correlation ids, iterators and a destructor  *)
(* that is written with both.  An operation is one step, except that the   *)
(* caller may work on the table between two steps of an iteration, and     *)
(* that the destructor is one step per element.                            *)
(***************************************************************************)
EXTENDS Selection, SequencesExt

CONSTANTS Nodes,            (* addresses of Sdf_st_commonHashElement; a bound *)
          Keys,
          fpHashFunc,       (* the hash value of each key                    *)
          numberOfBuckets,
          U32Max,           (* the largest correlation id                    *)
          GivenIds,         (* those the caller chooses; a bound             *)
          AnyGivenId,       (* may the caller give the id 0 to any key?      *)
          None

Buckets == 0..(numberOfBuckets - 1)
Ids     == 0..U32Max

Results == {"none", "added", "unique", "duplicate"}

ASSUME HashAssumption ==
  /\ numberOfBuckets \in Nat \ {0} /\ U32Max \in Nat
  /\ \A b \in Buckets : U32Max >= numberOfBuckets + b
  /\ GivenIds \subseteq Ids
  /\ fpHashFunc \in [Keys -> Nat]
  /\ IsFiniteSet(Nodes)
  /\ Keys \cap Nat = {} /\ None \notin Nodes \cup Keys \cup Nat
  /\ Nodes \cap Results = {}
  /\ AnyGivenId \in BOOLEAN

VARIABLES usage,             (* elements are found by "key", or by "id" only *)
          ppHashChains,      (* the chain of each bucket, head first         *)
          element,           (* key and id of the nodes                      *)
          bucketCounter, numberOfElements,
          result,            (* what the last method returned                *)
          phase,             (* "live", iterating, or being destroyed        *)
          iterator,
          stayed,            (* the elements in scope when the iteration     *)
                             (* began that the caller has not removed        *)
          visits             (* how often it came to each element            *)

table == <<ppHashChains, element, bucketCounter, numberOfElements>>
iteration == <<phase, iterator, stayed, visits>>
vars == <<usage, table, result, iteration>>

NoElement == [key |-> None, id |-> 0]
NoVisits  == [n \in Nodes |-> 0]

Init == /\ usage \in {"key", "id"}
        /\ ppHashChains = [b \in Buckets |-> <<>>]
        /\ element = [n \in Nodes |-> NoElement]
        /\ bucketCounter = [b \in Buckets |-> 1]
        /\ numberOfElements = 0
        /\ result = "none"
        /\ phase = "live"
        /\ iterator = [pCurrentElement |-> None, currentBucket |-> 0]
        /\ stayed = {} /\ visits = NoVisits

\* Generated ids lead to the bucket of the key, so that an element that has one
\* is found either way; given ids do not.
References == IF usage = "key" THEN Keys \cup (Ids \ {0}) ELSE Ids

Bucket(ref) == (IF ref \in Keys THEN fpHashFunc[ref] ELSE ref) % numberOfBuckets

Matches(n, ref) == IF ref \in Keys THEN element[n].key = ref ELSE element[n].id = ref

Chain(ref) == ppHashChains[Bucket(ref)]

Linked == UNION {Range(ppHashChains[b]) : b \in Buckets}

\* The first element of the chain that matches, or None.
Find(ref) == LET i == SelectInSeq(Chain(ref), LAMBDA n : Matches(n, ref))
             IN  IF i = 0 THEN None ELSE Chain(ref)[i]

-----------------------------------------------------------------------------
(***************************************************************************)
(* Additions                                                               *)
(***************************************************************************)
Counter(b) == IF bucketCounter[b] > (U32Max - b) \div numberOfBuckets THEN 1 ELSE bucketCounter[b]

NewId(b) == Counter(b) * numberOfBuckets + b

CounterAfter(b, id) ==
  LET given == (id - b) \div numberOfBuckets
  IN  IF given < bucketCounter[b] THEN bucketCounter[b]
      ELSE IF given + 1 > (U32Max - b) \div numberOfBuckets THEN 1 ELSE given + 1

Working == phase \in {"live", "table", "chain"}

\* Bound: the nodes.  An address that is used again has not been visited.
Link(b, key, id, AddTo(_, _)) ==
  /\ Working
  /\ \E n \in Nodes \ Linked :
       /\ ppHashChains' = [ppHashChains EXCEPT ![b] = AddTo(@, n)]
       /\ element' = [element EXCEPT ![n] = [key |-> key, id |-> id]]
       /\ visits' = [visits EXCEPT ![n] = 0]
  /\ numberOfElements' = numberOfElements + 1
  /\ UNCHANGED <<usage, phase, iterator, stayed>>

AtHead(chain, n) == <<n>> \o chain
AtEnd(chain, n)  == Append(chain, n)

\* An element without an id can only be found by its key.
LinkPlain(k, AddTo(_, _)) ==
  /\ usage = "key"
  /\ Link(Bucket(k), k, 0, AddTo)
  /\ UNCHANGED bucketCounter

LinkWithId(k, AddTo(_, _)) ==
  /\ Link(Bucket(k), k, NewId(Bucket(k)), AddTo)
  /\ bucketCounter' = [bucketCounter EXCEPT ![Bucket(k)] = Counter(Bucket(k)) + 1]

Add(k)    == LinkPlain(k, AtHead) /\ result' = "added"
AddId(k)  == LinkWithId(k, AtHead) /\ result' = "added"
AddS(k)   == LinkPlain(k, AtEnd) /\ result' = "added"
AddSId(k) == LinkWithId(k, AtEnd) /\ result' = "added"

\* An element with that key exists: pEcode says so.
Duplicate(k) == /\ usage = "key" /\ Working /\ Find(k) # None
                /\ result' = "duplicate"
                /\ UNCHANGED <<usage, table, iteration>>

addUniqueunlock(k) == \/ Duplicate(k)
                      \/ Find(k) = None /\ LinkPlain(k, AtHead) /\ result' = "unique"

addUnique(k) == \/ Duplicate(k)
                \/ Find(k) = None /\ LinkPlain(k, AtHead) /\ result' = "unique"

addUniqueId(k) == \/ Duplicate(k)
                  \/ /\ usage = "key" /\ Find(k) = None
                     /\ LinkWithId(k, AtHead)
                     /\ result' = "unique"

\* Mutant: the bucket is that of the key.
AddGivenByKey(id, k) == /\ usage = "id"
                        /\ id = 0 => AnyGivenId \/ Bucket(k) = 0
                        /\ Link(Bucket(k), k, id, AtHead) /\ result' = "added"
                        /\ UNCHANGED bucketCounter

\* add(dCorrelationId, pKey, pData): the id alone decides the bucket.  The id 0,
\* which means "none" elsewhere, is given to keys of bucket 0 unless AnyGivenId.
AddGiven(id, k) == /\ usage = "id"
                   /\ id = 0 => AnyGivenId \/ Bucket(k) = 0
                   /\ Link(Bucket(id), k, id, AtHead) /\ result' = "added"
                   /\ bucketCounter' = [bucketCounter EXCEPT ![Bucket(id)] = CounterAfter(Bucket(id), id)]

-----------------------------------------------------------------------------
(***************************************************************************)
(* Lookups and removals, by key or by id                                   *)
(***************************************************************************)
Fetch(ref) == /\ Working
              /\ result' = Find(ref)
              /\ UNCHANGED <<usage, table, iteration>>

\* Mutant: the chain is cut at the element.
UnlinkCut(ref) ==
  LET n == Find(ref)
  IN  /\ result' = n
      /\ IF n = None THEN UNCHANGED table
         ELSE /\ ppHashChains' = [ppHashChains EXCEPT ![Bucket(ref)] =
                                    SubSeq(@, 1, SelectInSeq(@, LAMBDA m : m = n) - 1)]
              /\ element' = [element EXCEPT ![n] = NoElement]
              /\ numberOfElements' = numberOfElements - 1
              /\ UNCHANGED bucketCounter

\* The node is taken out of the chain and deleted; its data is returned.
Unlink(ref) ==
  LET n == Find(ref)
  IN  /\ result' = n
      /\ IF n = None THEN UNCHANGED table
         ELSE /\ ppHashChains' = [ppHashChains EXCEPT ![Bucket(ref)] = RemoveFirst(@, n)]
              /\ element' = [element EXCEPT ![n] = NoElement]
              /\ numberOfElements' = numberOfElements - 1
              /\ UNCHANGED bucketCounter

\* The caller does not remove the element that its iterator points to: next would
\* read a deleted node.
RemoveElement(ref) == /\ Working
                      /\ Find(ref) = None \/ Find(ref) # iterator.pCurrentElement
                      /\ Unlink(ref)
                      /\ stayed' = stayed \ {Find(ref)}
                      /\ UNCHANGED <<usage, phase, iterator, visits>>

-----------------------------------------------------------------------------
(***************************************************************************)
(* Iterators                                                               *)
(***************************************************************************)
HeadOf(b) == IF ppHashChains[b] = <<>> THEN None ELSE ppHashChains[b][1]

\* pNext of a node.
After(n) == LET b == CHOOSE c \in Buckets : n \in Range(ppHashChains[c])
                i == SelectInSeq(ppHashChains[b], LAMBDA m : m = n)
            IN  IF i = Len(ppHashChains[b]) THEN None ELSE ppHashChains[b][i + 1]

At(n, b) == [pCurrentElement |-> n, currentBucket |-> b]

\* Mutant: a bucket is stepped over unseen.
NextPositionSkips(n, b) ==
  LET last == numberOfBuckets - 1
  IN  IF n # None /\ After(n) # None THEN At(After(n), b)
      ELSE IF b = last THEN At(None, b)
      ELSE At(HeadOf(last), last)

\* next: the rest of the chain, then the head of the next chain that is not
\* empty, or of the last one.
NextPosition(n, b) ==
  LET last == numberOfBuckets - 1
      stop == Min({c \in (b + 1)..last : ppHashChains[c] # <<>>} \cup {last})
  IN  IF n # None /\ After(n) # None THEN At(After(n), b)
      ELSE IF b = last THEN At(None, b)
      ELSE At(HeadOf(stop), stop)

FirstPosition == IF HeadOf(0) # None THEN At(HeadOf(0), 0) ELSE NextPosition(None, 0)

\* An iteration is at the position; scope is what it has to visit.
Begin(kind, position, scope) ==
  /\ phase' = kind
  /\ iterator' = position
  /\ stayed' = scope
  /\ visits' = [n \in Nodes |-> IF n = position.pCurrentElement THEN 1 ELSE 0]
  /\ UNCHANGED <<usage, table>> /\ result' = "none"

InitIterator == phase = "live" /\ Begin("table", FirstPosition, Linked)

InitIteratorInChain(ref) ==
  phase = "live" /\ Begin("chain", At(HeadOf(Bucket(ref)), Bucket(ref)), Range(Chain(ref)))

Visit(position) ==
  /\ iterator' = position
  /\ visits' = [n \in Nodes |-> visits[n] + IF n = position.pCurrentElement THEN 1 ELSE 0]
  /\ UNCHANGED <<usage, table, phase, stayed>> /\ result' = "none"

NextElement == /\ phase = "table" /\ iterator.pCurrentElement # None
               /\ Visit(NextPosition(iterator.pCurrentElement, iterator.currentBucket))

NextInChain == /\ phase = "chain" /\ iterator.pCurrentElement # None
               /\ Visit(At(After(iterator.pCurrentElement), iterator.currentBucket))

\* The caller stops, at the end of the iteration or before.
Rest == /\ iterator' = At(None, 0)
        /\ stayed' = {} /\ visits' = NoVisits

EndIteration == /\ phase \in {"table", "chain"}
                /\ phase' = "live" /\ Rest
                /\ UNCHANGED <<usage, table>> /\ result' = "none"

\* Where forEach can be: a bucket, and a position in its chain.
Places == UNION {{b} \X (1..Len(ppHashChains[b])) : b \in Buckets}

Occupant(place) == ppHashChains[place[1]][place[2]]

\* The places it has come to when it is at one.
UpTo(place) == {q \in Places : q[1] < place[1] \/ (q[1] = place[1] /\ q[2] <= place[2])}

\* forEach calls the function for one element after the other; it returns at the
\* place where a call fails, or after the last.
forEach == /\ phase = "live"
           /\ \E seen \in {Places} \cup {UpTo(place) : place \in Places} :
                /\ stayed' = IF seen = Places THEN Linked ELSE {Occupant(q) : q \in seen}
                /\ visits' = [n \in Nodes |-> Cardinality({q \in seen : Occupant(q) = n})]
           /\ phase' = "table"
           /\ iterator' = At(None, numberOfBuckets - 1)
           /\ UNCHANGED <<usage, table>> /\ result' = "none"

-----------------------------------------------------------------------------
(***************************************************************************)
(* The destructor: an iteration that removes what it has passed            *)
(***************************************************************************)
BeginDestroy == /\ phase = "live"
                /\ phase' = "destroying"
                /\ iterator' = FirstPosition
                /\ stayed' = Linked /\ visits' = NoVisits
                /\ UNCHANGED <<usage, table>> /\ result' = "none"

\* The key and the id are saved, the iterator goes on, then what they lead to is
\* removed and its data freed: visits counts the frees.
DestroyElement ==
  LET n   == iterator.pCurrentElement
      ref == IF element[n].id = 0 THEN element[n].key ELSE element[n].id
  IN  /\ phase = "destroying" /\ n # None
      /\ iterator' = NextPosition(n, iterator.currentBucket)
      /\ Unlink(ref)
      /\ visits' = [m \in Nodes |-> visits[m] + IF m = Find(ref) THEN 1 ELSE 0]
      /\ UNCHANGED <<usage, phase, stayed>>

EndDestroy == /\ phase = "destroying" /\ iterator.pCurrentElement = None
              /\ phase' = "destroyed"
              /\ UNCHANGED <<usage, table, iterator, stayed, visits>> /\ result' = "none"

-----------------------------------------------------------------------------
Additions == \E k \in Keys : \/ Add(k) \/ AddId(k) \/ AddS(k) \/ AddSId(k)
                             \/ addUnique(k) \/ addUniqueunlock(k) \/ addUniqueId(k)
                             \/ \E id \in GivenIds : AddGiven(id, k)

Accesses == \E ref \in References : Fetch(ref) \/ RemoveElement(ref) \/ InitIteratorInChain(ref)

Iterate == InitIterator \/ NextElement \/ NextInChain \/ EndIteration \/ forEach

Destroy == BeginDestroy \/ DestroyElement \/ EndDestroy

Next == Additions \/ Accesses \/ Iterate \/ Destroy

Spec == Init /\ [][Next]_vars
-----------------------------------------------------------------------------
TypeOK == /\ usage \in {"key", "id"}
          /\ ppHashChains \in [Buckets -> Seq(Nodes)]
          /\ element \in [Nodes -> [key : Keys \cup {None}, id : Ids]]
          /\ bucketCounter \in [Buckets -> Nat]
          /\ numberOfElements \in Nat
          /\ result \in Nodes \cup {None} \cup Results
          /\ phase \in {"live", "table", "chain", "destroying", "destroyed"}
          /\ iterator \in [pCurrentElement : Nodes \cup {None}, currentBucket : Buckets]
          /\ stayed \in SUBSET Nodes
          /\ visits \in [Nodes -> Nat]

\* A node is in one place of one chain, the one that its references lead to, and
\* numberOfElements counts the nodes.
TableIsSound ==
  /\ TypeOK
  /\ \A b, c \in Buckets : \A i \in 1..Len(ppHashChains[b]), j \in 1..Len(ppHashChains[c]) :
       ppHashChains[b][i] = ppHashChains[c][j] => b = c /\ i = j
  /\ \A b \in Buckets : \A n \in Range(ppHashChains[b]) :
       /\ element[n].id # 0 => b = Bucket(element[n].id)
       /\ element[n].id = 0 \/ usage = "key" => b = Bucket(element[n].key)
  /\ numberOfElements = Cardinality(Linked)

\* "Using the iteration routines when elements are removed from the hash gives
\* unpredictable results" (sdfhashtable.h:374-375).  The header promises nothing then;
\* the code does, as long as the caller leaves the element that the iterator is on:
\* with others added and removed on the way, the iteration comes to no element twice,
\* and at its end it has come to each one that was there all the time.
IterationIsComplete ==
  phase \in {"table", "chain"} =>
    /\ \A n \in Linked : visits[n] <= 1
    /\ iterator.pCurrentElement = None => \A n \in stayed : visits[n] = 1

\* "This is the Destructor for the class. It deletes all the elements in the hash
\* table" (sdfhashtable.cpp:44-45): each one once, also the ones that share a key or
\* an id with others, and it never follows a node that it has deleted.
DestructorFreesAll ==
  /\ phase = "destroying" /\ iterator.pCurrentElement # None => iterator.pCurrentElement \in Linked
  /\ phase = "destroyed" => Linked = {} /\ \A n \in stayed : visits[n] = 1

\* Every walk through the table, the caller's or the destructor's, is complete.
WalksAreComplete == IterationIsComplete /\ DestructorFreesAll

-----------------------------------------------------------------------------
Matching(ref) == {n \in Nodes : Matches(n, ref)}

\* The elements of each reference, first found first.
Lists == [ref \in Keys \cup Ids |->
            IF ref \in References THEN Selected(Chain(ref), Matching(ref)) ELSE <<>>]

\* The buckets implement one list per reference.
Stacks == INSTANCE KeyedStacks
            WITH References <- Keys \cup Ids, Elements <- Nodes, Nobody <- None, of <- Lists

ImplementsStacks == Stacks!Spec
=============================================================================
