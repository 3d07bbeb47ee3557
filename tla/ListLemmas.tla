----------------------------- MODULE ListLemmas -----------------------------
(***************************************************************************)
(* What the operations of std::list and std::queue do, for lists of any    *)
(* elements: the queue of messages, the pool's list of thread identities   *)
(* and the queue of connections use them; and how the threads at some      *)
(* places are counted when one of them moves.                              *)
(***************************************************************************)
EXTENDS Integers, SequencesExt, FiniteSetTheorems, WellFoundedInduction, TLAPS

\* push_back adds its argument as the last element.
LEMMA PushBack ==
  ASSUME NEW S, NEW q \in Seq(S), NEW m \in S
  PROVE  /\ Append(q, m) \in Seq(S)
         /\ Len(Append(q, m)) = Len(q) + 1
         /\ Range(Append(q, m)) = Range(q) \cup {m}
         /\ (m \notin Range(q) /\ \A i, j \in 1..Len(q) : i # j => q[i] # q[j])
              => \A i, j \in 1..Len(Append(q, m)) : i # j => Append(q, m)[i] # Append(q, m)[j]
<1> DEFINE s == Append(q, m)
<1>1. s \in Seq(S) /\ Len(s) = Len(q) + 1 /\ s[Len(q) + 1] = m
  OBVIOUS
<1>2. \A i \in 1..Len(q) : s[i] = q[i]
  OBVIOUS
<1>3. Len(q) \in Nat
  OBVIOUS
<1> HIDE DEF s
<1>4. Range(s) = Range(q) \cup {m}
  <2>1. \A i \in 1..Len(s) : i = Len(q) + 1 \/ i \in 1..Len(q)
    BY <1>1, <1>3
  <2>2. \A i \in 1..Len(q) : i \in 1..Len(s)
    BY <1>1, <1>3
  <2>3. Len(q) + 1 \in 1..Len(s)
    BY <1>1, <1>3
  <2> QED BY <1>1, <1>2, <2>1, <2>2, <2>3 DEF Range
<1>5. ASSUME m \notin Range(q), \A i, j \in 1..Len(q) : i # j => q[i] # q[j],
             NEW i \in 1..Len(s), NEW j \in 1..Len(s), i # j
      PROVE  s[i] # s[j]
  <2>1. i = Len(q) + 1 \/ i \in 1..Len(q)
    BY <1>1, <1>3
  <2>2. j = Len(q) + 1 \/ j \in 1..Len(q)
    BY <1>1, <1>3
  <2> QED BY <1>1, <1>2, <1>5, <2>1, <2>2 DEF Range
<1> QED BY <1>1, <1>4, <1>5 DEF s

\* push_front adds its argument as the first element.
LEMMA PushFront ==
  ASSUME NEW S, NEW q \in Seq(S), NEW m \in S
  PROVE  /\ <<m>> \o q \in Seq(S)
         /\ Len(<<m>> \o q) = Len(q) + 1
         /\ Range(<<m>> \o q) = Range(q) \cup {m}
         /\ (m \notin Range(q) /\ \A i, j \in 1..Len(q) : i # j => q[i] # q[j])
              => \A i, j \in 1..Len(<<m>> \o q) : i # j => (<<m>> \o q)[i] # (<<m>> \o q)[j]
<1> DEFINE s == <<m>> \o q
<1>1. s \in Seq(S) /\ Len(s) = Len(q) + 1 /\ s[1] = m
  OBVIOUS
<1>2. \A i \in 1..Len(q) : s[i + 1] = q[i]
  OBVIOUS
<1>3. Range(s) = Range(q) \cup {m}
  <2>1. ASSUME NEW i \in 1..Len(s) PROVE s[i] \in Range(q) \cup {m}
    <3>1. i = 1 \/ i - 1 \in 1..Len(q)
      BY <1>1
    <3>2. i - 1 \in 1..Len(q) => s[i] = q[i - 1]
      BY <1>2
    <3> QED BY <1>1, <3>1, <3>2 DEF Range
  <2>2. ASSUME NEW i \in 1..Len(q) PROVE q[i] \in Range(s)
    <3>1. i + 1 \in 1..Len(s) /\ s[i + 1] = q[i]
      BY <1>1, <1>2
    <3> HIDE DEF s
    <3> QED BY <1>1, <3>1 DEF Range
  <2>3. m \in Range(s)
    BY <1>1 DEF Range
  <2> HIDE DEF s
  <2> QED BY <1>1, <2>1, <2>2, <2>3 DEF Range
<1>4. ASSUME m \notin Range(q), \A i, j \in 1..Len(q) : i # j => q[i] # q[j],
             NEW i \in 1..Len(s), NEW j \in 1..Len(s), i # j
      PROVE  s[i] # s[j]
  <2>1. i = 1 \/ (i - 1 \in 1..Len(q) /\ s[i] = q[i - 1])
    BY <1>1, <1>2
  <2>2. j = 1 \/ (j - 1 \in 1..Len(q) /\ s[j] = q[j - 1])
    BY <1>1, <1>2
  <2> HIDE DEF s
  <2> QED BY <1>1, <1>4, <2>1, <2>2 DEF Range
<1> QED BY <1>1, <1>3, <1>4

\* pop_back removes the last element, and no other.
LEMMA PopBack ==
  ASSUME NEW S, NEW q \in Seq(S), q # <<>>
  PROVE  LET f == SubSeq(q, 1, Len(q) - 1)
         IN  /\ f \in Seq(S)
             /\ Len(f) = Len(q) - 1
             /\ q[Len(q)] \in S
             /\ q[Len(q)] \in Range(q)
             /\ Range(f) \subseteq Range(q)
             /\ (\A i, j \in 1..Len(q) : i # j => q[i] # q[j])
                  => /\ \A i, j \in 1..Len(f) : i # j => f[i] # f[j]
                     /\ Range(f) = Range(q) \ {q[Len(q)]}
<1> DEFINE f == SubSeq(q, 1, Len(q) - 1)
<1>1. Len(q) \in Nat \ {0}
  OBVIOUS
<1>2. f \in Seq(S) /\ Len(f) = Len(q) - 1 /\ \A i \in 1..Len(f) : f[i] = q[i]
  <2>1. \A i \in 1..Len(q) - 1 : q[i] \in S
    BY <1>1
  <2>2. f = [i \in 1..Len(q) - 1 |-> q[i]]
    BY <1>1
  <2> HIDE DEF f
  <2> QED BY <1>1, <2>1, <2>2
<1> HIDE DEF f
<1>3. q[Len(q)] \in S /\ q[Len(q)] \in Range(q) /\ Range(f) \subseteq Range(q)
  BY <1>1, <1>2 DEF Range
<1>4. ASSUME \A i, j \in 1..Len(q) : i # j => q[i] # q[j]
      PROVE  /\ \A i, j \in 1..Len(f) : i # j => f[i] # f[j]
             /\ Range(f) = Range(q) \ {q[Len(q)]}
  BY <1>1, <1>2, <1>4 DEF Range
<1> QED BY <1>2, <1>3, <1>4 DEF f

\* pop removes the first element, and no other.
LEMMA PopFront ==
  ASSUME NEW S, NEW q \in Seq(S), q # <<>>
  PROVE  /\ Tail(q) \in Seq(S)
         /\ Len(q) \in Nat \ {0}
         /\ Len(Tail(q)) = Len(q) - 1
         /\ \A i \in 1..Len(Tail(q)) : Tail(q)[i] = q[i + 1] /\ i + 1 \in 1..Len(q)
         /\ Head(q) \in S
         /\ Head(q) = q[1]
         /\ Head(q) \in Range(q)
         /\ Range(Tail(q)) \subseteq Range(q)
<1>1. Len(q) \in Nat \ {0}
  OBVIOUS
<1>2. Tail(q) \in Seq(S) /\ Len(Tail(q)) = Len(q) - 1 /\ Head(q) = q[1] /\ Head(q) \in S
  OBVIOUS
<1>3. \A i \in 1..Len(Tail(q)) : Tail(q)[i] = q[i + 1] /\ i + 1 \in 1..Len(q)
  BY <1>1, <1>2
<1>4. Range(Tail(q)) \subseteq Range(q)
  BY <1>1, <1>2, <1>3 DEF Range
<1>5. Head(q) \in Range(q)
  BY <1>1, <1>2 DEF Range
<1> QED BY <1>1, <1>2, <1>3, <1>4, <1>5

-----------------------------------------------------------------------------
\* Two sets of threads that differ at most in one thread t, because t is the one that has
\* moved, differ by one in number if t has left or come, and are equally many if not.
LEMMA OneMoves ==
  ASSUME NEW T, IsFiniteSet(T), NEW before \in SUBSET T, NEW after \in SUBSET T, NEW t,
         \A u \in T \ {t} : u \in before <=> u \in after
  PROVE  /\ Cardinality(before) \in Nat
         /\ Cardinality(after) \in Nat
         /\ Cardinality(after) = Cardinality(before) + (IF t \in after THEN 1 ELSE 0)
                                                     - (IF t \in before THEN 1 ELSE 0)
<1> DEFINE rest == before \ {t}
<1>1. IsFiniteSet(before) /\ Cardinality(before) \in Nat
  BY FS_Subset, FS_CardinalityType
<1>2. after = (IF t \in after THEN rest \cup {t} ELSE rest) /\ t \notin rest
  OBVIOUS
<1>3. IsFiniteSet(rest) /\ Cardinality(rest) = Cardinality(before) - (IF t \in before THEN 1 ELSE 0)
  BY <1>1, FS_RemoveElement
<1> HIDE DEF rest
<1>4. Cardinality(rest) \in Nat
  BY <1>3, FS_CardinalityType
<1>5. Cardinality(after) = Cardinality(rest) + (IF t \in after THEN 1 ELSE 0)
  BY <1>2, <1>3, <1>4, FS_AddElement
<1> QED BY <1>1, <1>3, <1>4, <1>5
-----------------------------------------------------------------------------
\* Of natural numbers there is a least one, and Min gives it.
LEMMA LeastNatural ==
  ASSUME NEW T \in SUBSET Nat, T # {}
  PROVE  Min(T) \in T /\ \A y \in T : Min(T) <= y
<1> DEFINE R == {ss \in Nat \X Nat : ss[1] < ss[2]}
<1>0. IsWellFoundedOn(R, Nat)
  BY NatLessThanWellFounded, Zenon DEF OpToRel
<1>1. PICK x \in T : \A y \in T : <<y, x>> \notin R
  <2> HIDE DEF R
  <2> QED BY <1>0, WFMin
<1>2. \A y \in T : x <= y
  <2> SUFFICES ASSUME NEW y \in T, y < x PROVE FALSE
    OBVIOUS
  <2>1. <<y, x>> \in Nat \X Nat /\ <<y, x>>[1] < <<y, x>>[2]
    OBVIOUS
  <2>2. <<y, x>> \in R
    BY <2>1, Zenon
  <2> QED BY <1>1, <2>2
<1> QED BY <1>2 DEF Min

\* What holds of 0, and of every number after one that it holds of, holds up to N.
LEMMA Stepwise ==
  ASSUME NEW N \in Nat, NEW B \in SUBSET (0..N), 0 \in B,
         \A i \in 0..(N - 1) : i \in B => i + 1 \in B
  PROVE  B = 0..N
<1> DEFINE T == (0..N) \ B
<1>1. ASSUME T # {} PROVE FALSE
  <2>1. T \in SUBSET Nat
    OBVIOUS
  <2>2. Min(T) \in T /\ \A y \in T : Min(T) <= y
    BY <1>1, <2>1, LeastNatural
  <2> DEFINE m == Min(T)
  <2> HIDE DEF m
  <2>3. m \in T /\ \A y \in T : m <= y
    BY <2>2 DEF m
  <2>4. m # 0 /\ m - 1 \in 0..(N - 1) /\ m - 1 \in B
    BY <2>3
  <2> QED BY <2>3, <2>4
<1> QED BY <1>1

\* No element is in the list twice.
Distinct(q) == \A i, j \in 1..Len(q) : i # j => q[i] # q[j]

\* An element stands somewhere before another.
Precedes(q, x, y) == \E i, j \in 1..Len(q) : i < j /\ q[i] = x /\ q[j] = y

\* In a list without repetitions the order is strict, and total.
LEMMA OrderIsStrict ==
  ASSUME NEW S, NEW q \in Seq(S), Distinct(q), NEW x \in Range(q), NEW y \in Range(q)
  PROVE  /\ Precedes(q, x, y) => ~ Precedes(q, y, x)
         /\ x # y <=> Precedes(q, x, y) \/ Precedes(q, y, x)
<1>1. PICK i \in 1..Len(q), j \in 1..Len(q) : q[i] = x /\ q[j] = y
  BY DEF Range
<1>2. Len(q) \in Nat
  OBVIOUS
<1>3. Precedes(q, x, y) <=> i < j
  BY <1>1, <1>2 DEF Precedes, Distinct
<1>4. Precedes(q, y, x) <=> j < i
  BY <1>1, <1>2 DEF Precedes, Distinct
<1>5. x # y <=> i # j
  BY <1>1 DEF Distinct
<1> QED BY <1>2, <1>3, <1>4, <1>5

\* What comes after an element: the next one, and what comes after that.
LEMMA AfterNext ==
  ASSUME NEW S, NEW q \in Seq(S), Distinct(q), NEW i \in 1..Len(q)
  PROVE  /\ i = Len(q) => \A y : ~ Precedes(q, q[i], y)
         /\ i # Len(q) =>
              /\ i + 1 \in 1..Len(q)
              /\ \A y : Precedes(q, q[i], y) <=> y = q[i + 1] \/ Precedes(q, q[i + 1], y)
         /\ ~ Precedes(q, q[i], q[i])
         /\ i = 1 => \A y : y \in Range(q) <=> y = q[1] \/ Precedes(q, q[1], y)
<1>1. Len(q) \in Nat
  OBVIOUS
<1>2. \A k \in 1..Len(q) : \A y : Precedes(q, q[k], y) <=> \E j \in 1..Len(q) : k < j /\ q[j] = y
  BY DEF Precedes, Distinct
<1>3. i # Len(q) => i + 1 \in 1..Len(q)
  BY <1>1
<1>4. i = Len(q) => \A y : ~ Precedes(q, q[i], y)
  BY <1>1, <1>2
<1>5. ASSUME i # Len(q), NEW y
      PROVE  Precedes(q, q[i], y) <=> y = q[i + 1] \/ Precedes(q, q[i + 1], y)
  <2>1. \A j \in 1..Len(q) : i < j <=> j = i + 1 \/ i + 1 < j
    BY <1>1
  <2> QED BY <1>2, <1>3, <1>5, <2>1
<1>6. ~ Precedes(q, q[i], q[i])
  <2>1. q[i] \in Range(q)
    BY DEF Range
  <2> QED BY <2>1, OrderIsStrict
<1>7. ASSUME i = 1, NEW y PROVE y \in Range(q) <=> y = q[1] \/ Precedes(q, q[1], y)
  <2>1. \A j \in 1..Len(q) : j = 1 \/ 1 < j
    BY <1>1
  <2>2. y \in Range(q) <=> \E j \in 1..Len(q) : q[j] = y
    BY DEF Range
  <2> QED BY <1>2, <1>7, <2>1, <2>2
<1> QED BY <1>3, <1>4, <1>5, <1>6, <1>7

\* The element that precedes all others is the first.
LEMMA FirstInOrder ==
  ASSUME NEW S, NEW q \in Seq(S), Distinct(q), NEW m \in Range(q),
         \A y \in Range(q) : y = m \/ Precedes(q, m, y)
  PROVE  q # <<>> /\ q[1] = m
<1>1. 1 \in 1..Len(q) /\ q # <<>>
  BY DEF Range
<1>2. q[1] \in Range(q) /\ \A y : y \in Range(q) <=> y = q[1] \/ Precedes(q, q[1], y)
  BY <1>1, AfterNext DEF Range
<1>3. Precedes(q, q[1], m) => ~ Precedes(q, m, q[1])
  BY <1>2, OrderIsStrict
<1> QED BY <1>1, <1>2, <1>3

\* An element that is put at an end leaves the order of the others as it is.
LEMMA PushedOrder ==
  ASSUME NEW S, NEW q \in Seq(S), NEW m \in S,
         NEW r \in {Append(q, m), <<m>> \o q}, NEW x, NEW y
  PROVE  /\ Precedes(q, x, y) => Precedes(r, x, y)
         /\ Precedes(r, x, y) => Precedes(q, x, y) \/ x = m \/ y = m
<1>1. Len(q) \in Nat /\ Len(r) = Len(q) + 1
  OBVIOUS
<1>2. CASE r = Append(q, m)
  <2>1. \A i \in 1..Len(r) : (i = Len(q) + 1 /\ r[i] = m) \/ (i \in 1..Len(q) /\ r[i] = q[i])
    BY <1>1, <1>2
  <2>2. \A i \in 1..Len(q) : i \in 1..Len(r) /\ r[i] = q[i]
    BY <1>1, <1>2
  <2> QED BY <2>1, <2>2 DEF Precedes
<1>3. CASE r = <<m>> \o q
  <2>1. \A i \in 1..Len(r) : (i = 1 /\ r[i] = m) \/ (i - 1 \in 1..Len(q) /\ r[i] = q[i - 1])
    BY <1>1, <1>3
  <2>2. \A i \in 1..Len(q) : i + 1 \in 1..Len(r) /\ r[i + 1] = q[i]
    BY <1>1, <1>3
  <2>3. ASSUME NEW i \in 1..Len(q), NEW j \in 1..Len(q), i < j, q[i] = x, q[j] = y
        PROVE  Precedes(r, x, y)
    <3>1. i + 1 < j + 1
      BY <2>3
    <3> QED BY <2>2, <2>3, <3>1 DEF Precedes
  <2>4. ASSUME NEW i \in 1..Len(r), NEW j \in 1..Len(r), i < j, r[i] = x, r[j] = y
        PROVE  Precedes(q, x, y) \/ x = m \/ y = m
    <3>1. i - 1 < j - 1
      BY <1>1, <2>4
    <3> QED BY <2>1, <2>4, <3>1 DEF Precedes
  <2> QED BY <2>3, <2>4 DEF Precedes
<1> QED BY <1>2, <1>3

\* The position of an element, found from the front.
LEMMA PositionOf ==
  ASSUME NEW S, NEW q \in Seq(S), NEW m \in Range(q)
  PROVE  LET k == SelectInSeq(q, LAMBDA v : v = m)
         IN  k \in 1..Len(q) /\ q[k] = m
<1> DEFINE T == {i \in 1..Len(q) : q[i] = m}
<1>1. T # {} /\ T \in SUBSET Nat
  BY DEF Range
<1>2. Min(T) \in T
  BY <1>1, LeastNatural
<1> QED BY <1>1, <1>2 DEF SelectInSeq

\* To take an element out moves those behind it up.
LEMMA TakenOut ==
  ASSUME NEW S, NEW q \in Seq(S), NEW m \in Range(q)
  PROVE  \E k \in 1..Len(q) :
           /\ q[k] = m
           /\ RemoveFirst(q, m) \in Seq(S) /\ Len(RemoveFirst(q, m)) = Len(q) - 1
           /\ \A i \in 1..(Len(q) - 1) :
                RemoveFirst(q, m)[i] = IF i < k THEN q[i] ELSE q[i + 1]
<1> DEFINE k == SelectInSeq(q, LAMBDA v : v = m)
           r == RemoveFirst(q, m)
<1>1. k \in 1..Len(q) /\ q[k] = m
  BY PositionOf
<1>2. r = SubSeq(q, 1, k - 1) \o SubSeq(q, k + 1, Len(q))
  <2>1. \E i \in 1..Len(q) : q[i] = m
    BY <1>1
  <2> QED BY <2>1, Zenon DEF RemoveFirst, RemoveAt
<1> HIDE DEF k, r
<1>3. Len(q) \in Nat /\ k \in Nat
  BY <1>1
<1> DEFINE f == SubSeq(q, 1, k - 1)
           g == SubSeq(q, k + 1, Len(q))
<1>4. f \in Seq(S) /\ Len(f) = k - 1 /\ \A i \in 1..(k - 1) : f[i] = q[i]
  <2>1. \A i \in 1..(k - 1) : q[i] \in S
    BY <1>1, <1>3
  <2>2. f = [i \in 1..(k - 1) |-> q[i]]
    BY <1>1, <1>3
  <2> HIDE DEF f
  <2> QED BY <1>1, <1>3, <2>1, <2>2
<1>5. g \in Seq(S) /\ Len(g) = Len(q) - k /\ \A i \in 1..(Len(q) - k) : g[i] = q[i + k]
  <2>1. \A i \in 1..(Len(q) - k) : q[i + k] \in S
    BY <1>1, <1>3
  <2>2. g = [i \in 1..(Len(q) - k) |-> q[i + k]]
    BY <1>1, <1>3
  <2> HIDE DEF g
  <2> QED BY <1>1, <1>3, <2>1, <2>2
<1>6. r = f \o g
  BY <1>2
<1> HIDE DEF f, g
<1>7. r \in Seq(S) /\ Len(r) = Len(q) - 1
  BY <1>1, <1>3, <1>4, <1>5, <1>6
<1>8. ASSUME NEW i \in 1..(Len(q) - 1) PROVE r[i] = IF i < k THEN q[i] ELSE q[i + 1]
  <2>1. CASE i < k
    <3>1. i \in 1..(k - 1) /\ i \in 1..Len(f)
      BY <1>1, <1>4, <1>7, <2>1
    <3>2. r[i] = f[i]
      BY <1>4, <1>5, <1>6, <3>1
    <3> QED BY <1>4, <2>1, <3>1, <3>2
  <2>2. CASE ~ (i < k)
    <3>1. r[i] = g[i - (k - 1)] /\ i - (k - 1) \in 1..(Len(q) - k)
      BY <1>1, <1>3, <1>4, <1>5, <1>6, <1>7, <2>2
    <3> QED BY <1>1, <1>3, <1>5, <1>7, <2>2, <3>1
  <2> QED BY <2>1, <2>2
<1> QED BY <1>1, <1>7, <1>8 DEF r

\* To take an element out leaves the others, in their order.
LEMMA TakeOut ==
  ASSUME NEW S, NEW q \in Seq(S), NEW m \in Range(q), Distinct(q)
  PROVE  /\ RemoveFirst(q, m) \in Seq(S)
         /\ Distinct(RemoveFirst(q, m))
         /\ Range(RemoveFirst(q, m)) = Range(q) \ {m}
         /\ \A x, y : Precedes(RemoveFirst(q, m), x, y) <=> Precedes(q, x, y) /\ x # m /\ y # m
<1> DEFINE r == RemoveFirst(q, m)
<1>0. PICK k \in 1..Len(q) :
        /\ q[k] = m
        /\ r \in Seq(S) /\ Len(r) = Len(q) - 1
        /\ \A i \in 1..(Len(q) - 1) : r[i] = IF i < k THEN q[i] ELSE q[i + 1]
  BY TakenOut
<1> HIDE DEF r
<1>1. k \in 1..Len(q) /\ q[k] = m
  BY <1>0
<1>3. Len(q) \in Nat /\ k \in Nat
  BY <1>1
<1>7. r \in Seq(S) /\ Len(r) = Len(q) - 1
  BY <1>0
<1> DEFINE old(i) == IF i < k THEN i ELSE i + 1
<1>8. \A i \in 1..Len(r) : old(i) \in 1..Len(q) /\ old(i) # k /\ r[i] = q[old(i)]
  <2> SUFFICES ASSUME NEW i \in 1..Len(r) PROVE old(i) \in 1..Len(q) /\ old(i) # k /\ r[i] = q[old(i)]
    OBVIOUS
  <2>1. r[i] = q[old(i)]
    BY <1>0, <1>7
  <2> QED BY <1>1, <1>3, <1>7, <2>1
<1>9. \A i, j \in 1..Len(r) : i < j => old(i) < old(j)
  BY <1>1, <1>7
<1>10. \A l \in 1..Len(q) : l # k => \E i \in 1..Len(r) : old(i) = l
  <2> SUFFICES ASSUME NEW l \in 1..Len(q), l # k PROVE \E i \in 1..Len(r) : old(i) = l
    OBVIOUS
  <2>1. CASE l < k
    <3>1. l \in 1..Len(r) /\ old(l) = l
      BY <1>1, <1>3, <1>7, <2>1
    <3> QED BY <3>1
  <2>2. CASE l > k
    <3>1. l - 1 \in 1..Len(r) /\ old(l - 1) = l
      BY <1>1, <1>3, <1>7, <2>2
    <3> QED BY <3>1
  <2> QED BY <1>1, <2>1, <2>2
<1> HIDE DEF old
<1>11. Distinct(r)
  <2>1. \A i, j \in 1..Len(r) : i # j => old(i) # old(j)
    BY <1>1, <1>3 DEF old
  <2> QED BY <1>8, <2>1 DEF Distinct
<1>12. Range(r) = Range(q) \ {m}
  <2>0. Range(r) = {r[i] : i \in 1..Len(r)}
    BY <1>7 DEF Range
  <2>1. \A i \in 1..Len(r) : r[i] \in Range(q) \ {m}
    BY <1>1, <1>8 DEF Distinct, Range
  <2>2. ASSUME NEW x \in Range(q) \ {m} PROVE x \in Range(r)
    <3>1. PICK l \in 1..Len(q) : q[l] = x
      BY <2>2 DEF Range
    <3>2. PICK i \in 1..Len(r) : old(i) = l
      BY <1>1, <1>10, <3>1
    <3> QED BY <1>8, <2>0, <3>1, <3>2
  <2> QED BY <2>0, <2>1, <2>2
<1>13. ASSUME NEW x, NEW y
       PROVE  Precedes(r, x, y) <=> Precedes(q, x, y) /\ x # m /\ y # m
  <2>1. Precedes(r, x, y) => Precedes(q, x, y)
    BY <1>8, <1>9 DEF Precedes
  <2>2. Precedes(r, x, y) => x \in Range(r) /\ y \in Range(r)
    BY DEF Precedes, Range
  <2>3. Precedes(q, x, y) => x \in Range(q) /\ y \in Range(q)
    BY DEF Precedes, Range
  <2>4. ASSUME Precedes(q, x, y), x # m, y # m PROVE Precedes(r, x, y)
    <3>1. x \in Range(r) /\ y \in Range(r) /\ x \in Range(q) /\ y \in Range(q)
      BY <1>12, <2>3, <2>4
    <3>2. x # y /\ ~ Precedes(q, y, x)
      BY <2>4, <3>1, OrderIsStrict
    <3>3. Precedes(r, x, y) \/ Precedes(r, y, x)
      BY <1>7, <1>11, <3>1, <3>2, OrderIsStrict
    <3>4. Precedes(r, y, x) => Precedes(q, y, x)
      BY <1>8, <1>9 DEF Precedes
    <3> QED BY <3>2, <3>3, <3>4
  <2> QED BY <1>12, <2>1, <2>2, <2>4
<1> QED BY <1>7, <1>11, <1>12, <1>13 DEF r

-----------------------------------------------------------------------------
\* A number made of a counter and a bucket leads back to the two.
LEMMA CounterAndBucket ==
  ASSUME NEW n \in Nat \ {0}, NEW c \in Nat, NEW b \in 0..(n - 1)
  PROVE  /\ (c * n + b) % n = b
         /\ (c * n + b) \div n = c
<1>1. (c * n + b) % n = b
  OBVIOUS
<1>2. (c * n + b) \div n = c
  OBVIOUS
<1> QED BY <1>1, <1>2

\* A counter within the limit gives a number within the largest.
LEMMA CounterFits ==
  ASSUME NEW n \in Nat \ {0}, NEW u \in Nat, NEW c \in Nat, NEW b \in 0..(n - 1), u >= b,
         c <= (u - b) \div n
  PROVE  c * n + b \in 0..u
OBVIOUS
=============================================================================
