--------------------------- MODULE XmlTreeProofs ---------------------------
(***************************************************************************)
(* Proofs about XmlTree.tla, for any nodes, values and attributes.         *)
(***************************************************************************)
EXTENDS XmlTree, ListLemmas

-----------------------------------------------------------------------------
(***************************************************************************)
(* Steps                                                                   *)
(***************************************************************************)
\* What is made by repeating the step g, N times from a, exists.
Iterates(f, S, a, g, N) == f \in [0..N -> S] /\ f[0] = a /\ \A i \in 1..N : f[i] = g[f[i - 1]]

LEMMA Iterated ==
  ASSUME NEW S, NEW a \in S, NEW g \in [S -> S], NEW N \in Nat
  PROVE  \E f : Iterates(f, S, a, g, N)
<1> DEFINE B == {k \in 0..N : \E f \in [0..k -> S] : f[0] = a /\ \A i \in 1..k : f[i] = g[f[i - 1]]}
<1>1. 0 \in B
  <2>1. [i \in 0..0 |-> a] \in [0..0 -> S]
    OBVIOUS
  <2>2. [i \in 0..0 |-> a][0] = a /\ \A i \in 1..0 : FALSE
    OBVIOUS
  <2>3. \E f \in [0..0 -> S] : f[0] = a /\ \A i \in 1..0 : f[i] = g[f[i - 1]]
    BY <2>1, <2>2
  <2> QED BY <2>3
<1>2. ASSUME NEW k \in 0..(N - 1), k \in B PROVE k + 1 \in B
  <2>1. PICK f \in [0..k -> S] : f[0] = a /\ \A i \in 1..k : f[i] = g[f[i - 1]]
    BY <1>2
  <2> DEFINE e == [i \in 0..(k + 1) |-> IF i = k + 1 THEN g[f[k]] ELSE f[i]]
  <2>2. e \in [0..(k + 1) -> S]
    OBVIOUS
  <2>3. e[0] = a
    BY <2>1
  <2>4. ASSUME NEW i \in 1..(k + 1) PROVE e[i] = g[e[i - 1]]
    <3>1. CASE i = k + 1
      BY <3>1
    <3>2. CASE i # k + 1
      BY <2>1, <3>2
    <3> QED BY <3>1, <3>2
  <2> HIDE DEF e
  <2> QED BY <2>2, <2>3, <2>4
<1>5. B \in SUBSET (0..N)
  OBVIOUS
<1> HIDE DEF B
<1>3. B = 0..N
  BY <1>1, <1>2, <1>5, Stepwise
<1>4. N \in B
  BY <1>3
<1> QED BY <1>4 DEF B, Iterates

\* A set that only grows, as its last step did, does not grow any more after as many
\* steps as there are elements.
LEMMA Saturates ==
  ASSUME NEW X, IsFiniteSet(X), X # {}, NEW R, NEW N \in Nat, N = Cardinality(X),
         \A i \in 0..N : R[i] \subseteq X, R[0] # {},
         \A i \in 0..(N - 1) : R[i] \subseteq R[i + 1],
         \A i \in 0..(N - 2) : R[i] = R[i + 1] => R[i + 1] = R[i + 2]
  PROVE  N # 0 /\ R[N - 1] = R[N]
<1>1. N # 0
  BY FS_EmptySet
<1>2. \A i \in 0..N : IsFiniteSet(R[i]) /\ Cardinality(R[i]) \in Nat
  BY FS_Subset, FS_CardinalityType
<1> DEFINE B == {i \in 0..(N - 1) : Cardinality(R[i]) >= i + 1 \/ R[i] = R[i + 1]}
<1>3. 0 \in B
  <2>1. Cardinality(R[0]) # 0
    BY <1>2, FS_EmptySet
  <2> QED BY <1>1, <1>2, <2>1
<1>4. ASSUME NEW i \in 0..(N - 2), i \in B PROVE i + 1 \in B
  <2>1. i \in 0..(N - 1) /\ i + 1 \in 0..(N - 1) /\ i \in 0..N /\ i + 1 \in 0..N /\ (i + 1) + 1 = i + 2
    OBVIOUS
  <2>2. CASE R[i] = R[i + 1]
    BY <2>1, <2>2
  <2>3. CASE R[i] # R[i + 1]
    <3>1. Cardinality(R[i]) < Cardinality(R[i + 1])
      BY <1>2, <2>1, <2>3, FS_Subset
    <3> QED BY <1>2, <1>4, <2>1, <2>3, <3>1
  <2> QED BY <2>2, <2>3
<1>5. B = 0..(N - 1)
  <2> HIDE DEF B
  <2>1. N - 1 \in Nat /\ (N - 1) - 1 = N - 2 /\ B \in SUBSET (0..(N - 1))
    BY <1>1 DEF B
  <2> QED BY <1>3, <1>4, <2>1, Stepwise
<1>6. CASE Cardinality(R[N - 1]) >= N
  <2>1. N - 1 \in 0..N /\ N \in 0..N /\ N - 1 \in 0..(N - 1) /\ (N - 1) + 1 = N
    BY <1>1
  <2>2. R[N - 1] = X
    BY <1>2, <1>6, <2>1, FS_Subset
  <2> QED BY <1>1, <2>1, <2>2, ZenonT(30)
<1>7. CASE R[N - 1] = R[(N - 1) + 1]
  BY <1>1, <1>7
<1>8. N - 1 \in B
  BY <1>1, <1>5
<1> QED BY <1>1, <1>6, <1>7, <1>8

-----------------------------------------------------------------------------
(***************************************************************************)
(* The lists of children, and what is below a node                         *)
(***************************************************************************)
\* The children of p in the heap h are the sequence s.
IsList(h, p, s) ==
  /\ Distinct(s)
  /\ h[p].firstChild = Nth(s, 1) /\ h[p].lastChild = Nth(s, Len(s))
  /\ \A i \in 1..Len(s) : /\ h[s[i]].parent = p
                          /\ h[s[i]].prev = Nth(s, i - 1) /\ h[s[i]].next = Nth(s, i + 1)

\* Whoever goes from a node of S to its parent, again and again, leaves S.
NoCycle(h) == \A S \in SUBSET Nodes : S # {} => \E m \in S : h[m].parent \notin S

\* K are the lists of children of the heap h.  The node c, if there is one, is in no list
\* whatever it says: it was taken out, and is about to be deleted.
Forest(h, K, c) ==
  /\ h \in [Nodes -> NodeType] /\ K \in [Nodes -> Seq(Nodes)]
  /\ \A p \in Nodes : IsList(h, p, K[p]) /\ c \notin Range(K[p])
  /\ \A n \in Nodes \ {c} : IF h[n].parent = Null THEN h[n].prev = Null /\ h[n].next = Null
                            ELSE n \in Range(K[h[n].parent])
  /\ \A n \in Nodes : h[n].type = "free" => h[n] = Freed
  /\ NoCycle(h)

LEMMA NthIs ==
  ASSUME NEW s \in Seq(Nodes)
  PROVE  /\ Len(s) \in Nat
         /\ \A i : Nth(s, i) = IF i \in 1..Len(s) THEN s[i] ELSE Null
         /\ \A i \in 1..Len(s) : s[i] \in Nodes /\ s[i] \in Range(s) /\ s[i] # Null
         /\ \A n \in Range(s) : \E i \in 1..Len(s) : s[i] = n
  BY TreeAssumption DEF Nth, Range

\* The set that the definition of Subtree makes, step by step.
Steps(h, n, a) == LET found == a \ {Null}
                  IN  found \cup {h[m].firstChild : m \in found} \cup {h[m].next : m \in found \ {n}}

LEMMA SubtreeIs ==
  ASSUME NEW h, NEW K, NEW n \in Nodes, NEW c \in {n, Null}, Forest(h, K, c)
  PROVE  LET D == Subtree(h, n)
         IN  /\ n \in D /\ D \subseteq Nodes
             /\ \A m \in D \ {n} : h[m].parent \in D
             /\ \A m \in D : Range(K[m]) \subseteq D /\ n \notin Range(K[m])
             /\ \A S : (n \in S /\ \A m \in S : m \in Nodes => Range(K[m]) \subseteq S) => D \subseteq S
<1> DEFINE N == Cardinality(Nodes)
           X == Nodes \cup {Null}
           reach == CHOOSE r : r = [i \in 0..N |-> IF i = 0 THEN {n}
                     ELSE LET found == r[i - 1] \ {Null}
                          IN  found \cup {h[m].firstChild : m \in found} \cup {h[m].next : m \in found \ {n}}]
           D == Subtree(h, n)
           R == [i \in 0..N |-> reach[i] \ {Null}]
<1>1. /\ IsFiniteSet(Nodes) /\ Null \notin Nodes /\ N \in Nat
      /\ h \in [Nodes -> NodeType] /\ K \in [Nodes -> Seq(Nodes)]
      /\ \A m \in Nodes : h[m].firstChild \in X /\ h[m].next \in X /\ h[m].parent \in X
  BY TreeAssumption, FS_CardinalityType DEF Forest, NodeType
<1>2. D = reach[N] \ {Null}
  BY DEF Subtree
<1>3. /\ reach[0] = {n}
      /\ \A i \in 1..N : reach[i] = Steps(h, n, reach[i - 1])
  <2> DEFINE g == [a \in SUBSET X |-> Steps(h, n, a)]
  <2>1. g \in [SUBSET X -> SUBSET X]
    BY <1>1 DEF Steps
  <2>2. {n} \in SUBSET X
    OBVIOUS
  <2>7. \A a \in SUBSET X : g[a] = Steps(h, n, a)
    OBVIOUS
  <2> HIDE DEF g, N, X
  <2>3. PICK f \in [0..N -> SUBSET X] : f[0] = {n} /\ \A i \in 1..N : f[i] = g[f[i - 1]]
    <3>1. \E f : Iterates(f, SUBSET X, {n}, g, N)
      BY <1>1, <2>1, <2>2, Iterated
    <3> QED BY <3>1 DEF Iterates
  <2>4. \A i \in 1..N : f[i] = Steps(h, n, f[i - 1])
    <3> SUFFICES ASSUME NEW i \in 1..N PROVE f[i] = Steps(h, n, f[i - 1])
      OBVIOUS
    <3>1. i - 1 \in 0..N
      BY <1>1
    <3>2. f[i - 1] \in SUBSET X
      BY <2>3, <3>1
    <3>3. f[i] = g[f[i - 1]]
      BY <2>3
    <3>4. g[f[i - 1]] = Steps(h, n, f[i - 1])
      BY <2>7, <3>2
    <3> QED BY <3>3, <3>4
  <2>5. f = [i \in 0..N |-> IF i = 0 THEN {n} ELSE Steps(h, n, f[i - 1])]
    <3>1. ASSUME NEW i \in 0..N PROVE f[i] = IF i = 0 THEN {n} ELSE Steps(h, n, f[i - 1])
      <4>1. i = 0 \/ i \in 1..N
        BY <1>1
      <4> QED BY <2>3, <2>4, <4>1
    <3>2. f = [i \in 0..N |-> f[i]]
      BY <2>3
    <3> QED BY <3>1, <3>2
  <2>6. reach = [i \in 0..N |-> IF i = 0 THEN {n} ELSE Steps(h, n, reach[i - 1])]
    BY <2>5 DEF Steps
  <2> HIDE DEF reach
  <2>8. 0 \in 0..N /\ \A i \in 1..N : i \in 0..N /\ i # 0
    BY <1>1
  <2>9. \A i \in 0..N : reach[i] = IF i = 0 THEN {n} ELSE Steps(h, n, reach[i - 1])
    BY <2>6
  <2> QED BY <2>8, <2>9
<1> HIDE DEF reach
<1>4. /\ \A i \in 0..N : R[i] = reach[i] \ {Null}
      /\ R[0] = {n} /\ D = R[N]
  BY <1>1, <1>2, <1>3
<1> HIDE DEF R, D
<1> DEFINE B == {i \in 0..N : R[i] \subseteq Nodes}
<1>5. \A i \in 0..(N - 1) :
        /\ R[i + 1] = Steps(h, n, R[i]) \ {Null}
        /\ R[i] \subseteq R[i + 1]
        /\ \A m \in R[i] : h[m].firstChild # Null => h[m].firstChild \in R[i + 1]
        /\ \A m \in R[i] \ {n} : h[m].next # Null => h[m].next \in R[i + 1]
        /\ \A x \in R[i + 1] : \/ x \in R[i]
                               \/ \E m \in R[i] : x = h[m].firstChild
                               \/ \E m \in R[i] \ {n} : x = h[m].next
  <2> SUFFICES ASSUME NEW i \in 0..(N - 1)
               PROVE  /\ R[i + 1] = Steps(h, n, R[i]) \ {Null}
                      /\ R[i] \subseteq R[i + 1]
                      /\ \A m \in R[i] : h[m].firstChild # Null => h[m].firstChild \in R[i + 1]
                      /\ \A m \in R[i] \ {n} : h[m].next # Null => h[m].next \in R[i + 1]
                      /\ \A x \in R[i + 1] : \/ x \in R[i]
                                             \/ \E m \in R[i] : x = h[m].firstChild
                                             \/ \E m \in R[i] \ {n} : x = h[m].next
    OBVIOUS
  <2>1. i + 1 \in 1..N /\ i \in 0..N /\ i + 1 \in 0..N /\ (i + 1) - 1 = i
    BY <1>1
  <2>2. reach[i + 1] = Steps(h, n, reach[i])
    BY <1>3, <2>1
  <2>3. R[i] = reach[i] \ {Null} /\ R[i + 1] = reach[i + 1] \ {Null}
    BY <1>4, <2>1
  <2>4. R[i + 1] = Steps(h, n, R[i]) \ {Null}
    BY <2>2, <2>3 DEF Steps
  <2>5. Null \notin R[i]
    BY <2>3
  <2> QED BY <2>4, <2>5 DEF Steps
<1>6. \A i \in 0..N : R[i] \subseteq Nodes
  <2>1. 0 \in B /\ B \in SUBSET (0..N)
    BY <1>1, <1>4
  <2>2. ASSUME NEW i \in 0..(N - 1), i \in B PROVE i + 1 \in B
    <3>1. R[i + 1] \subseteq Nodes
      <4>1. R[i + 1] \subseteq X /\ Null \notin R[i + 1]
        <5>1. i \in 0..N /\ R[i] \subseteq Nodes
          BY <2>2
        <5>2. ASSUME NEW x \in R[i + 1] PROVE x \in X
          <6>1. \/ x \in R[i]
                \/ \E m \in R[i] : x = h[m].firstChild
                \/ \E m \in R[i] \ {n} : x = h[m].next
            BY <1>5, <2>2
          <6> QED BY <1>1, <5>1, <6>1
        <5>3. R[i + 1] = Steps(h, n, R[i]) \ {Null}
          BY <1>5, <2>2
        <5> QED BY <5>2, <5>3
      <4> QED BY <4>1
    <3> QED BY <1>1, <3>1
  <2> HIDE DEF B
  <2>3. B = 0..N
    BY <1>1, <2>1, <2>2, Stepwise
  <2> QED BY <2>3 DEF B
<1>7. /\ \A i \in 0..N : n \in R[i]
  <2> DEFINE C == {i \in 0..N : n \in R[i]}
  <2>1. 0 \in C /\ C \in SUBSET (0..N)
    BY <1>1, <1>4
  <2>2. ASSUME NEW i \in 0..(N - 1), i \in C PROVE i + 1 \in C
    BY <1>1, <1>5, <2>2
  <2> HIDE DEF C
  <2>3. C = 0..N
    BY <1>1, <2>1, <2>2, Stepwise
  <2> QED BY <2>3 DEF C
<1>8. N # 0 /\ R[N - 1] = R[N]
  <2>1. Nodes # {} /\ R[0] # {}
    BY <1>4
  <2>2. \A i \in 0..(N - 1) : R[i] \subseteq R[i + 1]
    BY <1>5
  <2>3. ASSUME NEW i \in 0..(N - 2), R[i] = R[i + 1] PROVE R[i + 1] = R[i + 2]
    <3>1. i \in 0..(N - 1) /\ i + 1 \in 0..(N - 1) /\ (i + 1) + 1 = i + 2
      BY <1>1
    <3>2. R[i + 1] = Steps(h, n, R[i]) \ {Null} /\ R[i + 2] = Steps(h, n, R[i + 1]) \ {Null}
      BY <1>5, <3>1
    <3> QED BY <2>3, <3>2
  <2>4. \A i \in 0..(N - 2) : R[i] = R[i + 1] => R[i + 1] = R[i + 2]
    BY <2>3
  <2> HIDE DEF X
  <2>5. N = Cardinality(Nodes)
    OBVIOUS
  <2>6. IsFiniteSet(Nodes) /\ N \in Nat
    BY <1>1
  <2> HIDE DEF N
  <2> QED BY <1>6, <2>1, <2>2, <2>4, <2>5, <2>6, Saturates
<1>9. /\ n \in D /\ D \subseteq Nodes
      /\ \A m \in D : h[m].firstChild # Null => h[m].firstChild \in D
      /\ \A m \in D \ {n} : h[m].next # Null => h[m].next \in D
  <2>1. N - 1 \in 0..(N - 1) /\ (N - 1) + 1 = N /\ N \in 0..N
    BY <1>1, <1>8
  <2> QED BY <1>4, <1>5, <1>6, <1>7, <1>8, <2>1
<1>10. \A m \in D \ {n} : h[m].parent \in D
  <2> DEFINE E == {i \in 0..N : \A m \in R[i] \ {n} : h[m].parent \in R[i]}
  <2>1. 0 \in E /\ E \in SUBSET (0..N)
    BY <1>1, <1>4
  <2>2. ASSUME NEW i \in 0..(N - 1), i \in E PROVE i + 1 \in E
    <3>1. i \in 0..N /\ R[i] \subseteq Nodes /\ R[i] \subseteq R[i + 1]
      BY <1>1, <1>5, <1>6
    <3>2. ASSUME NEW x \in R[i + 1], x # n PROVE h[x].parent \in R[i + 1]
      <4>0. x # Null /\ x \in Nodes
        <5>1. i + 1 \in 0..N
          BY <1>1, <2>2
        <5> QED BY <1>1, <1>6, <3>2, <5>1
      <4>1. CASE x \in R[i]
        BY <2>2, <3>1, <3>2, <4>1
      <4>2. ASSUME NEW m \in R[i], x = h[m].firstChild PROVE h[x].parent \in R[i + 1]
        <5>1. x = Nth(K[m], 1) /\ IsList(h, m, K[m])
          BY <3>1, <4>2 DEF Forest, IsList
        <5>2. 1 \in 1..Len(K[m]) /\ K[m][1] = x
          BY <1>1, <3>1, <4>0, <5>1, NthIs
        <5>3. h[x].parent = m
          BY <5>1, <5>2 DEF IsList
        <5> QED BY <3>1, <5>3
      <4>3. ASSUME NEW m \in R[i] \ {n}, x = h[m].next PROVE h[x].parent \in R[i + 1]
        <5>1. m \in Nodes \ {c} /\ h[m].parent \in R[i]
          BY <1>1, <2>2, <3>1
        <5>2. h[m].parent \in Nodes /\ m \in Range(K[h[m].parent]) /\ IsList(h, h[m].parent, K[h[m].parent])
          BY <1>1, <3>1, <4>0, <4>3, <5>1 DEF Forest
        <5>3. PICK k \in 1..Len(K[h[m].parent]) : K[h[m].parent][k] = m
          BY <1>1, <5>2, NthIs
        <5>4. x = Nth(K[h[m].parent], k + 1)
          <6>1. PICK l : l = K[h[m].parent]
            OBVIOUS
          <6>2. h[l[k]].next = Nth(l, k + 1)
            BY <5>2, <5>3, <6>1 DEF IsList
          <6> QED BY <4>3, <5>3, <6>1, <6>2
        <5>5. k + 1 \in 1..Len(K[h[m].parent]) /\ K[h[m].parent][k + 1] = x
          <6>1. PICK l : l = K[h[m].parent]
            OBVIOUS
          <6>2. l \in Seq(Nodes) /\ x = Nth(l, k + 1)
            BY <1>1, <5>2, <5>4, <6>1
          <6>3. k + 1 \in 1..Len(l) /\ l[k + 1] = x
            BY <4>0, <6>2, NthIs
          <6> QED BY <6>1, <6>3
        <5>6. h[x].parent = h[m].parent
          BY <5>2, <5>5 DEF IsList
        <5> QED BY <3>1, <5>1, <5>6
      <4> QED BY <1>5, <4>1, <4>2, <4>3
    <3> QED BY <1>1, <3>2
  <2> HIDE DEF E
  <2>3. E = 0..N
    BY <1>1, <2>1, <2>2, Stepwise
  <2>4. N \in 0..N
    BY <1>1
  <2>5. \A m \in R[N] \ {n} : h[m].parent \in R[N]
    BY <2>3, <2>4 DEF E
  <2> QED BY <1>4, <2>5
<1>11. \A m \in D : n \notin Range(K[m])
  <2> SUFFICES ASSUME NEW m \in D, n \in Range(K[m]) PROVE FALSE
    OBVIOUS
  <2>1. m \in Nodes /\ IsList(h, m, K[m]) /\ c # n
    BY <1>9 DEF Forest
  <2>2. h[n].parent = m
    <3>1. PICK k \in 1..Len(K[m]) : K[m][k] = n
      BY <1>1, <2>1, NthIs
    <3> QED BY <2>1, <3>1 DEF IsList
  <2>3. \A x \in D : h[x].parent \in D
    BY <1>10, <2>2
  <2> QED BY <1>9, <2>3 DEF Forest, NoCycle
<1>12. ASSUME NEW m \in D PROVE Range(K[m]) \subseteq D
  <2> DEFINE s == K[m]
             L == {i \in 0..Len(s) : i = 0 \/ s[i] \in D}
  <2>1. m \in Nodes /\ IsList(h, m, s) /\ s \in Seq(Nodes)
    BY <1>1, <1>9, <1>12 DEF Forest
  <2>2. Len(s) \in Nat /\ \A i \in 1..Len(s) : s[i] \in Nodes /\ s[i] # Null /\ s[i] # n
    BY <1>11, <1>12, <2>1, NthIs
  <2>3. ASSUME NEW i \in 0..(Len(s) - 1), i \in L PROVE i + 1 \in L
    <3>1. i + 1 \in 1..Len(s) /\ Nth(s, i + 1) = s[i + 1]
      BY <2>1, <2>2, NthIs
    <3>2. CASE i = 0
      <4>1. h[m].firstChild = s[i + 1]
        BY <2>1, <3>1, <3>2 DEF IsList
      <4> QED BY <1>9, <1>12, <2>2, <3>1, <4>1
    <3>3. CASE i # 0
      <4>1. i \in 1..Len(s) /\ s[i] \in D \ {n}
        BY <2>2, <2>3, <3>3
      <4>2. h[s[i]].next = s[i + 1]
        BY <2>1, <3>1, <4>1 DEF IsList
      <4> QED BY <1>9, <2>2, <3>1, <4>1, <4>2
    <3> QED BY <3>2, <3>3
  <2>4. L \in SUBSET (0..Len(s)) /\ 0 \in L
    BY <2>2
  <2>5. L = 0..Len(s)
    <3> HIDE DEF L, s
    <3> QED BY <2>2, <2>3, <2>4, Stepwise
  <2>6. \A i \in 1..Len(s) : s[i] \in D
    BY <2>2, <2>5
  <2> QED BY <2>1, <2>6, NthIs
<1>13. ASSUME NEW S, n \in S, \A m \in S : m \in Nodes => Range(K[m]) \subseteq S
       PROVE  D \subseteq S
  <2> DEFINE T == D \ S
  <2>1. ASSUME T # {} PROVE FALSE
    <3>1. PICK m \in T : h[m].parent \notin T
      BY <1>9, <2>1 DEF Forest, NoCycle
    <3>2. m \in Nodes \ {c} /\ m # n /\ h[m].parent \in D /\ h[m].parent \in S
      BY <1>1, <1>9, <1>10, <1>13, <3>1
    <3>3. m \in Range(K[h[m].parent])
      BY <1>1, <1>9, <3>2 DEF Forest
    <3> QED BY <1>9, <1>13, <3>1, <3>2, <3>3
  <2> QED BY <2>1
<1> QED BY <1>9, <1>10, <1>11, <1>12, <1>13 DEF D

LEMMA FirstNumbers ==
  ASSUME NEW k \in Nat
  PROVE  IsFiniteSet(1..k) /\ Cardinality(1..k) = k
<1>1. 1 \in Int /\ k \in Int
  OBVIOUS
<1>2. IsFiniteSet(1..k) /\ Cardinality(1..k) = IF 1 > k THEN 0 ELSE k - 1 + 1
  BY <1>1, FS_Interval, Zenon
<1> QED BY <1>2

LEMMA ListOfIs ==
  ASSUME NEW h, NEW K, NEW c, Forest(h, K, c), NEW p \in Nodes
  PROVE  ListOf(h, p) = K[p]
<1> DEFINE N == Cardinality(Nodes)
           s == K[p]
           at == CHOOSE a : a = [i \in 1..N |-> IF i = 1 THEN h[p].firstChild
                                                ELSE IF a[i - 1] = Null THEN Null ELSE h[a[i - 1]].next]
<1>1. /\ IsFiniteSet(Nodes) /\ Null \notin Nodes /\ N \in Nat
      /\ s \in Seq(Nodes) /\ IsList(h, p, s) /\ Len(s) \in Nat
  BY TreeAssumption, FS_CardinalityType DEF Forest
<1>2. /\ \A i : Nth(s, i) = IF i \in 1..Len(s) THEN s[i] ELSE Null
      /\ \A i \in 1..Len(s) : s[i] \in Nodes /\ s[i] # Null
  BY <1>1, NthIs
<1> HIDE DEF s
<1>3. Len(s) <= N
  <2> DEFINE e == [i \in 1..Len(s) |-> s[i]]
  <2>1. e \in Injection(1..Len(s), Nodes)
    <3>1. e \in [1..Len(s) -> Nodes]
      BY <1>2
    <3>2. \A i, j \in 1..Len(s) : e[i] = e[j] => i = j
      BY <1>1 DEF IsList, Distinct
    <3> QED BY <3>1, <3>2 DEF Injection, IsInjective
  <2> HIDE DEF e
  <2>2. Cardinality(1..Len(s)) <= N
    BY <1>1, <2>1, FS_Injection
  <2>3. Cardinality(1..Len(s)) = Len(s)
    BY <1>1, FirstNumbers
  <2> QED BY <1>1, <2>2, <2>3
<1>4. ListOf(h, p) = [i \in 1..Cardinality({k \in DOMAIN at : at[k] # Null}) |-> at[i]]
  BY DEF ListOf
<1>5. at = [i \in 1..N |-> IF i = 1 THEN h[p].firstChild
                           ELSE IF at[i - 1] = Null THEN Null ELSE h[at[i - 1]].next]
  <2> DEFINE w == [i \in 1..N |-> Nth(s, i)]
  <2>1. ASSUME NEW i \in 1..N
        PROVE  w[i] = IF i = 1 THEN h[p].firstChild
                      ELSE IF w[i - 1] = Null THEN Null ELSE h[w[i - 1]].next
    <3>1. w[i] = Nth(s, i)
      OBVIOUS
    <3>2. CASE i = 1
      BY <1>1, <3>1, <3>2 DEF IsList
    <3>3. CASE i # 1
      <4>1. i - 1 \in 1..N /\ w[i - 1] = Nth(s, i - 1) /\ (i - 1) + 1 = i
        BY <1>1, <3>3
      <4>2. CASE i - 1 \in 1..Len(s)
        <5>1. w[i - 1] = s[i - 1] /\ w[i - 1] # Null /\ h[s[i - 1]].next = Nth(s, i)
          BY <1>1, <1>2, <4>1, <4>2 DEF IsList
        <5> QED BY <3>1, <3>3, <5>1
      <4>3. CASE i - 1 \notin 1..Len(s)
        <5>1. i \notin 1..Len(s)
          BY <1>1, <3>3, <4>3
        <5> QED BY <1>2, <3>1, <3>3, <4>1, <4>3, <5>1
      <4> QED BY <4>2, <4>3
    <3> QED BY <3>2, <3>3
  <2>2. w = [i \in 1..N |-> IF i = 1 THEN h[p].firstChild
                            ELSE IF w[i - 1] = Null THEN Null ELSE h[w[i - 1]].next]
    <3>1. DOMAIN w = 1..N /\ w = [i \in 1..N |-> w[i]]
      OBVIOUS
    <3> HIDE DEF w
    <3> QED BY <2>1, <3>1
  <2> HIDE DEF w
  <2>3. \E a : a = [i \in 1..N |-> IF i = 1 THEN h[p].firstChild
                                   ELSE IF a[i - 1] = Null THEN Null ELSE h[a[i - 1]].next]
    BY <2>2
  <2> QED BY <2>3
<1> HIDE DEF at
<1>6. /\ DOMAIN at = 1..N
      /\ \A i \in 1..N : at[i] = IF i = 1 THEN h[p].firstChild
                                 ELSE IF at[i - 1] = Null THEN Null ELSE h[at[i - 1]].next
  BY <1>5
<1>7. \A i \in 1..N : at[i] = Nth(s, i)
  <2> DEFINE B == {i \in 0..N : i = 0 \/ at[i] = Nth(s, i)}
  <2>1. 0 \in B /\ B \in SUBSET (0..N)
    BY <1>1
  <2>2. ASSUME NEW i \in 0..(N - 1), i \in B PROVE i + 1 \in B
    <3>1. i + 1 \in 1..N /\ i + 1 \in 0..N /\ (i + 1) - 1 = i
      BY <1>1
    <3>2. CASE i = 0
      <4>1. at[i + 1] = h[p].firstChild /\ i + 1 = 1
        BY <1>6, <3>1, <3>2
      <4> QED BY <1>1, <3>1, <4>1 DEF IsList
    <3>3. CASE i # 0
      <4>1. at[i + 1] = IF at[i] = Null THEN Null ELSE h[at[i]].next
        BY <1>6, <3>1, <3>3
      <4>2. at[i] = Nth(s, i) /\ i \in Nat /\ i >= 1
        BY <1>1, <2>2, <3>3
      <4>3. CASE i \in 1..Len(s)
        <5>1. at[i] = s[i] /\ at[i] # Null /\ h[s[i]].next = Nth(s, i + 1)
          BY <1>1, <1>2, <4>2, <4>3 DEF IsList
        <5> QED BY <3>1, <4>1, <5>1
      <4>4. CASE i \notin 1..Len(s)
        <5>1. i + 1 \notin 1..Len(s)
          BY <1>1, <4>2, <4>4
        <5> QED BY <1>2, <3>1, <4>1, <4>2, <4>4, <5>1
      <4> QED BY <4>3, <4>4
    <3> QED BY <3>2, <3>3
  <2> HIDE DEF B
  <2>3. B = 0..N
    BY <1>1, <2>1, <2>2, Stepwise
  <2>4. \A i \in 1..N : i \in B /\ i # 0
    BY <1>1, <2>3
  <2> QED BY <2>4 DEF B
<1>8. {k \in DOMAIN at : at[k] # Null} = 1..Len(s)
  BY <1>1, <1>2, <1>3, <1>6, <1>7
<1>9. Cardinality(1..Len(s)) = Len(s)
  BY <1>1, FirstNumbers
<1>10. ListOf(h, p) = [i \in 1..Len(s) |-> at[i]]
  BY <1>4, <1>8, <1>9
<1>11. \A i \in 1..Len(s) : at[i] = s[i]
  BY <1>1, <1>2, <1>3, <1>7
<1>12. [i \in 1..Len(s) |-> at[i]] = s
  BY <1>1, <1>11
<1> QED BY <1>10, <1>12 DEF s

-----------------------------------------------------------------------------
(***************************************************************************)
(* What linking changes                                                    *)
(***************************************************************************)
\* Nothing but links differs in two heaps.
SameLabels(h, h2) ==
  \A m \in Nodes : /\ h2[m].type = h[m].type /\ h2[m].value = h[m].value
                   /\ h2[m].attributes = h[m].attributes /\ h2[m].error = h[m].error

\* h2 is h after LinkNext, after LinkPrev, after Joined and after LinkedBetween.
NextLinked(h, h2, p, a, b) ==
  /\ h2 \in [Nodes -> NodeType] /\ SameLabels(h, h2)
  /\ \A m \in Nodes : /\ h2[m].parent = h[m].parent /\ h2[m].prev = h[m].prev
                      /\ h2[m].lastChild = h[m].lastChild
                      /\ h2[m].firstChild = IF m = p /\ a = Null THEN b ELSE h[m].firstChild
                      /\ h2[m].next = IF m = a THEN b ELSE h[m].next
                      /\ m \notin {p, a} => h2[m] = h[m]

PrevLinked(h, h2, p, a, b) ==
  /\ h2 \in [Nodes -> NodeType] /\ SameLabels(h, h2)
  /\ \A m \in Nodes : /\ h2[m].parent = h[m].parent /\ h2[m].next = h[m].next
                      /\ h2[m].firstChild = h[m].firstChild
                      /\ h2[m].lastChild = IF m = p /\ b = Null THEN a ELSE h[m].lastChild
                      /\ h2[m].prev = IF m = b THEN a ELSE h[m].prev
                      /\ m \notin {p, b} => h2[m] = h[m]

LinksJoined(h, h2, p, a, b) ==
  /\ h2 \in [Nodes -> NodeType] /\ SameLabels(h, h2)
  /\ \A m \in Nodes : /\ h2[m].parent = h[m].parent
                      /\ h2[m].firstChild = IF m = p /\ a = Null THEN b ELSE h[m].firstChild
                      /\ h2[m].lastChild = IF m = p /\ b = Null THEN a ELSE h[m].lastChild
                      /\ h2[m].prev = IF m = b THEN a ELSE h[m].prev
                      /\ h2[m].next = IF m = a THEN b ELSE h[m].next
                      /\ m \notin {p, a, b} => h2[m] = h[m]

PutBetween(h, h2, p, a, n, b) ==
  /\ h2 \in [Nodes -> NodeType] /\ SameLabels(h, h2)
  /\ \A m \in Nodes : /\ h2[m].parent = IF m = n THEN p ELSE h[m].parent
                      /\ h2[m].firstChild = IF m = p /\ a = Null THEN n ELSE h[m].firstChild
                      /\ h2[m].lastChild = IF m = p /\ b = Null THEN n ELSE h[m].lastChild
                      /\ h2[m].prev = IF m = n THEN a ELSE IF m = b THEN n ELSE h[m].prev
                      /\ h2[m].next = IF m = n THEN b ELSE IF m = a THEN n ELSE h[m].next
                      /\ m \notin {p, a, n, b} => h2[m] = h[m]

LEMMA LinkNextIs ==
  ASSUME NEW h \in [Nodes -> NodeType], NEW p \in Nodes,
         NEW a \in Nodes \cup {Null}, NEW b \in Nodes \cup {Null}
  PROVE  NextLinked(h, LinkNext(h, p, a, b), p, a, b)
<1>1. CASE a = Null
  <2>1. PICK h2 : h2 = [h EXCEPT ![p].firstChild = b]
    OBVIOUS
  <2>2. h2 = [m \in Nodes |-> h2[m]]
    BY <2>1
  <2>3. \A m \in Nodes : h2[m] = IF m = p THEN [h[m] EXCEPT !.firstChild = b] ELSE h[m]
    BY <2>1
  <2>4. ASSUME NEW m \in Nodes
        PROVE  /\ h2[m] \in NodeType
               /\ h2[m].type = h[m].type /\ h2[m].value = h[m].value
               /\ h2[m].attributes = h[m].attributes /\ h2[m].error = h[m].error
               /\ h2[m].parent = h[m].parent /\ h2[m].prev = h[m].prev
               /\ h2[m].lastChild = h[m].lastChild /\ h2[m].next = h[m].next
               /\ h2[m].firstChild = IF m = p THEN b ELSE h[m].firstChild
    <3>1. h[m] \in NodeType
      OBVIOUS
    <3>2. CASE m = p
      <4>1. h2[m] = [h[m] EXCEPT !.firstChild = b]
        BY <2>3, <3>2
      <4> QED BY <3>1, <3>2, <4>1 DEF NodeType
    <3>3. CASE m # p
      <4>1. h2[m] = h[m]
        BY <2>3, <3>3
      <4> QED BY <3>1, <3>3, <4>1
    <3> QED BY <3>2, <3>3
  <2>5. h2 \in [Nodes -> NodeType] /\ SameLabels(h, h2)
    BY <2>2, <2>4 DEF SameLabels
  <2>6. LinkNext(h, p, a, b) = h2 /\ \A m \in Nodes : m # a
    BY <1>1, <2>1, TreeAssumption DEF LinkNext
  <2>7. NextLinked(h, h2, p, a, b)
    BY <1>1, <2>3, <2>4, <2>5, <2>6 DEF NextLinked
  <2> QED BY <2>6, <2>7
<1>2. CASE a # Null
  <2>1. PICK h2 : h2 = [h EXCEPT ![a].next = b]
    OBVIOUS
  <2>2. h2 = [m \in Nodes |-> h2[m]]
    BY <1>2, <2>1
  <2>3. \A m \in Nodes : h2[m] = IF m = a THEN [h[m] EXCEPT !.next = b] ELSE h[m]
    BY <1>2, <2>1
  <2>4. ASSUME NEW m \in Nodes
        PROVE  /\ h2[m] \in NodeType
               /\ h2[m].type = h[m].type /\ h2[m].value = h[m].value
               /\ h2[m].attributes = h[m].attributes /\ h2[m].error = h[m].error
               /\ h2[m].parent = h[m].parent /\ h2[m].prev = h[m].prev
               /\ h2[m].lastChild = h[m].lastChild /\ h2[m].firstChild = h[m].firstChild
               /\ h2[m].next = IF m = a THEN b ELSE h[m].next
    <3>1. h[m] \in NodeType
      OBVIOUS
    <3>2. CASE m = a
      <4>1. h2[m] = [h[m] EXCEPT !.next = b]
        BY <2>3, <3>2
      <4> QED BY <3>1, <3>2, <4>1 DEF NodeType
    <3>3. CASE m # a
      <4>1. h2[m] = h[m]
        BY <2>3, <3>3
      <4> QED BY <3>1, <3>3, <4>1
    <3> QED BY <3>2, <3>3
  <2>5. h2 \in [Nodes -> NodeType] /\ SameLabels(h, h2)
    BY <2>2, <2>4 DEF SameLabels
  <2>6. LinkNext(h, p, a, b) = h2
    BY <1>2, <2>1 DEF LinkNext
  <2>7. NextLinked(h, h2, p, a, b)
    BY <1>2, <2>3, <2>4, <2>5 DEF NextLinked
  <2> QED BY <2>6, <2>7
<1> QED BY <1>1, <1>2

LEMMA LinkPrevIs ==
  ASSUME NEW h \in [Nodes -> NodeType], NEW p \in Nodes,
         NEW a \in Nodes \cup {Null}, NEW b \in Nodes \cup {Null}
  PROVE  PrevLinked(h, LinkPrev(h, p, a, b), p, a, b)
<1>1. CASE b = Null
  <2>1. PICK h2 : h2 = [h EXCEPT ![p].lastChild = a]
    OBVIOUS
  <2>2. h2 = [m \in Nodes |-> h2[m]]
    BY <2>1
  <2>3. \A m \in Nodes : h2[m] = IF m = p THEN [h[m] EXCEPT !.lastChild = a] ELSE h[m]
    BY <2>1
  <2>4. ASSUME NEW m \in Nodes
        PROVE  /\ h2[m] \in NodeType
               /\ h2[m].type = h[m].type /\ h2[m].value = h[m].value
               /\ h2[m].attributes = h[m].attributes /\ h2[m].error = h[m].error
               /\ h2[m].parent = h[m].parent /\ h2[m].prev = h[m].prev
               /\ h2[m].firstChild = h[m].firstChild /\ h2[m].next = h[m].next
               /\ h2[m].lastChild = IF m = p THEN a ELSE h[m].lastChild
    <3>1. h[m] \in NodeType
      OBVIOUS
    <3>2. CASE m = p
      <4>1. h2[m] = [h[m] EXCEPT !.lastChild = a]
        BY <2>3, <3>2
      <4> QED BY <3>1, <3>2, <4>1 DEF NodeType
    <3>3. CASE m # p
      <4>1. h2[m] = h[m]
        BY <2>3, <3>3
      <4> QED BY <3>1, <3>3, <4>1
    <3> QED BY <3>2, <3>3
  <2>5. h2 \in [Nodes -> NodeType] /\ SameLabels(h, h2)
    BY <2>2, <2>4 DEF SameLabels
  <2>6. LinkPrev(h, p, a, b) = h2 /\ \A m \in Nodes : m # b
    BY <1>1, <2>1, TreeAssumption DEF LinkPrev
  <2>7. PrevLinked(h, h2, p, a, b)
    BY <1>1, <2>3, <2>4, <2>5, <2>6 DEF PrevLinked
  <2> QED BY <2>6, <2>7
<1>2. CASE b # Null
  <2>1. PICK h2 : h2 = [h EXCEPT ![b].prev = a]
    OBVIOUS
  <2>2. h2 = [m \in Nodes |-> h2[m]]
    BY <1>2, <2>1
  <2>3. \A m \in Nodes : h2[m] = IF m = b THEN [h[m] EXCEPT !.prev = a] ELSE h[m]
    BY <1>2, <2>1
  <2>4. ASSUME NEW m \in Nodes
        PROVE  /\ h2[m] \in NodeType
               /\ h2[m].type = h[m].type /\ h2[m].value = h[m].value
               /\ h2[m].attributes = h[m].attributes /\ h2[m].error = h[m].error
               /\ h2[m].parent = h[m].parent /\ h2[m].next = h[m].next
               /\ h2[m].lastChild = h[m].lastChild /\ h2[m].firstChild = h[m].firstChild
               /\ h2[m].prev = IF m = b THEN a ELSE h[m].prev
    <3>1. h[m] \in NodeType
      OBVIOUS
    <3>2. CASE m = b
      <4>1. h2[m] = [h[m] EXCEPT !.prev = a]
        BY <2>3, <3>2
      <4> QED BY <3>1, <3>2, <4>1 DEF NodeType
    <3>3. CASE m # b
      <4>1. h2[m] = h[m]
        BY <2>3, <3>3
      <4> QED BY <3>1, <3>3, <4>1
    <3> QED BY <3>2, <3>3
  <2>5. h2 \in [Nodes -> NodeType] /\ SameLabels(h, h2)
    BY <2>2, <2>4 DEF SameLabels
  <2>6. LinkPrev(h, p, a, b) = h2
    BY <1>2, <2>1 DEF LinkPrev
  <2>7. PrevLinked(h, h2, p, a, b)
    BY <1>2, <2>3, <2>4, <2>5 DEF PrevLinked
  <2> QED BY <2>6, <2>7
<1> QED BY <1>1, <1>2

LEMMA JoinedIs ==
  ASSUME NEW h \in [Nodes -> NodeType], NEW p \in Nodes,
         NEW a \in Nodes \cup {Null}, NEW b \in Nodes \cup {Null}
  PROVE  LinksJoined(h, Joined(h, p, a, b), p, a, b)
<1>1. PICK g : g = LinkNext(h, p, a, b)
  OBVIOUS
<1>2. PICK h2 : h2 = LinkPrev(g, p, a, b)
  OBVIOUS
<1>3. NextLinked(h, g, p, a, b)
  BY <1>1, LinkNextIs
<1>4. PrevLinked(g, h2, p, a, b)
  BY <1>2, <1>3, LinkPrevIs DEF NextLinked
<1>5. LinksJoined(h, h2, p, a, b)
  BY <1>3, <1>4 DEF NextLinked, PrevLinked, LinksJoined, SameLabels
<1> QED BY <1>1, <1>2, <1>5 DEF Joined

LEMMA LinkedBetweenIs ==
  ASSUME NEW h \in [Nodes -> NodeType], NEW p \in Nodes, NEW n \in Nodes, p # n,
         NEW a \in (Nodes \cup {Null}) \ {n}, NEW b \in (Nodes \cup {Null}) \ {n}
  PROVE  PutBetween(h, LinkedBetween(h, p, a, n, b), p, a, n, b)
<1>0. PICK placed : placed = [h EXCEPT ![n].parent = p, ![n].prev = a, ![n].next = b]
  OBVIOUS
<1>8. \A m \in Nodes : placed[m] = IF m = n
                                   THEN [[[h[m] EXCEPT !.parent = p] EXCEPT !.prev = a] EXCEPT !.next = b]
                                   ELSE h[m]
  BY <1>0
<1>1. /\ placed \in [Nodes -> NodeType]
      /\ \A m \in Nodes : /\ placed[m].parent = IF m = n THEN p ELSE h[m].parent
                          /\ placed[m].firstChild = h[m].firstChild /\ placed[m].lastChild = h[m].lastChild
                          /\ placed[m].prev = IF m = n THEN a ELSE h[m].prev
                          /\ placed[m].next = IF m = n THEN b ELSE h[m].next
                          /\ m # n => placed[m] = h[m]
      /\ SameLabels(h, placed)
  <2>1. DOMAIN placed = Nodes /\ placed = [m \in Nodes |-> placed[m]]
    BY <1>0
  <2>2. ASSUME NEW m \in Nodes
        PROVE  /\ placed[m] \in NodeType
               /\ placed[m].parent = IF m = n THEN p ELSE h[m].parent
               /\ placed[m].firstChild = h[m].firstChild /\ placed[m].lastChild = h[m].lastChild
               /\ placed[m].prev = IF m = n THEN a ELSE h[m].prev
               /\ placed[m].next = IF m = n THEN b ELSE h[m].next
               /\ m # n => placed[m] = h[m]
               /\ placed[m].type = h[m].type /\ placed[m].value = h[m].value
               /\ placed[m].attributes = h[m].attributes /\ placed[m].error = h[m].error
    <3>1. h[m] \in NodeType
      OBVIOUS
    <3>2. CASE m # n
      BY <1>8, <3>1, <3>2
    <3>3. CASE m = n
      <4>1. PICK x : x = [h[m] EXCEPT !.parent = p]
        OBVIOUS
      <4>2. PICK y : y = [x EXCEPT !.prev = a]
        OBVIOUS
      <4>3. placed[m] = [y EXCEPT !.next = b]
        BY <1>8, <3>3, <4>1, <4>2
      <4>4. /\ x \in NodeType /\ x.parent = p /\ x.next = h[m].next /\ x.prev = h[m].prev
            /\ x.firstChild = h[m].firstChild /\ x.lastChild = h[m].lastChild
            /\ x.type = h[m].type /\ x.value = h[m].value
            /\ x.attributes = h[m].attributes /\ x.error = h[m].error
        BY <3>1, <4>1 DEF NodeType
      <4>5. /\ y \in NodeType /\ y.parent = p /\ y.next = h[m].next /\ y.prev = a
            /\ y.firstChild = h[m].firstChild /\ y.lastChild = h[m].lastChild
            /\ y.type = h[m].type /\ y.value = h[m].value
            /\ y.attributes = h[m].attributes /\ y.error = h[m].error
        BY <4>2, <4>4 DEF NodeType
      <4>6. /\ placed[m] \in NodeType /\ placed[m].parent = p /\ placed[m].next = b /\ placed[m].prev = a
            /\ placed[m].firstChild = h[m].firstChild /\ placed[m].lastChild = h[m].lastChild
            /\ placed[m].type = h[m].type /\ placed[m].value = h[m].value
            /\ placed[m].attributes = h[m].attributes /\ placed[m].error = h[m].error
        BY <4>3, <4>5 DEF NodeType
      <4> QED BY <3>3, <4>6
    <3> QED BY <3>2, <3>3
  <2> QED BY <2>1, <2>2 DEF SameLabels
<1>2. PICK g : g = LinkNext(placed, p, a, n)
  OBVIOUS
<1>3. NextLinked(placed, g, p, a, n)
  BY <1>1, <1>2, LinkNextIs
<1>4. PICK h2 : h2 = LinkPrev(g, p, n, b)
  OBVIOUS
<1>5. PrevLinked(g, h2, p, n, b)
  BY <1>3, <1>4, LinkPrevIs DEF NextLinked
<1>6. PutBetween(h, h2, p, a, n, b)
  BY <1>1, <1>3, <1>5 DEF NextLinked, PrevLinked, PutBetween, SameLabels
<1>7. h2 = LinkedBetween(h, p, a, n, b)
  BY <1>0, <1>2, <1>4 DEF LinkedBetween
<1> QED BY <1>6, <1>7

LEMMA InList ==
  ASSUME NEW h, NEW K, NEW c, Forest(h, K, c), NEW q \in Nodes, NEW m \in Range(K[q])
  PROVE  m \in Nodes /\ h[m].parent = q /\ h[m].type # "free"
<1>1. K[q] \in Seq(Nodes) /\ IsList(h, q, K[q])
  BY DEF Forest
<1>2. PICK i \in 1..Len(K[q]) : K[q][i] = m
  BY <1>1, NthIs
<1>3. m \in Nodes /\ h[m].parent = q
  BY <1>1, <1>2 DEF IsList
<1>4. h[m] # Freed
  <2>1. Freed.parent = Null /\ q # Null
    BY TreeAssumption DEF Freed, NewNode
  <2> QED BY <1>3, <2>1
<1> QED BY <1>3, <1>4 DEF Forest

\* Of the forest h only the list of the children of p has changed, in h2, from l to t: what
\* is in it besides was no child before, and what is not in it any more is c.
ListChanged(h, l, p, t, c, h2) ==
  /\ t \in Seq(Nodes) /\ c \in Range(l) \cup {Null}
  /\ c \notin Range(t) /\ Range(l) \subseteq Range(t) \cup {c}
  /\ \A m \in Range(t) : m \in Range(l) \/ (h[m].parent = Null /\ h[m].type # "free")
  /\ h2 \in [Nodes -> NodeType] /\ SameLabels(h, h2) /\ NoCycle(h2) /\ IsList(h2, p, t)
  /\ \A m \in Nodes \ {p} : h2[m].firstChild = h[m].firstChild /\ h2[m].lastChild = h[m].lastChild
  /\ \A m \in Nodes : m \notin Range(l) /\ m \notin Range(t) =>
       /\ h2[m].parent = h[m].parent /\ h2[m].prev = h[m].prev /\ h2[m].next = h[m].next
       /\ m # p => h2[m] = h[m]

LEMMA Relinked ==
  ASSUME NEW h, NEW K, Forest(h, K, Null), NEW p \in Nodes, h[p].type # "free",
         NEW t, NEW c, NEW h2, ListChanged(h, K[p], p, t, c, h2)
  PROVE  Forest(h2, [K EXCEPT ![p] = t], c)
<1>0. /\ t \in Seq(Nodes) /\ c \in Range(K[p]) \cup {Null}
      /\ c \notin Range(t) /\ Range(K[p]) \subseteq Range(t) \cup {c}
      /\ \A m \in Range(t) : m \in Range(K[p]) \/ (h[m].parent = Null /\ h[m].type # "free")
      /\ h2 \in [Nodes -> NodeType] /\ SameLabels(h, h2) /\ NoCycle(h2) /\ IsList(h2, p, t)
      /\ \A m \in Nodes \ {p} : h2[m].firstChild = h[m].firstChild /\ h2[m].lastChild = h[m].lastChild
      /\ \A m \in Nodes : m \notin Range(K[p]) /\ m \notin Range(t) =>
           /\ h2[m].parent = h[m].parent /\ h2[m].prev = h[m].prev /\ h2[m].next = h[m].next
           /\ m # p => h2[m] = h[m]
  BY DEF ListChanged
<1> DEFINE K2 == [K EXCEPT ![p] = t]
<1>1. /\ h \in [Nodes -> NodeType] /\ K \in [Nodes -> Seq(Nodes)]
      /\ \A q \in Nodes : K[q] \in Seq(Nodes) /\ IsList(h, q, K[q])
      /\ Null \notin Nodes
  BY TreeAssumption DEF Forest
<1>2. /\ K2 \in [Nodes -> Seq(Nodes)]
      /\ \A q \in Nodes : K2[q] = IF q = p THEN t ELSE K[q]
  BY <1>0, <1>1
<1> HIDE DEF K2
<1>3. ASSUME NEW q \in Nodes \ {p}, NEW m \in Range(K[q])
      PROVE  m \notin Range(K[p]) /\ m \notin Range(t) /\ m \in Nodes
  <2>1. h[m].parent = q /\ m \in Nodes
    BY <1>3, InList
  <2>2. m \notin Range(K[p])
    BY <1>3, <2>1, InList
  <2> QED BY <1>0, <1>1, <2>1, <2>2
<1>4. ASSUME NEW q \in Nodes PROVE IsList(h2, q, K2[q]) /\ c \notin Range(K2[q])
  <2>1. CASE q = p
    BY <1>0, <1>2, <2>1
  <2>2. CASE q # p
    <3>1. K2[q] = K[q] /\ K[q] \in Seq(Nodes) /\ IsList(h, q, K[q])
      BY <1>1, <1>2, <2>2
    <3>2. \A i \in 1..Len(K[q]) :
            K[q][i] \notin Range(K[p]) /\ K[q][i] \notin Range(t) /\ K[q][i] \in Nodes
      BY <1>3, <2>2, <3>1, NthIs
    <3>3. IsList(h2, q, K[q])
      BY <1>0, <2>2, <3>1, <3>2 DEF IsList
    <3>4. c \notin Range(K[q])
      BY <1>0, <1>1, <1>3, <2>2
    <3> QED BY <3>1, <3>3, <3>4
  <2> QED BY <2>1, <2>2
<1>5. ASSUME NEW m \in Nodes \ {c}
      PROVE  IF h2[m].parent = Null THEN h2[m].prev = Null /\ h2[m].next = Null
             ELSE m \in Range(K2[h2[m].parent])
  <2>1. CASE m \in Range(t)
    <3>1. PICK i \in 1..Len(t) : t[i] = m
      BY <1>0, <2>1, NthIs
    <3>2. h2[m].parent = p
      BY <1>0, <3>1 DEF IsList
    <3> QED BY <1>1, <1>2, <2>1, <3>2
  <2>2. CASE m \notin Range(t)
    <3>1. m \notin Range(K[p])
      BY <1>0, <1>5, <2>2
    <3>2. h2[m].parent = h[m].parent /\ h2[m].prev = h[m].prev /\ h2[m].next = h[m].next
      BY <1>0, <2>2, <3>1
    <3>3. /\ h[m].parent = Null => h[m].prev = Null /\ h[m].next = Null
          /\ h[m].parent # Null => m \in Range(K[h[m].parent])
      BY <1>1 DEF Forest
    <3>4. h[m].parent # Null => h[m].parent \in Nodes
      BY <1>1 DEF NodeType
    <3> QED BY <1>2, <3>1, <3>2, <3>3, <3>4
  <2> QED BY <2>1, <2>2
<1>6. ASSUME NEW m \in Nodes, h2[m].type = "free" PROVE h2[m] = Freed
  <2>1. h[m].type = "free" /\ h[m] = Freed /\ m # p
    BY <1>0, <1>6 DEF Forest, SameLabels
  <2>2. m \notin Range(K[p])
    BY <2>1, InList
  <2>3. m \notin Range(t)
    BY <1>0, <2>1, <2>2
  <2> QED BY <1>0, <2>1, <2>2, <2>3
<1>7. Forest(h2, K2, c)
  BY <1>0, <1>2, <1>4, <1>5, <1>6 DEF Forest
<1> QED BY <1>7 DEF K2

\* n, with what is below it, came under p.
LEMMA NoCycleLinked ==
  ASSUME NEW h, NEW K, Forest(h, K, Null), NEW p \in Nodes, NEW n \in Nodes,
         NEW D, n \in D, p \notin D, \A m \in D : m \in Nodes => Range(K[m]) \subseteq D,
         NEW h2, \A m \in Nodes : h2[m].parent = IF m = n THEN p ELSE h[m].parent
  PROVE  NoCycle(h2)
<1> SUFFICES ASSUME NEW S \in SUBSET Nodes, S # {}
             PROVE  \E m \in S : h2[m].parent \notin S
  BY DEF NoCycle
<1>1. CASE S \subseteq D
  <2>1. PICK m \in S : h[m].parent \notin S
    BY DEF Forest, NoCycle
  <2> QED BY <1>1, <2>1
<1>2. CASE ~ (S \subseteq D)
  <2>1. PICK m \in S \ D : h[m].parent \notin S \ D
    BY <1>2 DEF Forest, NoCycle
  <2>2. ASSUME h[m].parent \in S PROVE FALSE
    <3>1. h[m].parent \in D /\ h[m].parent \in Nodes
      BY <2>1, <2>2
    <3>2. m \in Range(K[h[m].parent])
      BY <2>1, <3>1, TreeAssumption DEF Forest
    <3> QED BY <2>1, <3>1, <3>2
  <2> QED BY <2>1, <2>2
<1> QED BY <1>1, <1>2

-----------------------------------------------------------------------------
(***************************************************************************)
(* Putting a node into a list, in place of one in it, and taking one out   *)
(***************************************************************************)
Put(s, i, n) == [k \in 1..(Len(s) + 1) |-> IF k <= i THEN s[k] ELSE IF k = i + 1 THEN n ELSE s[k - 1]]
Swap(s, i, n) == [k \in 1..Len(s) |-> IF k = i THEN n ELSE s[k]]
Drop(s, i) == [k \in 1..(Len(s) - 1) |-> IF k < i THEN s[k] ELSE s[k + 1]]

LEMMA PutIs ==
  ASSUME NEW s \in Seq(Nodes), Distinct(s), NEW i \in 0..Len(s), NEW n \in Nodes \ Range(s)
  PROVE  /\ Put(s, i, n) \in Seq(Nodes) /\ Len(Put(s, i, n)) = Len(s) + 1 /\ Distinct(Put(s, i, n))
         /\ Range(Put(s, i, n)) = Range(s) \cup {n}
         /\ \A k \in 1..(Len(s) + 1) :
              Put(s, i, n)[k] = IF k <= i THEN s[k] ELSE IF k = i + 1 THEN n ELSE s[k - 1]
<1> DEFINE t == Put(s, i, n)
<1>1. /\ Len(s) \in Nat /\ \A k \in 1..Len(s) : s[k] \in Nodes /\ s[k] \in Range(s)
      /\ \A m \in Range(s) : \E k \in 1..Len(s) : s[k] = m
  BY NthIs
<1>2. /\ t \in Seq(Nodes) /\ Len(t) = Len(s) + 1
      /\ \A k \in 1..(Len(s) + 1) : t[k] = IF k <= i THEN s[k] ELSE IF k = i + 1 THEN n ELSE s[k - 1]
  BY <1>1 DEF Put
<1> HIDE DEF t
<1>3. ASSUME NEW k \in 1..(Len(s) + 1)
      PROVE  \/ k = i + 1 /\ t[k] = n
             \/ k <= i /\ k \in 1..Len(s) /\ t[k] = s[k] /\ t[k] # n
             \/ k > i + 1 /\ k - 1 \in 1..Len(s) /\ t[k] = s[k - 1] /\ t[k] # n
  <2>1. CASE k = i + 1
    BY <1>1, <1>2, <2>1
  <2>2. CASE k <= i
    <3>1. k \in 1..Len(s)
      BY <1>1, <2>2
    <3> QED BY <1>1, <1>2, <2>2, <3>1
  <2>3. CASE k > i + 1
    <3>1. k - 1 \in 1..Len(s) /\ ~ (k <= i) /\ k # i + 1
      BY <1>1, <2>3
    <3> QED BY <1>1, <1>2, <2>3, <3>1
  <2> QED BY <1>1, <2>1, <2>2, <2>3
<1>4. Distinct(t)
  <2> SUFFICES ASSUME NEW j \in 1..(Len(s) + 1), NEW k \in 1..(Len(s) + 1), j # k PROVE t[j] # t[k]
    BY <1>2 DEF Distinct
  <2>1. \A x, y \in 1..Len(s) : x # y => s[x] # s[y]
    BY DEF Distinct
  <2>2. CASE j = i + 1 \/ k = i + 1
    BY <1>1, <1>3, <2>2
  <2>3. CASE j # i + 1 /\ k # i + 1
    <3>1. PICK a \in 1..Len(s) : t[j] = s[a] /\ a = IF j <= i THEN j ELSE j - 1
      BY <1>1, <1>3, <2>3
    <3>2. PICK b \in 1..Len(s) : t[k] = s[b] /\ b = IF k <= i THEN k ELSE k - 1
      BY <1>1, <1>3, <2>3
    <3>3. a # b
      BY <1>1, <2>3, <3>1, <3>2
    <3> QED BY <2>1, <3>1, <3>2, <3>3
  <2> QED BY <2>2, <2>3
<1>5. ASSUME NEW m \in Range(s) \cup {n} PROVE m \in Range(t)
  <2>1. \A k \in 1..(Len(s) + 1) : t[k] \in Range(t)
    BY <1>2 DEF Range
  <2>2. CASE m = n
    <3>1. i + 1 \in 1..(Len(s) + 1) /\ ~ (i + 1 <= i)
      BY <1>1
    <3>2. t[i + 1] = n
      BY <1>2, <3>1
    <3> QED BY <2>1, <2>2, <3>1, <3>2
  <2>3. ASSUME NEW k \in 1..Len(s), s[k] = m PROVE m \in Range(t)
    <3>1. CASE k <= i
      <4>1. k \in 1..(Len(s) + 1)
        BY <1>1
      <4>2. t[k] = s[k]
        BY <1>2, <3>1, <4>1
      <4> QED BY <2>1, <2>3, <4>1, <4>2
    <3>2. CASE k > i
      <4>1. k + 1 \in 1..(Len(s) + 1) /\ ~ (k + 1 <= i) /\ k + 1 # i + 1 /\ (k + 1) - 1 = k
        BY <1>1, <3>2
      <4> QED BY <1>2, <2>1, <2>3, <4>1
    <3> QED BY <1>1, <3>1, <3>2
  <2> QED BY <1>1, <1>5, <2>2, <2>3
<1>6. ASSUME NEW m \in Range(t) PROVE m \in Range(s) \cup {n}
  <2>1. PICK k \in 1..(Len(s) + 1) : t[k] = m
    BY <1>2, <1>6 DEF Range
  <2> QED BY <1>1, <1>3, <2>1
<1> QED BY <1>2, <1>4, <1>5, <1>6 DEF t

LEMMA SwapIs ==
  ASSUME NEW s \in Seq(Nodes), Distinct(s), NEW i \in 1..Len(s), NEW n \in Nodes \ Range(s)
  PROVE  /\ Swap(s, i, n) \in Seq(Nodes) /\ Len(Swap(s, i, n)) = Len(s) /\ Distinct(Swap(s, i, n))
         /\ Range(Swap(s, i, n)) = (Range(s) \ {s[i]}) \cup {n}
         /\ \A k \in 1..Len(s) : Swap(s, i, n)[k] = IF k = i THEN n ELSE s[k]
<1> DEFINE t == Swap(s, i, n)
<1>1. /\ Len(s) \in Nat /\ \A k \in 1..Len(s) : s[k] \in Nodes /\ s[k] \in Range(s)
      /\ \A m \in Range(s) : \E k \in 1..Len(s) : s[k] = m
  BY NthIs
<1>2. /\ t \in Seq(Nodes) /\ Len(t) = Len(s)
      /\ \A k \in 1..Len(s) : t[k] = IF k = i THEN n ELSE s[k]
  BY <1>1 DEF Swap
<1> HIDE DEF t
<1>3. \A x, y \in 1..Len(s) : x # y => s[x] # s[y]
  BY DEF Distinct
<1>4. Distinct(t)
  BY <1>1, <1>2, <1>3 DEF Distinct
<1>5. (Range(s) \ {s[i]}) \cup {n} \subseteq Range(t)
  <2>1. \A k \in 1..Len(s) : t[k] \in Range(t)
    BY <1>2 DEF Range
  <2> QED BY <1>1, <1>2, <2>1
<1>6. ASSUME NEW m \in Range(t) PROVE m \in (Range(s) \ {s[i]}) \cup {n}
  <2>1. PICK k \in 1..Len(s) : t[k] = m
    BY <1>2, <1>6 DEF Range
  <2> QED BY <1>1, <1>2, <1>3, <2>1
<1> QED BY <1>2, <1>4, <1>5, <1>6 DEF t

LEMMA DropIs ==
  ASSUME NEW s \in Seq(Nodes), Distinct(s), NEW i \in 1..Len(s)
  PROVE  /\ Drop(s, i) \in Seq(Nodes) /\ Len(Drop(s, i)) = Len(s) - 1 /\ Distinct(Drop(s, i))
         /\ Range(Drop(s, i)) = Range(s) \ {s[i]}
         /\ \A k \in 1..(Len(s) - 1) : Drop(s, i)[k] = IF k < i THEN s[k] ELSE s[k + 1]
<1> DEFINE t == Drop(s, i)
<1>1. /\ Len(s) \in Nat \ {0} /\ \A k \in 1..Len(s) : s[k] \in Nodes /\ s[k] \in Range(s)
      /\ \A m \in Range(s) : \E k \in 1..Len(s) : s[k] = m
  BY NthIs
<1>2. /\ t \in Seq(Nodes) /\ Len(t) = Len(s) - 1
      /\ \A k \in 1..(Len(s) - 1) : t[k] = IF k < i THEN s[k] ELSE s[k + 1]
  BY <1>1 DEF Drop
<1> HIDE DEF t
<1>3. \A x, y \in 1..Len(s) : x # y => s[x] # s[y]
  BY DEF Distinct
<1>4. ASSUME NEW k \in 1..(Len(s) - 1)
      PROVE  \/ k < i /\ k \in 1..Len(s) /\ k # i /\ t[k] = s[k]
             \/ k >= i /\ k + 1 \in 1..Len(s) /\ k + 1 # i /\ t[k] = s[k + 1]
  BY <1>1, <1>2
<1>5. Distinct(t)
  <2> SUFFICES ASSUME NEW j \in 1..(Len(s) - 1), NEW k \in 1..(Len(s) - 1), j # k PROVE t[j] # t[k]
    BY <1>2 DEF Distinct
  <2> QED BY <1>1, <1>3, <1>4
<1>6. ASSUME NEW m \in Range(s) \ {s[i]} PROVE m \in Range(t)
  <2>1. \A k \in 1..(Len(s) - 1) : t[k] \in Range(t)
    BY <1>2 DEF Range
  <2>2. PICK k \in 1..Len(s) : s[k] = m /\ k # i
    BY <1>1, <1>6
  <2>3. CASE k < i
    BY <1>1, <1>2, <2>1, <2>2, <2>3
  <2>4. CASE k > i
    <3>1. k - 1 \in 1..(Len(s) - 1) /\ ~ (k - 1 < i) /\ (k - 1) + 1 = k
      BY <1>1, <2>4
    <3> QED BY <1>2, <2>1, <2>2, <3>1
  <2> QED BY <1>1, <2>2, <2>3, <2>4
<1>7. ASSUME NEW m \in Range(t) PROVE m \in Range(s) \ {s[i]}
  <2>1. PICK k \in 1..(Len(s) - 1) : t[k] = m
    BY <1>2, <1>7 DEF Range
  <2> QED BY <1>1, <1>3, <1>4, <2>1, SMTT(30)
<1> QED BY <1>2, <1>5, <1>6, <1>7 DEF t

\* n comes between number i and number i + 1 of the children of p.
LEMMA PutForest ==
  ASSUME NEW h, NEW K, Forest(h, K, Null), NEW p \in Nodes, h[p].type # "free",
         NEW n \in Nodes, h[n].type # "free", h[n].parent = Null,
         NEW D, n \in D, p \notin D, \A m \in D : m \in Nodes => Range(K[m]) \subseteq D,
         NEW i \in 0..Len(K[p]),
         NEW h2, PutBetween(h, h2, p, Nth(K[p], i), n, Nth(K[p], i + 1))
  PROVE  Forest(h2, [K EXCEPT ![p] = Put(K[p], i, n)], Null)
<1> DEFINE s == K[p]
           t == Put(s, i, n)
<1>1. s \in Seq(Nodes) /\ IsList(h, p, s) /\ Null \notin Nodes
  BY TreeAssumption DEF Forest
<1>2. /\ Len(s) \in Nat /\ Distinct(s)
      /\ \A k \in Int : Nth(s, k) = IF 1 <= k /\ k <= Len(s) THEN s[k] ELSE Null
      /\ \A k \in 1..Len(s) : s[k] \in Nodes /\ s[k] \in Range(s) /\ s[k] # Null
      /\ \A m \in Range(s) : \E k \in 1..Len(s) : s[k] = m
      /\ \A x, y \in 1..Len(s) : x # y => s[x] # s[y]
  <2> HIDE DEF s
  <2>1. Distinct(s) /\ \A x, y \in 1..Len(s) : x # y => s[x] # s[y]
    BY <1>1 DEF IsList, Distinct
  <2>2. /\ Len(s) \in Nat
        /\ \A k : Nth(s, k) = IF k \in 1..Len(s) THEN s[k] ELSE Null
        /\ \A k \in 1..Len(s) : s[k] \in Nodes /\ s[k] \in Range(s) /\ s[k] # Null
        /\ \A m \in Range(s) : \E k \in 1..Len(s) : s[k] = m
    BY <1>1, NthIs
  <2> QED BY <2>1, <2>2
<1>3. n \notin Range(s) /\ n # p
  <2>1. h[n].parent # p
    BY <1>1
  <2> QED BY <2>1, InList
<1>4. /\ t \in Seq(Nodes) /\ Len(t) = Len(s) + 1 /\ Distinct(t) /\ Range(t) = Range(s) \cup {n}
      /\ \A k \in 1..(Len(s) + 1) : t[k] = IF k <= i THEN s[k] ELSE IF k = i + 1 THEN n ELSE s[k - 1]
  BY <1>1, <1>2, <1>3, PutIs, SMTT(30)
<1>5. \A k \in Int : Nth(t, k) = IF k <= i THEN Nth(s, k) ELSE IF k = i + 1 THEN n ELSE Nth(s, k - 1)
  <2> SUFFICES ASSUME NEW k \in Int
               PROVE  Nth(t, k) = IF k <= i THEN Nth(s, k) ELSE IF k = i + 1 THEN n ELSE Nth(s, k - 1)
    OBVIOUS
  <2> HIDE DEF t
  <2>1. Nth(t, k) = IF 1 <= k /\ k <= Len(s) + 1 THEN t[k] ELSE Null
    BY <1>2, <1>4, NthIs
  <2>2. CASE k <= i
    BY <1>2, <1>4, <2>1, <2>2
  <2>3. CASE k = i + 1
    BY <1>2, <1>4, <2>1, <2>3
  <2>4. CASE k > i + 1
    <3>1. k - 1 \in Int /\ ~ (k <= i) /\ k # i + 1 /\ (1 <= k - 1)
      BY <1>2, <2>4
    <3> QED BY <1>2, <1>4, <2>1, <3>1
  <2> QED BY <1>2, <2>2, <2>3, <2>4
<1> DEFINE a == Nth(s, i)
           b == Nth(s, i + 1)
<1>6. /\ PutBetween(h, h2, p, a, n, b) /\ i \in Int /\ i + 1 \in Int
      /\ a = IF i = 0 THEN Null ELSE s[i]
      /\ b = IF i = Len(s) THEN Null ELSE s[i + 1]
      /\ i # 0 => i \in 1..Len(s)
      /\ i # Len(s) => i + 1 \in 1..Len(s)
  <2>1. i \in Int /\ i + 1 \in Int /\ i >= 0 /\ i <= Len(s)
    BY <1>2
  <2>2. /\ a = IF 1 <= i /\ i <= Len(s) THEN s[i] ELSE Null
        /\ b = IF 1 <= i + 1 /\ i + 1 <= Len(s) THEN s[i + 1] ELSE Null
    BY <1>2, <2>1
  <2> QED BY <1>2, <2>1, <2>2
<1> HIDE DEF s, t, a, b
<1>7. IsList(h2, p, t)
  <2>1. h2[p].firstChild = Nth(t, 1)
    <3>1. CASE i = 0
      BY <1>2, <1>4, <1>5, <1>6, <3>1 DEF PutBetween
    <3>2. CASE i # 0
      <4>1. a # Null /\ 1 <= i
        BY <1>2, <1>6, <3>2
      <4>2. h2[p].firstChild = Nth(s, 1)
        BY <1>1, <1>6, <4>1 DEF PutBetween, IsList
      <4> QED BY <1>5, <4>1, <4>2
    <3> QED BY <3>1, <3>2
  <2>2. h2[p].lastChild = Nth(t, Len(t))
    <3>1. CASE i = Len(s)
      BY <1>2, <1>4, <1>5, <1>6, <3>1 DEF PutBetween
    <3>2. CASE i # Len(s)
      <4>1. b # Null
        BY <1>2, <1>6, <3>2
      <4>2. h2[p].lastChild = Nth(s, Len(s))
        BY <1>1, <1>6, <4>1 DEF PutBetween, IsList
      <4>3. Len(t) \in Int /\ ~ (Len(t) <= i) /\ Len(t) # i + 1 /\ Len(t) - 1 = Len(s)
        BY <1>2, <1>4, <1>6, <3>2
      <4> QED BY <1>5, <4>2, <4>3
    <3> QED BY <3>1, <3>2
  <2>3. ASSUME NEW k \in 1..Len(t)
        PROVE  /\ h2[t[k]].parent = p
               /\ h2[t[k]].prev = Nth(t, k - 1) /\ h2[t[k]].next = Nth(t, k + 1)
    <3>1. CASE k = i + 1
      <4>1. k - 1 = i /\ k + 1 = (i + 1) + 1 /\ i <= i /\ ~ (k <= i) /\ ~ (k + 1 <= i) /\ k + 1 # i + 1
        BY <1>6, <3>1
      <4>2. t[k] = n /\ Nth(t, k - 1) = Nth(s, i) /\ Nth(t, k + 1) = Nth(s, i + 1)
        BY <1>4, <1>5, <1>6, <3>1, <4>1
      <4> QED BY <1>6, <4>2 DEF PutBetween, a, b
    <3>2. CASE k <= i
      <4>1. k \in 1..Len(s) /\ t[k] = s[k] /\ s[k] \in Nodes /\ s[k] # n /\ s[k] # b
        BY <1>2, <1>3, <1>4, <1>6, <3>2
      <4>2. h2[t[k]].parent = h[s[k]].parent /\ h2[t[k]].prev = h[s[k]].prev
        BY <1>6, <4>1 DEF PutBetween
      <4>3. h2[t[k]].next = IF k = i THEN n ELSE h[s[k]].next
        BY <1>2, <1>6, <3>2, <4>1 DEF PutBetween
      <4>4. h[s[k]].parent = p /\ h[s[k]].prev = Nth(s, k - 1) /\ h[s[k]].next = Nth(s, k + 1)
        BY <1>1, <4>1 DEF IsList
      <4>5. Nth(t, k - 1) = Nth(s, k - 1)
        <5>1. k - 1 \in Int /\ k - 1 <= i
          BY <1>6, <3>2
        <5> QED BY <1>5, <5>1
      <4>6. Nth(t, k + 1) = IF k = i THEN n ELSE Nth(s, k + 1)
        <5>1. k + 1 \in Int /\ (k + 1 <= i <=> k # i) /\ (k + 1 = i + 1 <=> k = i)
          BY <1>6, <3>2
        <5> QED BY <1>5, <5>1
      <4> QED BY <4>2, <4>3, <4>4, <4>5, <4>6
    <3>3. CASE k > i + 1
      <4>0. ~ (k <= i) /\ k # i + 1 /\ k \in 1..(Len(s) + 1)
        BY <1>4, <3>3
      <4>1. k - 1 \in 1..Len(s) /\ t[k] = s[k - 1] /\ s[k - 1] \in Nodes /\ s[k - 1] # n /\ s[k - 1] # a
        BY <1>2, <1>3, <1>4, <1>6, <3>3, <4>0
      <4>2. h2[t[k]].parent = h[s[k - 1]].parent /\ h2[t[k]].next = h[s[k - 1]].next
        BY <1>6, <4>1 DEF PutBetween
      <4>3. h2[t[k]].prev = IF k - 1 = i + 1 THEN n ELSE h[s[k - 1]].prev
        BY <1>2, <1>6, <3>3, <4>1 DEF PutBetween
      <4>4. /\ h[s[k - 1]].parent = p /\ h[s[k - 1]].prev = Nth(s, (k - 1) - 1)
            /\ h[s[k - 1]].next = Nth(s, (k - 1) + 1)
        BY <1>1, <4>1 DEF IsList
      <4>5. Nth(t, k + 1) = Nth(s, (k - 1) + 1)
        <5>1. k + 1 \in Int /\ ~ (k + 1 <= i) /\ k + 1 # i + 1 /\ (k + 1) - 1 = (k - 1) + 1
          BY <1>6, <3>3
        <5> QED BY <1>5, <5>1
      <4>6. Nth(t, k - 1) = IF k - 1 = i + 1 THEN n ELSE Nth(s, (k - 1) - 1)
        <5>1. k - 1 \in Int /\ ~ (k - 1 <= i)
          BY <1>6, <3>3
        <5> QED BY <1>5, <5>1
      <4> QED BY <4>2, <4>3, <4>4, <4>5, <4>6
    <3> QED BY <1>2, <1>4, <3>1, <3>2, <3>3
  <2> QED BY <1>4, <2>1, <2>2, <2>3 DEF IsList
<1>8. NoCycle(h2)
  <2>1. \A m \in Nodes : h2[m].parent = IF m = n THEN p ELSE h[m].parent
    BY <1>6 DEF PutBetween
  <2> QED BY <2>1, NoCycleLinked
<1>9. ListChanged(h, s, p, t, Null, h2)
  <2>1. (a = Null \/ a \in Range(s)) /\ (b = Null \/ b \in Range(s))
    BY <1>2, <1>6
  <2>2. \A m \in Nodes : m \notin Range(s) /\ m \notin Range(t) =>
           /\ h2[m].parent = h[m].parent /\ h2[m].prev = h[m].prev /\ h2[m].next = h[m].next
           /\ m # p => h2[m] = h[m]
    BY <1>1, <1>4, <1>6, <2>1 DEF PutBetween
  <2>3. Null \notin Range(t) /\ Range(s) \subseteq Range(t) \cup {Null}
    BY <1>1, <1>2, <1>4
  <2>4. \A m \in Range(t) : m \in Range(s) \/ (h[m].parent = Null /\ h[m].type # "free")
    BY <1>4
  <2> QED BY <1>4, <1>6, <1>7, <1>8, <2>2, <2>3, <2>4 DEF ListChanged, PutBetween
<1>10. Forest(h2, [K EXCEPT ![p] = t], Null)
  BY <1>9, Relinked DEF s
<1> QED BY <1>10 DEF s, t

\* n comes in place of number i of the children of p, which is in no list any more.
LEMMA SwapForest ==
  ASSUME NEW h, NEW K, Forest(h, K, Null), NEW p \in Nodes, h[p].type # "free",
         NEW n \in Nodes, h[n].type # "free", h[n].parent = Null,
         NEW D, n \in D, p \notin D, \A m \in D : m \in Nodes => Range(K[m]) \subseteq D,
         NEW i \in 1..Len(K[p]),
         NEW h2, PutBetween(h, h2, p, Nth(K[p], i - 1), n, Nth(K[p], i + 1))
  PROVE  Forest(h2, [K EXCEPT ![p] = Swap(K[p], i, n)], K[p][i])
<1> DEFINE s == K[p]
           t == Swap(s, i, n)
<1>1. s \in Seq(Nodes) /\ IsList(h, p, s) /\ Null \notin Nodes
  BY TreeAssumption DEF Forest
<1>2. /\ Len(s) \in Nat /\ Distinct(s)
      /\ \A k \in Int : Nth(s, k) = IF 1 <= k /\ k <= Len(s) THEN s[k] ELSE Null
      /\ \A k \in 1..Len(s) : s[k] \in Nodes /\ s[k] \in Range(s) /\ s[k] # Null
      /\ \A m \in Range(s) : \E k \in 1..Len(s) : s[k] = m
      /\ \A x, y \in 1..Len(s) : x # y => s[x] # s[y]
  <2> HIDE DEF s
  <2>1. Distinct(s) /\ \A x, y \in 1..Len(s) : x # y => s[x] # s[y]
    BY <1>1 DEF IsList, Distinct
  <2>2. /\ Len(s) \in Nat
        /\ \A k : Nth(s, k) = IF k \in 1..Len(s) THEN s[k] ELSE Null
        /\ \A k \in 1..Len(s) : s[k] \in Nodes /\ s[k] \in Range(s) /\ s[k] # Null
        /\ \A m \in Range(s) : \E k \in 1..Len(s) : s[k] = m
    BY <1>1, NthIs
  <2> QED BY <2>1, <2>2
<1>3. n \notin Range(s) /\ n # p
  <2>1. h[n].parent # p
    BY <1>1
  <2> QED BY <2>1, InList
<1>4. /\ t \in Seq(Nodes) /\ Len(t) = Len(s) /\ Distinct(t) /\ Range(t) = (Range(s) \ {s[i]}) \cup {n}
      /\ \A k \in 1..Len(s) : t[k] = IF k = i THEN n ELSE s[k]
  <2>1. i \in 1..Len(s) /\ n \in Nodes \ Range(s)
    BY <1>3
  <2> HIDE DEF s
  <2> QED BY <1>1, <1>2, <2>1, SwapIs
<1>5. \A k \in Int : Nth(t, k) = IF k = i THEN n ELSE Nth(s, k)
  <2> SUFFICES ASSUME NEW k \in Int PROVE Nth(t, k) = IF k = i THEN n ELSE Nth(s, k)
    OBVIOUS
  <2> HIDE DEF t
  <2>1. Nth(t, k) = IF 1 <= k /\ k <= Len(s) THEN t[k] ELSE Null
    <3>1. Nth(t, k) = IF k \in 1..Len(s) THEN t[k] ELSE Null
      BY <1>4, NthIs
    <3>2. PICK l \in Nat : l = Len(s)
      BY <1>2
    <3> QED BY <3>1, <3>2
  <2>2. Nth(s, k) = IF 1 <= k /\ k <= Len(s) THEN s[k] ELSE Null
    BY <1>2
  <2>0. i \in 1..Len(s)
    OBVIOUS
  <2> HIDE DEF s
  <2>3. CASE k = i
    <3>1. 1 <= k /\ k <= Len(s) /\ k \in 1..Len(s)
      BY <1>2, <2>0, <2>3
    <3>2. t[k] = n
      BY <1>4, <2>3, <3>1
    <3> QED BY <2>1, <2>3, <3>1, <3>2
  <2>4. CASE k # i /\ k \in 1..Len(s)
    <3>1. t[k] = s[k]
      BY <1>4, <2>4
    <3> QED BY <1>2, <2>1, <2>2, <2>4, <3>1
  <2>5. CASE k \notin 1..Len(s)
    <3>1. ~ (1 <= k /\ k <= Len(s)) /\ k # i
      <4>1. PICK l \in Nat : l = Len(s)
        BY <1>2
      <4> QED BY <2>0, <2>5, <4>1
    <3> QED BY <2>1, <2>2, <3>1
  <2> QED BY <2>3, <2>4, <2>5
<1> DEFINE a == Nth(s, i - 1)
           b == Nth(s, i + 1)
<1>6. /\ PutBetween(h, h2, p, a, n, b) /\ i \in Int /\ i - 1 \in Int /\ i + 1 \in Int
      /\ a = IF i = 1 THEN Null ELSE s[i - 1]
      /\ b = IF i = Len(s) THEN Null ELSE s[i + 1]
      /\ i # 1 => i - 1 \in 1..Len(s)
      /\ i # Len(s) => i + 1 \in 1..Len(s)
  <2>1. i \in Int /\ i - 1 \in Int /\ i + 1 \in Int /\ i >= 1 /\ i <= Len(s)
    BY <1>2
  <2>2. /\ a = IF 1 <= i - 1 /\ i - 1 <= Len(s) THEN s[i - 1] ELSE Null
        /\ b = IF 1 <= i + 1 /\ i + 1 <= Len(s) THEN s[i + 1] ELSE Null
    BY <1>2, <2>1
  <2>3. PutBetween(h, h2, p, a, n, b)
    OBVIOUS
  <2> HIDE DEF s, a, b
  <2>4. Len(s) \in Nat
    BY <1>2
  <2>5. /\ a = IF i = 1 THEN Null ELSE s[i - 1]
        /\ i # 1 => i - 1 \in 1..Len(s)
    BY <2>1, <2>2, <2>4
  <2>6. /\ b = IF i = Len(s) THEN Null ELSE s[i + 1]
        /\ i # Len(s) => i + 1 \in 1..Len(s)
    BY <2>1, <2>2, <2>4
  <2> QED BY <2>1, <2>3, <2>5, <2>6
<1> HIDE DEF s, t, a, b
<1>7. IsList(h2, p, t)
  <2>1. h2[p].firstChild = Nth(t, 1)
    <3>1. CASE i = 1
      BY <1>5, <1>6, <3>1 DEF PutBetween
    <3>2. CASE i # 1
      <4>1. a # Null
        BY <1>2, <1>6, <3>2
      <4>2. h2[p].firstChild = Nth(s, 1)
        BY <1>1, <1>6, <4>1 DEF PutBetween, IsList
      <4> QED BY <1>5, <3>2, <4>2
    <3> QED BY <3>1, <3>2
  <2>2. h2[p].lastChild = Nth(t, Len(t))
    <3>1. CASE i = Len(s)
      BY <1>4, <1>5, <1>6, <3>1 DEF PutBetween
    <3>2. CASE i # Len(s)
      <4>1. b # Null
        BY <1>2, <1>6, <3>2
      <4>2. h2[p].lastChild = Nth(s, Len(s))
        BY <1>1, <1>6, <4>1 DEF PutBetween, IsList
      <4> QED BY <1>2, <1>4, <1>5, <3>2, <4>2
    <3> QED BY <3>1, <3>2
  <2>3. ASSUME NEW k \in 1..Len(t)
        PROVE  /\ h2[t[k]].parent = p
               /\ h2[t[k]].prev = Nth(t, k - 1) /\ h2[t[k]].next = Nth(t, k + 1)
    <3>0. k \in 1..Len(s) /\ k \in Int /\ k - 1 \in Int /\ k + 1 \in Int
      BY <1>2, <1>4
    <3>1. CASE k = i
      <4>1. t[k] = n /\ Nth(t, k - 1) = Nth(s, i - 1) /\ Nth(t, k + 1) = Nth(s, i + 1)
        BY <1>4, <1>5, <1>6, <3>0, <3>1
      <4> QED BY <1>6, <4>1 DEF PutBetween, a, b
    <3>2. CASE k # i
      <4>1. t[k] = s[k] /\ s[k] \in Nodes /\ s[k] # n
        BY <1>2, <1>3, <1>4, <3>0, <3>2
      <4>2. h2[t[k]].parent = h[s[k]].parent
        BY <1>6, <4>1 DEF PutBetween
      <4>3. h2[t[k]].next = IF k = i - 1 THEN n ELSE h[s[k]].next
        <5>1. s[k] = a <=> k = i - 1
          BY <1>2, <1>6, <3>0, <4>1, SMTT(30)
        <5> QED BY <1>6, <4>1, <5>1 DEF PutBetween
      <4>4. h2[t[k]].prev = IF k = i + 1 THEN n ELSE h[s[k]].prev
        <5>1. s[k] = b <=> k = i + 1
          BY <1>2, <1>6, <3>0, <4>1, SMTT(30)
        <5> QED BY <1>6, <4>1, <5>1 DEF PutBetween
      <4>5. h[s[k]].parent = p /\ h[s[k]].prev = Nth(s, k - 1) /\ h[s[k]].next = Nth(s, k + 1)
        BY <1>1, <3>0 DEF IsList
      <4>6. /\ Nth(t, k - 1) = IF k = i + 1 THEN n ELSE Nth(s, k - 1)
            /\ Nth(t, k + 1) = IF k = i - 1 THEN n ELSE Nth(s, k + 1)
        <5>1. (k - 1 = i <=> k = i + 1) /\ (k + 1 = i <=> k = i - 1)
          BY <1>6, <3>0
        <5> QED BY <1>5, <3>0, <5>1
      <4> QED BY <4>2, <4>3, <4>4, <4>5, <4>6
    <3> QED BY <3>1, <3>2
  <2> QED BY <1>4, <2>1, <2>2, <2>3 DEF IsList
<1>8. NoCycle(h2)
  <2>1. \A m \in Nodes : h2[m].parent = IF m = n THEN p ELSE h[m].parent
    BY <1>6 DEF PutBetween
  <2> QED BY <2>1, NoCycleLinked
<1>9. ListChanged(h, s, p, t, s[i], h2)
  <2>0. i \in 1..Len(s) /\ s[i] \in Range(s)
    BY <1>2 DEF s
  <2>1. (a = Null \/ a \in Range(s)) /\ (b = Null \/ b \in Range(s))
    BY <1>2, <1>6
  <2>2. \A m \in Nodes : m \notin Range(s) /\ m \notin Range(t) =>
           /\ h2[m].parent = h[m].parent /\ h2[m].prev = h[m].prev /\ h2[m].next = h[m].next
           /\ m # p => h2[m] = h[m]
    BY <1>1, <1>4, <1>6, <2>1 DEF PutBetween
  <2>3. s[i] \notin Range(t) /\ Range(s) \subseteq Range(t) \cup {s[i]}
    BY <1>3, <1>4, <2>0
  <2>4. \A m \in Range(t) : m \in Range(s) \/ (h[m].parent = Null /\ h[m].type # "free")
    BY <1>4
  <2>5. \A m \in Nodes \ {p} : h2[m].firstChild = h[m].firstChild /\ h2[m].lastChild = h[m].lastChild
    BY <1>6 DEF PutBetween
  <2> QED BY <1>4, <1>6, <1>7, <1>8, <2>0, <2>2, <2>3, <2>4, <2>5 DEF ListChanged, PutBetween
<1>10. Forest(h2, [K EXCEPT ![p] = t], s[i])
  BY <1>9, Relinked DEF s
<1> QED BY <1>10 DEF s, t

\* Number i of the children of p is taken out.
LEMMA DropForest ==
  ASSUME NEW h, NEW K, Forest(h, K, Null), NEW p \in Nodes, h[p].type # "free",
         NEW i \in 1..Len(K[p]),
         NEW h2, LinksJoined(h, h2, p, Nth(K[p], i - 1), Nth(K[p], i + 1))
  PROVE  Forest(h2, [K EXCEPT ![p] = Drop(K[p], i)], K[p][i])
<1> DEFINE s == K[p]
           t == Drop(s, i)
<1>1. s \in Seq(Nodes) /\ IsList(h, p, s) /\ Null \notin Nodes
  BY TreeAssumption DEF Forest
<1>2. /\ Len(s) \in Nat /\ Distinct(s)
      /\ \A k \in Int : Nth(s, k) = IF 1 <= k /\ k <= Len(s) THEN s[k] ELSE Null
      /\ \A k \in 1..Len(s) : s[k] \in Nodes /\ s[k] \in Range(s) /\ s[k] # Null
      /\ \A m \in Range(s) : \E k \in 1..Len(s) : s[k] = m
      /\ \A x, y \in 1..Len(s) : x # y => s[x] # s[y]
  <2> HIDE DEF s
  <2>1. Distinct(s) /\ \A x, y \in 1..Len(s) : x # y => s[x] # s[y]
    BY <1>1 DEF IsList, Distinct
  <2>2. /\ Len(s) \in Nat
        /\ \A k : Nth(s, k) = IF k \in 1..Len(s) THEN s[k] ELSE Null
        /\ \A k \in 1..Len(s) : s[k] \in Nodes /\ s[k] \in Range(s) /\ s[k] # Null
        /\ \A m \in Range(s) : \E k \in 1..Len(s) : s[k] = m
    BY <1>1, NthIs
  <2> QED BY <2>1, <2>2
<1>4. /\ t \in Seq(Nodes) /\ Len(t) = Len(s) - 1 /\ Distinct(t) /\ Range(t) = Range(s) \ {s[i]}
      /\ \A k \in 1..(Len(s) - 1) : t[k] = IF k < i THEN s[k] ELSE s[k + 1]
  BY <1>1, <1>2, DropIs
<1>5. \A k \in Int : Nth(t, k) = IF k < i THEN Nth(s, k) ELSE Nth(s, k + 1)
  <2> SUFFICES ASSUME NEW k \in Int PROVE Nth(t, k) = IF k < i THEN Nth(s, k) ELSE Nth(s, k + 1)
    OBVIOUS
  <2> HIDE DEF t
  <2>1. Nth(t, k) = IF 1 <= k /\ k <= Len(s) - 1 THEN t[k] ELSE Null
    BY <1>2, <1>4, NthIs
  <2>2. CASE k < i
    BY <1>2, <1>4, <2>1, <2>2, SMTT(30)
  <2>3. CASE k >= i
    <3>1. k + 1 \in Int /\ ~ (k < i) /\ 1 <= k /\ 1 <= k + 1
      BY <1>2, <2>3
    <3> QED BY <1>2, <1>4, <2>1, <3>1
  <2> QED BY <1>2, <2>2, <2>3
<1> DEFINE a == Nth(s, i - 1)
           b == Nth(s, i + 1)
<1>6. /\ LinksJoined(h, h2, p, a, b) /\ i \in Int /\ i - 1 \in Int /\ i + 1 \in Int
      /\ a = IF i = 1 THEN Null ELSE s[i - 1]
      /\ b = IF i = Len(s) THEN Null ELSE s[i + 1]
      /\ i # 1 => i - 1 \in 1..Len(s)
      /\ i # Len(s) => i + 1 \in 1..Len(s)
  <2>1. i \in Int /\ i - 1 \in Int /\ i + 1 \in Int /\ i >= 1 /\ i <= Len(s)
    BY <1>2
  <2>2. /\ a = IF 1 <= i - 1 /\ i - 1 <= Len(s) THEN s[i - 1] ELSE Null
        /\ b = IF 1 <= i + 1 /\ i + 1 <= Len(s) THEN s[i + 1] ELSE Null
    BY <1>2, <2>1
  <2> QED BY <1>2, <2>1, <2>2, SMTT(30)
<1>11. i \in 1..Len(s)
  OBVIOUS
<1> HIDE DEF s, t, a, b
<1>7. IsList(h2, p, t)
  <2>1. h2[p].firstChild = Nth(t, 1)
    <3>1. CASE i = 1
      <4>1. h2[p].firstChild = Nth(s, i + 1)
        BY <1>6, <3>1 DEF LinksJoined, b
      <4> QED BY <1>5, <3>1, <4>1
    <3>2. CASE i # 1
      <4>1. a # Null /\ 1 < i
        BY <1>2, <1>6, <1>11, <3>2
      <4>2. h2[p].firstChild = Nth(s, 1)
        BY <1>1, <1>6, <4>1 DEF LinksJoined, IsList
      <4> QED BY <1>5, <4>1, <4>2
    <3> QED BY <3>1, <3>2
  <2>2. h2[p].lastChild = Nth(t, Len(t))
    <3>1. CASE i = Len(s)
      <4>1. h2[p].lastChild = Nth(s, i - 1)
        BY <1>6, <3>1 DEF LinksJoined, a
      <4>2. Len(t) = i - 1 /\ i - 1 < i
        BY <1>4, <1>6, <3>1
      <4> QED BY <1>5, <1>6, <4>1, <4>2
    <3>2. CASE i # Len(s)
      <4>1. b # Null
        BY <1>2, <1>6, <3>2
      <4>2. h2[p].lastChild = Nth(s, Len(s))
        BY <1>1, <1>6, <4>1 DEF LinksJoined, IsList
      <4>3. Len(t) \in Int /\ ~ (Len(t) < i) /\ Len(t) + 1 = Len(s)
        BY <1>2, <1>4, <1>11, <3>2
      <4> QED BY <1>5, <4>2, <4>3
    <3> QED BY <3>1, <3>2
  <2>3. ASSUME NEW k \in 1..Len(t)
        PROVE  /\ h2[t[k]].parent = p
               /\ h2[t[k]].prev = Nth(t, k - 1) /\ h2[t[k]].next = Nth(t, k + 1)
    <3>0. /\ k \in 1..(Len(s) - 1) /\ k \in Int /\ k - 1 \in Int /\ k + 1 \in Int
          /\ k \in 1..Len(s) /\ k + 1 \in 1..Len(s) /\ (k + 1) + 1 \in Int /\ (k + 1) - 1 = k
      BY <1>2, <1>4, SMTT(30)
    <3>1. CASE k < i
      <4>1. t[k] = s[k] /\ s[k] \in Nodes /\ s[k] # b
        BY <1>2, <1>4, <1>6, <3>0, <3>1
      <4>2. h2[t[k]].parent = h[s[k]].parent /\ h2[t[k]].prev = h[s[k]].prev
        BY <1>6, <4>1 DEF LinksJoined
      <4>3. h2[t[k]].next = IF k = i - 1 THEN Nth(s, i + 1) ELSE h[s[k]].next
        <5>1. s[k] = a <=> k = i - 1
          <6>1. CASE i = 1
            BY <1>6, <3>0, <4>1, <6>1, <1>2
          <6>2. CASE i # 1
            <7>1. i - 1 \in 1..Len(s) /\ a = s[i - 1]
              BY <1>6, <6>2
            <7> QED BY <1>2, <3>0, <7>1
          <6> QED BY <6>1, <6>2
        <5>2. h2[s[k]].next = IF s[k] = a THEN b ELSE h[s[k]].next
          BY <1>6, <4>1 DEF LinksJoined
        <5>3. b = Nth(s, i + 1)
          BY DEF b
        <5> QED BY <4>1, <5>1, <5>2, <5>3
      <4>4. h[s[k]].parent = p /\ h[s[k]].prev = Nth(s, k - 1) /\ h[s[k]].next = Nth(s, k + 1)
        BY <1>1, <3>0 DEF IsList
      <4>5. Nth(t, k - 1) = Nth(s, k - 1)
        <5>1. k - 1 < i
          BY <1>6, <3>0, <3>1
        <5> QED BY <1>5, <3>0, <5>1
      <4>6. Nth(t, k + 1) = IF k = i - 1 THEN Nth(s, i + 1) ELSE Nth(s, k + 1)
        <5>1. (k + 1 < i <=> k # i - 1) /\ (k = i - 1 => (k + 1) + 1 = i + 1)
          BY <1>6, <3>0, <3>1
        <5> QED BY <1>5, <3>0, <5>1
      <4> QED BY <4>2, <4>3, <4>4, <4>5, <4>6
    <3>2. CASE k >= i
      <4>0. ~ (k < i)
        BY <1>6, <3>0, <3>2, SMTT(30)
      <4>1. t[k] = s[k + 1] /\ s[k + 1] \in Nodes
        BY <1>2, <1>4, <3>0, <4>0
      <4>7. s[k + 1] # a
        BY <1>2, <1>6, <3>0, <3>2, <4>1
      <4>2. h2[t[k]].parent = h[s[k + 1]].parent /\ h2[t[k]].next = h[s[k + 1]].next
        BY <1>6, <4>1, <4>7 DEF LinksJoined
      <4>3. h2[t[k]].prev = IF k = i THEN Nth(s, i - 1) ELSE h[s[k + 1]].prev
        <5>1. s[k + 1] = b <=> k = i
          <6>1. CASE i = Len(s)
            <7>1. b = Null /\ k # i /\ s[k + 1] # Null
              BY <1>2, <1>6, <3>0, <6>1
            <7> QED BY <7>1
          <6>2. CASE i # Len(s)
            <7>1. i + 1 \in 1..Len(s) /\ b = s[i + 1]
              BY <1>6, <6>2
            <7>2. s[k + 1] = s[i + 1] <=> k + 1 = i + 1
              BY <1>2, <3>0, <7>1
            <7>3. k + 1 = i + 1 <=> k = i
              BY <1>6, <3>0
            <7> QED BY <7>1, <7>2, <7>3
          <6> QED BY <6>1, <6>2
        <5>2. h2[s[k + 1]].prev = IF s[k + 1] = b THEN a ELSE h[s[k + 1]].prev
          BY <1>6, <4>1 DEF LinksJoined
        <5>3. a = Nth(s, i - 1)
          BY DEF a
        <5> QED BY <4>1, <5>1, <5>2, <5>3
      <4>4. /\ h[s[k + 1]].parent = p /\ h[s[k + 1]].prev = Nth(s, (k + 1) - 1)
            /\ h[s[k + 1]].next = Nth(s, (k + 1) + 1)
        BY <1>1, <3>0 DEF IsList
      <4>5. Nth(t, k + 1) = Nth(s, (k + 1) + 1)
        <5>1. ~ (k + 1 < i)
          BY <1>6, <3>0, <3>2
        <5> QED BY <1>5, <3>0, <5>1
      <4>6. Nth(t, k - 1) = IF k = i THEN Nth(s, i - 1) ELSE Nth(s, k)
        <5>1. (k - 1 < i <=> k = i) /\ (k - 1) + 1 = k
          BY <1>6, <3>0, <3>2
        <5> QED BY <1>5, <3>0, <5>1
      <4> QED BY <3>0, <4>2, <4>3, <4>4, <4>5, <4>6
    <3> QED BY <1>6, <3>0, <3>1, <3>2
  <2> QED BY <1>4, <2>1, <2>2, <2>3 DEF IsList
<1>8. NoCycle(h2)
  BY <1>6 DEF Forest, NoCycle, LinksJoined
<1>9. ListChanged(h, s, p, t, s[i], h2)
  <2>0. s[i] \in Range(s)
    BY <1>2, <1>11
  <2>1. (a = Null \/ a \in Range(s)) /\ (b = Null \/ b \in Range(s))
    BY <1>2, <1>6
  <2>2. \A m \in Nodes : m \notin Range(s) /\ m \notin Range(t) =>
           /\ h2[m].parent = h[m].parent /\ h2[m].prev = h[m].prev /\ h2[m].next = h[m].next
           /\ m # p => h2[m] = h[m]
    BY <1>1, <1>4, <1>6, <2>1 DEF LinksJoined
  <2>3. s[i] \notin Range(t) /\ Range(s) \subseteq Range(t) \cup {s[i]}
    BY <1>4, <2>0
  <2>4. \A m \in Range(t) : m \in Range(s) \/ (h[m].parent = Null /\ h[m].type # "free")
    BY <1>4
  <2>5. \A m \in Nodes \ {p} : h2[m].firstChild = h[m].firstChild /\ h2[m].lastChild = h[m].lastChild
    BY <1>6 DEF LinksJoined
  <2> QED BY <1>4, <1>6, <1>7, <1>8, <2>0, <2>2, <2>3, <2>4, <2>5 DEF ListChanged, LinksJoined
<1>10. Forest(h2, [K EXCEPT ![p] = t], s[i])
  BY <1>9, Relinked DEF s
<1> QED BY <1>10 DEF s, t

-----------------------------------------------------------------------------
(***************************************************************************)
(* Labels, deletions and clones                                            *)
(***************************************************************************)
SameLinks(h, h2) ==
  \A m \in Nodes : /\ h2[m].parent = h[m].parent /\ h2[m].prev = h[m].prev /\ h2[m].next = h[m].next
                   /\ h2[m].firstChild = h[m].firstChild /\ h2[m].lastChild = h[m].lastChild

LEMMA SameLinksForest ==
  ASSUME NEW h, NEW K, Forest(h, K, Null), NEW h2 \in [Nodes -> NodeType], SameLinks(h, h2),
         \A m \in Nodes : h2[m].type = "free" => h2[m] = Freed
  PROVE  Forest(h2, K, Null)
<1>1. /\ K \in [Nodes -> Seq(Nodes)] /\ NoCycle(h)
      /\ \A p \in Nodes : IsList(h, p, K[p]) /\ Null \notin Range(K[p])
      /\ \A n \in Nodes : IF h[n].parent = Null THEN h[n].prev = Null /\ h[n].next = Null
                          ELSE n \in Range(K[h[n].parent])
  BY TreeAssumption DEF Forest
<1>2. ASSUME NEW p \in Nodes PROVE IsList(h2, p, K[p])
  <2>1. IsList(h, p, K[p]) /\ \A i \in 1..Len(K[p]) : K[p][i] \in Nodes
    BY <1>1, NthIs
  <2> QED BY <2>1 DEF IsList, SameLinks
<1>3. NoCycle(h2)
  BY <1>1 DEF NoCycle, SameLinks
<1>4. \A n \in Nodes : IF h2[n].parent = Null THEN h2[n].prev = Null /\ h2[n].next = Null
                       ELSE n \in Range(K[h2[n].parent])
  BY <1>1 DEF SameLinks
<1> QED BY <1>1, <1>2, <1>3, <1>4 DEF Forest

Without(K, D) == [m \in Nodes |-> IF m \in D THEN <<>> ELSE K[m]]

\* The nodes D are below n, which is freed with them, or stays without children.
Freeing(h, K, D, n, c, h2) ==
  /\ n \in D /\ D \subseteq Nodes
  /\ \A m \in D \ {n} : h[m].parent \in D
  /\ \A m \in D : Range(K[m]) \subseteq D
  /\ h2 \in [Nodes -> NodeType]
  /\ \A m \in Nodes \ D : h2[m] = h[m]
  /\ \A m \in D \ {n} : h2[m] = Freed
  /\ \/ c = n /\ h2[n] = Freed
     \/ /\ c = Null /\ h[n].type # "free" /\ h2[n].type = h[n].type
        /\ h2[n].parent = h[n].parent /\ h2[n].prev = h[n].prev /\ h2[n].next = h[n].next
        /\ h2[n].firstChild = Null /\ h2[n].lastChild = Null

LEMMA FreedIs ==
  /\ Freed.type = "free" /\ Freed.parent = Null /\ Freed.prev = Null /\ Freed.next = Null
  /\ Freed.firstChild = Null /\ Freed.lastChild = Null /\ Freed.attributes = <<>>
  /\ Freed \in NodeType
  BY DEF Freed, NewNode, NodeType, Types

LEMMA FreeingForest ==
  ASSUME NEW h, NEW K, NEW c, Forest(h, K, c), NEW D, NEW n, NEW h2, Freeing(h, K, D, n, c, h2)
  PROVE  Forest(h2, Without(K, D), Null)
<1> DEFINE K2 == Without(K, D)
<1>1. /\ h \in [Nodes -> NodeType] /\ K \in [Nodes -> Seq(Nodes)] /\ NoCycle(h)
      /\ \A p \in Nodes : K[p] \in Seq(Nodes) /\ IsList(h, p, K[p]) /\ c \notin Range(K[p])
      /\ Null \notin Nodes
  BY TreeAssumption DEF Forest
<1>2. /\ n \in D /\ D \subseteq Nodes
      /\ \A m \in D \ {n} : h[m].parent \in D
      /\ \A m \in D : Range(K[m]) \subseteq D
      /\ h2 \in [Nodes -> NodeType]
      /\ \A m \in Nodes \ D : h2[m] = h[m]
      /\ \A m \in D \ {n} : h2[m] = Freed
  BY DEF Freeing
<1>3. \/ c = n /\ h2[n] = Freed
      \/ /\ c = Null /\ h[n].type # "free" /\ h2[n].type = h[n].type
         /\ h2[n].parent = h[n].parent /\ h2[n].prev = h[n].prev /\ h2[n].next = h[n].next
         /\ h2[n].firstChild = Null /\ h2[n].lastChild = Null
  BY DEF Freeing
<1>4. K2 \in [Nodes -> Seq(Nodes)] /\ \A m \in Nodes : K2[m] = IF m \in D THEN <<>> ELSE K[m]
  BY <1>1 DEF Without
<1> HIDE DEF K2
<1>5. ASSUME NEW p \in Nodes PROVE IsList(h2, p, K2[p]) /\ Null \notin Range(K2[p])
  <2>1. CASE p \in D
    <3>1. h2[p].firstChild = Null /\ h2[p].lastChild = Null
      BY <1>2, <1>3, <2>1, FreedIs
    <3>2. K2[p] = <<>> /\ Len(<<>>) = 0 /\ 1..0 = {} /\ Nth(<<>>, 1) = Null /\ Nth(<<>>, 0) = Null
      BY <1>4, <2>1 DEF Nth
    <3> QED BY <3>1, <3>2 DEF IsList, Distinct, Range
  <2>2. CASE p \notin D
    <3>1. K2[p] = K[p] /\ h2[p] = h[p] /\ IsList(h, p, K[p]) /\ K[p] \in Seq(Nodes)
      BY <1>1, <1>2, <1>4, <2>2
    <3>2. ASSUME NEW i \in 1..Len(K[p])
          PROVE  /\ h2[K[p][i]].parent = h[K[p][i]].parent /\ h2[K[p][i]].prev = h[K[p][i]].prev
                 /\ h2[K[p][i]].next = h[K[p][i]].next
      <4>1. K[p][i] \in Nodes /\ K[p][i] \in Range(K[p]) /\ h[K[p][i]].parent = p
        BY <3>1, NthIs DEF IsList
      <4>2. K[p][i] \in D => K[p][i] = n
        BY <1>2, <2>2, <4>1
      <4>3. K[p][i] = n => c = Null
        BY <1>1, <1>3, <4>1
      <4> QED BY <1>1, <1>2, <1>3, <4>1, <4>2, <4>3
    <3>3. Null \notin Range(K[p])
      BY <1>1, <3>1, NthIs
    <3> QED BY <3>1, <3>2, <3>3 DEF IsList
  <2> QED BY <2>1, <2>2
<1>6. ASSUME NEW m \in Nodes
      PROVE  IF h2[m].parent = Null THEN h2[m].prev = Null /\ h2[m].next = Null
             ELSE m \in Range(K2[h2[m].parent])
  <2>1. CASE h2[m] = Freed
    BY <2>1, FreedIs
  <2>2. CASE h2[m] # Freed
    <3>1. h2[m].parent = h[m].parent /\ h2[m].prev = h[m].prev /\ h2[m].next = h[m].next /\ m # c
      BY <1>1, <1>2, <1>3, <2>2
    <3>2. IF h[m].parent = Null THEN h[m].prev = Null /\ h[m].next = Null
          ELSE m \in Range(K[h[m].parent])
      BY <3>1 DEF Forest
    <3>3. ASSUME h[m].parent # Null PROVE m \in Range(K2[h[m].parent])
      <4>1. h[m].parent \in Nodes /\ m \in Range(K[h[m].parent])
        BY <1>1, <3>2, <3>3 DEF NodeType
      <4>2. CASE h[m].parent \in D
        <5>1. m = n
          BY <1>2, <2>2, <4>1, <4>2
        <5>2. \A x \in D : h[x].parent \in D
          BY <1>2, <4>2, <5>1
        <5> QED BY <1>1, <1>2, <5>2 DEF NoCycle
      <4>3. CASE h[m].parent \notin D
        BY <1>4, <4>1, <4>3
      <4> QED BY <4>2, <4>3
    <3> QED BY <3>1, <3>2, <3>3
  <2> QED BY <2>1, <2>2
<1>7. \A m \in Nodes : h2[m].type = "free" => h2[m] = Freed
  <2>1. \A m \in Nodes : h[m].type = "free" => h[m] = Freed
    BY DEF Forest
  <2> QED BY <1>2, <1>3, <2>1
<1>8. NoCycle(h2)
  <2> SUFFICES ASSUME NEW S \in SUBSET Nodes, S # {} PROVE \E m \in S : h2[m].parent \notin S
    BY DEF NoCycle
  <2>1. PICK m \in S : h[m].parent \notin S
    BY <1>1 DEF NoCycle
  <2>2. h2[m].parent = h[m].parent \/ h2[m].parent = Null
    BY <1>2, <1>3, FreedIs
  <2> QED BY <1>1, <2>1, <2>2
<1>9. Forest(h2, K2, Null)
  BY <1>2, <1>4, <1>5, <1>6, <1>7, <1>8 DEF Forest
<1> QED BY <1>9 DEF K2

LEMMA DeletedForest ==
  ASSUME NEW h, NEW K, NEW n \in Nodes, Forest(h, K, n)
  PROVE  Forest(Deleted(h, n), Without(K, Subtree(h, n)), Null)
<1> DEFINE D == Subtree(h, n)
           h2 == Deleted(h, n)
<1>1. /\ n \in D /\ D \subseteq Nodes
      /\ \A m \in D \ {n} : h[m].parent \in D
      /\ \A m \in D : Range(K[m]) \subseteq D
  BY SubtreeIs
<1> HIDE DEF D
<1>2. h2 = [m \in Nodes |-> IF m \in D THEN Freed ELSE h[m]] /\ h \in [Nodes -> NodeType]
  BY DEF Deleted, FreeAll, D, Forest
<1> HIDE DEF h2
<1>3. Freeing(h, K, D, n, n, h2)
  BY <1>1, <1>2, FreedIs DEF Freeing
<1> QED BY <1>3, FreeingForest DEF D, h2

\* h2 is h after Clear: D is n and what is below it.
EmptiedAt(h, D, n, h2) ==
  /\ h2 \in [Nodes -> NodeType]
  /\ \A m \in Nodes \ D : h2[m] = h[m]
  /\ \A m \in D \ {n} : h2[m] = Freed
  /\ h2[n].type = h[n].type /\ h2[n].value = h[n].value
  /\ h2[n].attributes = h[n].attributes /\ h2[n].error = h[n].error
  /\ h2[n].parent = h[n].parent /\ h2[n].prev = h[n].prev /\ h2[n].next = h[n].next
  /\ h2[n].firstChild = Null /\ h2[n].lastChild = Null

LEMMA EmptiedIs ==
  ASSUME NEW h \in [Nodes -> NodeType], NEW n \in Nodes, n \in Subtree(h, n), Subtree(h, n) \subseteq Nodes
  PROVE  EmptiedAt(h, Subtree(h, n), n, Emptied(h, n))
<1> DEFINE D == Subtree(h, n)
           h2 == Emptied(h, n)
<1>1. n \in D /\ D \subseteq Nodes
  OBVIOUS
<1> HIDE DEF D
<1>2. PICK g : g = FreeAll(h, D \ {n})
  OBVIOUS
<1>3. g = [m \in Nodes |-> IF m \in D \ {n} THEN Freed ELSE h[m]]
  BY <1>2 DEF FreeAll
<1>4. h2 = [g EXCEPT ![n].firstChild = Null, ![n].lastChild = Null]
  BY <1>2 DEF Emptied, D
<1>5. /\ g \in [Nodes -> NodeType] /\ g[n] = h[n]
      /\ \A m \in Nodes \ D : g[m] = h[m]
      /\ \A m \in D \ {n} : g[m] = Freed
  BY <1>1, <1>3, FreedIs
<1> HIDE DEF h2
<1>6. PICK x : x = [h[n] EXCEPT !.firstChild = Null]
  OBVIOUS
<1>7. PICK y : y = [x EXCEPT !.lastChild = Null]
  OBVIOUS
<1>8. /\ x \in NodeType /\ x.type = h[n].type /\ x.value = h[n].value
      /\ x.attributes = h[n].attributes /\ x.error = h[n].error
      /\ x.parent = h[n].parent /\ x.prev = h[n].prev /\ x.next = h[n].next /\ x.firstChild = Null
  <2>1. h[n] \in NodeType
    OBVIOUS
  <2> QED BY <1>6, <2>1 DEF NodeType
<1>9. /\ y \in NodeType /\ y.type = x.type /\ y.value = x.value
      /\ y.attributes = x.attributes /\ y.error = x.error
      /\ y.parent = x.parent /\ y.prev = x.prev /\ y.next = x.next
      /\ y.firstChild = x.firstChild /\ y.lastChild = Null
  BY <1>7, <1>8 DEF NodeType
<1>10. h2 = [g EXCEPT ![n] = y]
  <2>1. PICK g2 : g2 = [g EXCEPT ![n].firstChild = Null]
    OBVIOUS
  <2>2. h2 = [g2 EXCEPT ![n].lastChild = Null]
    BY <1>4, <2>1
  <2>3. g2 = [g EXCEPT ![n] = x] /\ g2[n] = x
    BY <1>5, <1>6, <2>1
  <2> QED BY <1>5, <1>7, <2>2, <2>3
<1>11. h2 \in [Nodes -> NodeType] /\ h2[n] = y /\ \A m \in Nodes \ {n} : h2[m] = g[m]
  BY <1>5, <1>9, <1>10
<1>12. EmptiedAt(h, D, n, h2)
  BY <1>1, <1>5, <1>8, <1>9, <1>11 DEF EmptiedAt
<1> QED BY <1>12 DEF D, h2

LEMMA EmptiedForest ==
  ASSUME NEW h, NEW K, NEW n \in Nodes, Forest(h, K, Null), h[n].type # "free"
  PROVE  Forest(Emptied(h, n), Without(K, Subtree(h, n)), Null)
<1> DEFINE D == Subtree(h, n)
<1>1. /\ n \in D /\ D \subseteq Nodes
      /\ \A m \in D \ {n} : h[m].parent \in D
      /\ \A m \in D : Range(K[m]) \subseteq D
  BY SubtreeIs
<1>2. PICK h2 : h2 = Emptied(h, n)
  OBVIOUS
<1>3. EmptiedAt(h, D, n, h2)
  BY <1>1, <1>2, EmptiedIs DEF Forest
<1> HIDE DEF D
<1>4. Freeing(h, K, D, n, Null, h2)
  BY <1>1, <1>3 DEF Freeing, EmptiedAt
<1> QED BY <1>2, <1>4, FreeingForest DEF D

\* f gives a free node to each node of D.
FreshCopies(h, D, f) == /\ f \in [D -> Nodes] /\ \A m \in D : h[f[m]].type = "free"
                        /\ \A a, b \in D : f[a] = f[b] => a = b

CopyOf(f, m) == IF m \in DOMAIN f THEN f[m] ELSE Null

\* h2 is h with a copy of the nodes D, n at their top, as f gives them.
Copying(h, D, n, f, h2) ==
  /\ h2 \in [Nodes -> NodeType]
  /\ \A x \in Nodes : (\A m \in D : f[m] # x) => h2[x] = h[x]
  /\ \A m \in D : /\ h2[f[m]].type = h[m].type /\ h2[f[m]].value = h[m].value
                  /\ h2[f[m]].attributes = h[m].attributes /\ h2[f[m]].error = h[m].error
                  /\ h2[f[m]].parent = CopyOf(f, h[m].parent)
                  /\ h2[f[m]].firstChild = CopyOf(f, h[m].firstChild)
                  /\ h2[f[m]].lastChild = CopyOf(f, h[m].lastChild)
                  /\ h2[f[m]].prev = IF m = n THEN Null ELSE CopyOf(f, h[m].prev)
                  /\ h2[f[m]].next = IF m = n THEN Null ELSE CopyOf(f, h[m].next)

LEMMA ClonedIs ==
  ASSUME NEW h \in [Nodes -> NodeType], NEW n, NEW D \in SUBSET Nodes, NEW f, FreshCopies(h, D, f)
  PROVE  Copying(h, D, n, f, Cloned(h, n, f))
<1> DEFINE new(m) == IF m \in DOMAIN f THEN f[m] ELSE Null
           copy(m) == [type |-> h[m].type, value |-> h[m].value, attributes |-> h[m].attributes,
                       error |-> h[m].error, parent |-> new(h[m].parent),
                       firstChild |-> new(h[m].firstChild), lastChild |-> new(h[m].lastChild),
                       prev |-> IF m = n THEN Null ELSE new(h[m].prev),
                       next |-> IF m = n THEN Null ELSE new(h[m].next)]
           origin(x) == CHOOSE m \in DOMAIN f : f[m] = x
           h2 == Cloned(h, n, f)
<1>1. f \in [D -> Nodes] /\ DOMAIN f = D /\ \A a, b \in D : f[a] = f[b] => a = b
  BY DEF FreshCopies
<1>2. h2 = [x \in Nodes |-> IF \E m \in D : f[m] = x THEN copy(origin(x)) ELSE h[x]]
  BY <1>1 DEF Cloned
<1>3. \A m \in D : origin(f[m]) = m
  BY <1>1
<1>4. \A x : new(x) = CopyOf(f, x) /\ new(x) \in Nodes \cup {Null}
  BY <1>1 DEF CopyOf
<1> HIDE DEF new
<1>5. ASSUME NEW m \in D
      PROVE  /\ copy(m) \in NodeType
             /\ copy(m).type = h[m].type /\ copy(m).value = h[m].value
             /\ copy(m).attributes = h[m].attributes /\ copy(m).error = h[m].error
             /\ copy(m).parent = CopyOf(f, h[m].parent)
             /\ copy(m).firstChild = CopyOf(f, h[m].firstChild)
             /\ copy(m).lastChild = CopyOf(f, h[m].lastChild)
             /\ copy(m).prev = IF m = n THEN Null ELSE CopyOf(f, h[m].prev)
             /\ copy(m).next = IF m = n THEN Null ELSE CopyOf(f, h[m].next)
  <2>1. h[m] \in NodeType
    OBVIOUS
  <2>2. copy(m) \in NodeType
    BY <1>4, <2>1 DEF NodeType
  <2> QED BY <1>4, <2>2
<1> HIDE DEF copy, origin, h2
<1>6. \A m \in D : h2[f[m]] = copy(m)
  BY <1>1, <1>2, <1>3
<1>7. \A x \in Nodes : (\A m \in D : f[m] # x) => h2[x] = h[x]
  BY <1>2
<1>8. h2 \in [Nodes -> NodeType]
  <2>1. ASSUME NEW x \in Nodes PROVE h2[x] \in NodeType
    <3>1. CASE \E m \in D : f[m] = x
      BY <1>5, <1>6, <3>1
    <3>2. CASE \A m \in D : f[m] # x
      BY <1>7, <3>2
    <3> QED BY <3>1, <3>2
  <2>2. h2 = [x \in Nodes |-> h2[x]]
    BY <1>2
  <2> QED BY <2>1, <2>2
<1>9. Copying(h, D, n, f, h2)
  BY <1>5, <1>6, <1>7, <1>8 DEF Copying
<1> QED BY <1>9 DEF h2

\* The lists of children with those of the copies.
WithCopies(K, D, f) ==
  [x \in Nodes |-> IF \E m \in D : f[m] = x
                   THEN LET s == K[CHOOSE m \in D : f[m] = x] IN [i \in 1..Len(s) |-> f[s[i]]]
                   ELSE K[x]]

LEMMA CopyingForest ==
  ASSUME NEW h, NEW K, Forest(h, K, Null), NEW n, NEW D, n \in D, D \subseteq Nodes,
         \A m \in D : h[m].type # "free",
         \A m \in D \ {n} : h[m].parent \in D,
         \A m \in D : Range(K[m]) \subseteq D /\ n \notin Range(K[m]),
         h[n].parent \notin D,
         NEW f, FreshCopies(h, D, f), NEW h2, Copying(h, D, n, f, h2)
  PROVE  /\ Forest(h2, WithCopies(K, D, f), Null)
         /\ \A m \in D : /\ Len(WithCopies(K, D, f)[f[m]]) = Len(K[m])
                         /\ \A i \in 1..Len(K[m]) : WithCopies(K, D, f)[f[m]][i] = f[K[m][i]]
         /\ \A x \in Nodes : (\A m \in D : f[m] # x) => WithCopies(K, D, f)[x] = K[x]
<1> DEFINE K2 == WithCopies(K, D, f)
           made == {f[m] : m \in D}
<1>1. /\ h \in [Nodes -> NodeType] /\ K \in [Nodes -> Seq(Nodes)] /\ NoCycle(h) /\ Null \notin Nodes
      /\ \A p \in Nodes : K[p] \in Seq(Nodes) /\ IsList(h, p, K[p])
      /\ \A p \in Nodes : \A i \in 1..Len(K[p]) : K[p][i] \in Nodes /\ K[p][i] \in Range(K[p])
  BY TreeAssumption, NthIs DEF Forest
<1>2. /\ f \in [D -> Nodes] /\ DOMAIN f = D /\ \A a, b \in D : f[a] = f[b] => a = b
      /\ \A m \in D : h[f[m]] = Freed
  BY DEF FreshCopies, Forest
<1>3. /\ h2 \in [Nodes -> NodeType]
      /\ \A x \in Nodes : x \notin made => h2[x] = h[x]
      /\ \A m \in D : /\ h2[f[m]].type = h[m].type
                      /\ h2[f[m]].parent = CopyOf(f, h[m].parent)
                      /\ h2[f[m]].firstChild = CopyOf(f, h[m].firstChild)
                      /\ h2[f[m]].lastChild = CopyOf(f, h[m].lastChild)
                      /\ h2[f[m]].prev = IF m = n THEN Null ELSE CopyOf(f, h[m].prev)
                      /\ h2[f[m]].next = IF m = n THEN Null ELSE CopyOf(f, h[m].next)
  BY DEF Copying
<1>4. /\ \A m \in D : CopyOf(f, m) = f[m] /\ f[m] \in Nodes /\ f[m] # Null
      /\ CopyOf(f, Null) = Null /\ \A x : x \notin D => CopyOf(f, x) = Null
  BY <1>1, <1>2 DEF CopyOf
<1>5. /\ \A m \in D : K2[f[m]] = [i \in 1..Len(K[m]) |-> f[K[m][i]]]
      /\ \A x \in Nodes : x \notin made => K2[x] = K[x]
      /\ DOMAIN K2 = Nodes /\ K2 = [x \in Nodes |-> K2[x]]
  <2>1. \A m \in D : (CHOOSE a \in D : f[a] = f[m]) = m
    BY <1>2
  <2>2. ASSUME NEW m \in D PROVE K2[f[m]] = [i \in 1..Len(K[m]) |-> f[K[m][i]]]
    <3>1. K2[f[m]] = LET s == K[CHOOSE a \in D : f[a] = f[m]] IN [i \in 1..Len(s) |-> f[s[i]]]
      BY <1>4 DEF WithCopies
    <3> QED BY <2>1, <3>1, ZenonT(30)
  <2>3. ASSUME NEW x \in Nodes, x \notin made PROVE K2[x] = K[x]
    BY <2>3 DEF WithCopies
  <2>4. DOMAIN K2 = Nodes /\ K2 = [x \in Nodes |-> K2[x]]
    BY DEF WithCopies
  <2> QED BY <2>2, <2>3, <2>4
<1>6. ASSUME NEW m \in D
      PROVE  /\ K[m] \in Seq(Nodes) /\ IsList(h, m, K[m]) /\ m \in Nodes /\ Len(K[m]) \in Nat
             /\ \A i \in 1..Len(K[m]) : K[m][i] \in D /\ K[m][i] # n
             /\ K2[f[m]] \in Seq(Nodes) /\ Len(K2[f[m]]) = Len(K[m])
             /\ \A i \in 1..Len(K[m]) : K2[f[m]][i] = f[K[m][i]]
  <2>1. K[m] \in Seq(Nodes) /\ IsList(h, m, K[m]) /\ m \in Nodes /\ Len(K[m]) \in Nat
    BY <1>1
  <2>2. \A i \in 1..Len(K[m]) : K[m][i] \in D /\ K[m][i] # n
    BY <1>1, <2>1
  <2>3. PICK l : l = Len(K[m])
    OBVIOUS
  <2>4. l \in Nat /\ \A i \in 1..l : f[K[m][i]] \in Nodes
    BY <1>4, <2>1, <2>2, <2>3
  <2>5. K2[f[m]] = [i \in 1..l |-> f[K[m][i]]]
    BY <1>5, <2>3
  <2>6. /\ K2[f[m]] \in Seq(Nodes) /\ Len(K2[f[m]]) = l
        /\ \A i \in 1..l : K2[f[m]][i] = f[K[m][i]]
    <3> HIDE DEF K2
    <3> QED BY <2>4, <2>5
  <2> QED BY <2>1, <2>2, <2>3, <2>6
<1> HIDE DEF K2, made
<1>7. \A x \in made : \E m \in D : x = f[m]
  BY DEF made
<1>8. ASSUME NEW m \in D, NEW k \in Int PROVE Nth(K2[f[m]], k) = CopyOf(f, Nth(K[m], k))
  <2>1. /\ Nth(K[m], k) = IF k \in 1..Len(K[m]) THEN K[m][k] ELSE Null
        /\ Nth(K2[f[m]], k) = IF k \in 1..Len(K2[f[m]]) THEN K2[f[m]][k] ELSE Null
    BY <1>6, NthIs, ZenonT(30)
  <2> QED BY <1>4, <1>6, <2>1
<1>9. ASSUME NEW m \in D PROVE IsList(h2, f[m], K2[f[m]])
  <2>1. Distinct(K2[f[m]])
    <3>1. \A i, j \in 1..Len(K[m]) : i # j => K[m][i] # K[m][j]
      BY <1>6 DEF IsList, Distinct
    <3> QED BY <1>2, <1>6, <3>1 DEF Distinct
  <2>2. h2[f[m]].firstChild = Nth(K2[f[m]], 1) /\ h2[f[m]].lastChild = Nth(K2[f[m]], Len(K[m]))
    BY <1>3, <1>6, <1>8 DEF IsList
  <2>3. ASSUME NEW i \in 1..Len(K[m])
        PROVE  /\ h2[K2[f[m]][i]].parent = f[m] /\ h2[K2[f[m]][i]].prev = Nth(K2[f[m]], i - 1)
               /\ h2[K2[f[m]][i]].next = Nth(K2[f[m]], i + 1)
    <3>1. /\ K2[f[m]][i] = f[K[m][i]] /\ K[m][i] \in D /\ K[m][i] # n
          /\ h[K[m][i]].parent = m /\ h[K[m][i]].prev = Nth(K[m], i - 1)
          /\ h[K[m][i]].next = Nth(K[m], i + 1) /\ i - 1 \in Int /\ i + 1 \in Int
      BY <1>6 DEF IsList
    <3> QED BY <1>3, <1>4, <1>8, <3>1
  <2> QED BY <1>6, <2>1, <2>2, <2>3 DEF IsList
<1>10. ASSUME NEW q \in Nodes, NEW x \in Range(K[q]) PROVE x \notin made /\ x \in Nodes
  <2>1. h[x].type # "free" /\ x \in Nodes
    BY InList
  <2> QED BY <1>2, <1>7, <2>1, FreedIs
<1>11. ASSUME NEW q \in Nodes
       PROVE  K2[q] \in Seq(Nodes) /\ IsList(h2, q, K2[q]) /\ Null \notin Range(K2[q])
  <2>1. CASE q \in made
    <3>1. K2[q] \in Seq(Nodes) /\ IsList(h2, q, K2[q])
      BY <1>6, <1>7, <1>9, <2>1
    <3>2. \A x \in Range(K2[q]) : x \in Nodes
      BY <3>1, NthIs
    <3> QED BY <1>1, <3>1, <3>2
  <2>2. CASE q \notin made
    <3>1. K2[q] = K[q] /\ h2[q] = h[q] /\ K[q] \in Seq(Nodes) /\ IsList(h, q, K[q])
      BY <1>1, <1>3, <1>5, <2>2
    <3>2. \A i \in 1..Len(K[q]) : h2[K[q][i]] = h[K[q][i]]
      BY <1>1, <1>3, <1>10
    <3>3. IsList(h2, q, K[q])
      BY <3>1, <3>2 DEF IsList
    <3> QED BY <1>1, <3>1, <3>3, NthIs
  <2> QED BY <2>1, <2>2
<1>12. ASSUME NEW x \in Nodes
       PROVE  IF h2[x].parent = Null THEN h2[x].prev = Null /\ h2[x].next = Null
              ELSE x \in Range(K2[h2[x].parent])
  <2>1. CASE x \notin made
    <3>1. h2[x] = h[x]
      BY <1>3, <2>1
    <3>2. IF h[x].parent = Null THEN h[x].prev = Null /\ h[x].next = Null
          ELSE x \in Range(K[h[x].parent])
      BY <1>1 DEF Forest
    <3>3. ASSUME h[x].parent # Null PROVE K2[h[x].parent] = K[h[x].parent]
      <4>1. h[x].parent \in Nodes /\ x \in Range(K[h[x].parent])
        BY <1>1, <3>2, <3>3 DEF NodeType
      <4>2. h[x].parent \notin made
        <5>1. ASSUME NEW m \in D, h[x].parent = f[m] PROVE FALSE
          <6>1. h[f[m]].firstChild = Null /\ f[m] \in Nodes /\ x \in Range(K[f[m]])
            BY <1>2, <4>1, <5>1, FreedIs
          <6>2. K[f[m]] \in Seq(Nodes) /\ Nth(K[f[m]], 1) = Null
            BY <1>1, <6>1 DEF IsList
          <6>3. Len(K[f[m]]) \in Nat /\ 1 \notin 1..Len(K[f[m]])
            BY <6>2, NthIs
          <6>4. \E i \in 1..Len(K[f[m]]) : K[f[m]][i] = x
            BY <6>1, <6>2, NthIs
          <6> QED BY <6>3, <6>4
        <5> QED BY <1>7, <5>1
      <4> QED BY <1>5, <4>1, <4>2
    <3> QED BY <3>1, <3>2, <3>3
  <2>2. ASSUME NEW m \in D, x = f[m]
        PROVE  IF h2[x].parent = Null THEN h2[x].prev = Null /\ h2[x].next = Null
               ELSE x \in Range(K2[h2[x].parent])
    <3>1. CASE m = n
      BY <1>3, <1>4, <2>2, <3>1
    <3>2. CASE m # n
      <4>1. h[m].parent \in D /\ m \in Nodes
        BY <3>2
      <4>2. m \in Range(K[h[m].parent]) /\ h[m].parent \in Nodes
        BY <1>1, <4>1, ZenonT(30) DEF Forest
      <4>3. PICK i \in 1..Len(K[h[m].parent]) : K[h[m].parent][i] = m
        BY <1>1, <4>2, NthIs
      <4>4. h2[x].parent = f[h[m].parent] /\ f[h[m].parent] # Null
        BY <1>3, <1>4, <2>2, <4>1
      <4>5. K2[f[h[m].parent]][i] = x /\ i \in 1..Len(K2[f[h[m].parent]])
        BY <1>6, <2>2, <4>1, <4>3
      <4>6. x \in Range(K2[f[h[m].parent]])
        BY <4>5 DEF Range
      <4> QED BY <4>4, <4>6
    <3> QED BY <3>1, <3>2
  <2> QED BY <1>7, <2>1, <2>2
<1>13. ASSUME NEW x \in Nodes, h2[x].type = "free" PROVE h2[x] = Freed
  <2>1. x \notin made
    BY <1>3, <1>7, <1>13
  <2> QED BY <1>3, <1>13, <2>1 DEF Forest
<1>14. NoCycle(h2)
  <2> SUFFICES ASSUME NEW S \in SUBSET Nodes, S # {} PROVE \E x \in S : h2[x].parent \notin S
    BY DEF NoCycle
  <2> DEFINE T == {m \in D : f[m] \in S}
  <2>1. CASE T # {}
    <3>1. PICK m \in T : h[m].parent \notin T
      BY <1>1, <2>1 DEF NoCycle
    <3>2. h2[f[m]].parent = CopyOf(f, h[m].parent)
      BY <1>3, <3>1
    <3>3. CopyOf(f, h[m].parent) \notin S
      BY <1>1, <1>4, <3>1
    <3> QED BY <3>1, <3>2, <3>3
  <2>2. CASE T = {}
    <3>1. PICK x \in S : h[x].parent \notin S
      BY <1>1 DEF NoCycle
    <3>2. x \notin made
      BY <1>7, <2>2, <3>1
    <3> QED BY <1>3, <3>1, <3>2
  <2> QED BY <2>1, <2>2
<1>15. Forest(h2, K2, Null)
  BY <1>3, <1>5, <1>11, <1>12, <1>13, <1>14 DEF Forest
<1>16. \A x \in Nodes : (\A m \in D : f[m] # x) => K2[x] = K[x]
  BY <1>5 DEF made
<1> QED BY <1>6, <1>15, <1>16 DEF K2

-----------------------------------------------------------------------------
(***************************************************************************)
(* The heap after each operation                                           *)
(***************************************************************************)
Listing(h) == [p \in Nodes |-> ListOf(h, p)]

LEMMA ListingIs ==
  ASSUME NEW h, NEW K, Forest(h, K, Null)
  PROVE  Listing(h) = K
<1>1. K = [p \in Nodes |-> K[p]]
  BY DEF Forest
<1>2. \A p \in Nodes : ListOf(h, p) = K[p]
  BY ListOfIs
<1>3. Listing(h) = [p \in Nodes |-> K[p]]
  BY <1>2 DEF Listing
<1> QED BY <1>1, <1>3

LEMMA RootIsOut ==
  ASSUME NEW h, NEW K, Forest(h, K, Null), NEW n \in Nodes, h[n].parent = Null
  PROVE  Forest(h, K, n)
<1>1. \A p \in Nodes : n \notin Range(K[p])
  BY InList, TreeAssumption
<1> QED BY <1>1, TreeAssumption DEF Forest

\* What is below a node that exists: it does not lead back to the node.
LEMMA BelowIs ==
  ASSUME NEW h, NEW K, Forest(h, K, Null), NEW n \in Nodes, h[n].type # "free"
  PROVE  /\ n \in Subtree(h, n) /\ Subtree(h, n) \subseteq Nodes
         /\ \A m \in Subtree(h, n) \ {n} : h[m].parent \in Subtree(h, n)
         /\ \A m \in Subtree(h, n) : Range(K[m]) \subseteq Subtree(h, n) /\ n \notin Range(K[m])
         /\ \A m \in Subtree(h, n) : h[m].type # "free"
         /\ h[n].parent \notin Subtree(h, n)
<1> DEFINE D == Subtree(h, n)
<1>1. /\ n \in D /\ D \subseteq Nodes
      /\ \A m \in D \ {n} : h[m].parent \in D
      /\ \A m \in D : Range(K[m]) \subseteq D /\ n \notin Range(K[m])
  BY SubtreeIs
<1> HIDE DEF D
<1>2. ASSUME NEW m \in D PROVE h[m].type # "free"
  <2>1. CASE m = n
    BY <2>1
  <2>2. CASE m # n
    <3>1. h[m].parent \in Nodes /\ m \in Nodes
      BY <1>1, <2>2
    <3>2. h[m] # Freed
      BY <3>1, FreedIs, TreeAssumption
    <3> QED BY <3>1, <3>2 DEF Forest
  <2> QED BY <2>1, <2>2
<1>3. ASSUME h[n].parent \in D PROVE FALSE
  <2>1. \A m \in D : h[m].parent \in D
    BY <1>1, <1>3
  <2> QED BY <1>1, <2>1 DEF Forest, NoCycle
<1> QED BY <1>1, <1>2, <1>3 DEF D

\* h1 is h with a clone of the tree of n, a root that can be linked below any node there
\* was before.
CloneMade(h, K, n, f, h1, K1) ==
  /\ Forest(h1, K1, Null) /\ Copying(h, Subtree(h, n), n, f, h1)
  /\ f[n] \in Nodes /\ h1[f[n]].parent = Null /\ h1[f[n]].type = h[n].type
  /\ \A p \in Nodes : h[p].type # "free" =>
       /\ h1[p] = h[p] /\ K1[p] = K[p]
       /\ \E D : f[n] \in D /\ p \notin D /\ \A m \in D : m \in Nodes => Range(K1[m]) \subseteq D

LEMMA CloneForest ==
  ASSUME NEW h, NEW K, Forest(h, K, Null), NEW n \in Nodes, h[n].type # "free",
         NEW f, FreshCopies(h, Subtree(h, n), f)
  PROVE  CloneMade(h, K, n, f, Cloned(h, n, f), WithCopies(K, Subtree(h, n), f))
<1> DEFINE D == Subtree(h, n)
           h1 == Cloned(h, n, f)
           K1 == WithCopies(K, D, f)
           made == {f[m] : m \in D}
<1>1. /\ n \in D /\ D \subseteq Nodes
      /\ \A m \in D : h[m].type # "free"
      /\ \A m \in D \ {n} : h[m].parent \in D
      /\ \A m \in D : Range(K[m]) \subseteq D /\ n \notin Range(K[m])
      /\ h[n].parent \notin D
  BY BelowIs
<1>2. FreshCopies(h, D, f) /\ h \in [Nodes -> NodeType]
  BY DEF Forest
<1> HIDE DEF D, h1
<1>3. Copying(h, D, n, f, h1)
  BY <1>1, <1>2, ClonedIs DEF h1
<1>4. /\ Forest(h1, K1, Null)
      /\ \A m \in D : /\ Len(K1[f[m]]) = Len(K[m])
                      /\ \A i \in 1..Len(K[m]) : K1[f[m]][i] = f[K[m][i]]
      /\ \A x \in Nodes : (\A m \in D : f[m] # x) => K1[x] = K[x]
  BY <1>1, <1>2, <1>3, CopyingForest
<1> HIDE DEF K1
<1>5. /\ f \in [D -> Nodes] /\ DOMAIN f = D /\ \A m \in D : h[f[m]].type = "free"
      /\ \A x \in Nodes : (\A m \in D : f[m] # x) => h1[x] = h[x]
      /\ h1[f[n]].parent = CopyOf(f, h[n].parent) /\ h1[f[n]].type = h[n].type
  BY <1>1, <1>2, <1>3 DEF FreshCopies, Copying
<1>6. f[n] \in made /\ f[n] \in Nodes /\ h1[f[n]].parent = Null
  BY <1>1, <1>5 DEF CopyOf
<1>7. ASSUME NEW x \in made PROVE Range(K1[x]) \subseteq made
  <2>1. PICK m \in D : x = f[m]
    BY <1>7
  <2>2. K[m] \in Seq(Nodes) /\ K1[x] \in Seq(Nodes)
    BY <1>1, <1>4, <1>5, <2>1 DEF Forest
  <2>3. \A i \in 1..Len(K1[x]) : K1[x][i] = f[K[m][i]] /\ K[m][i] \in Range(K[m])
    BY <1>4, <2>1, <2>2, NthIs, SMTT(30)
  <2>4. \A i \in 1..Len(K1[x]) : K1[x][i] \in made
    BY <1>1, <2>1, <2>3
  <2> QED BY <2>2, <2>4, NthIs, SMTT(30)
<1>8. ASSUME NEW p \in Nodes, h[p].type # "free"
      PROVE  /\ h1[p] = h[p] /\ K1[p] = K[p]
             /\ \E E : f[n] \in E /\ p \notin E /\ \A m \in E : m \in Nodes => Range(K1[m]) \subseteq E
  <2>1. p \notin made /\ \A m \in D : f[m] # p
    BY <1>5, <1>8
  <2>2. h1[p] = h[p] /\ K1[p] = K[p]
    BY <1>4, <1>5, <2>1
  <2> QED BY <1>6, <1>7, <2>1, <2>2
<1> HIDE DEF made
<1>9. CloneMade(h, K, n, f, h1, K1)
  BY <1>3, <1>4, <1>5, <1>6, <1>8 DEF CloneMade, D
<1> QED BY <1>9 DEF h1, K1, D

\* Where a child is, and who its neighbours are.
LEMMA ChildIs ==
  ASSUME NEW h, NEW K, Forest(h, K, Null), NEW p \in Nodes, NEW c \in Nodes, h[c].parent = p
  PROVE  \E i \in 1..Len(K[p]) : K[p][i] = c /\ h[c].prev = Nth(K[p], i - 1) /\ h[c].next = Nth(K[p], i + 1)
<1>1. K[p] \in Seq(Nodes) /\ IsList(h, p, K[p]) /\ c \in Range(K[p])
  BY TreeAssumption DEF Forest
<1>2. PICK i \in 1..Len(K[p]) : K[p][i] = c
  BY <1>1, NthIs
<1> QED BY <1>1, <1>2 DEF IsList

\* No attribute name occurs twice, and a document is at the top.
UniqueNames(list) == \A i, j \in DOMAIN list : list[i].name = list[j].name => i = j

Content(h) == \A m \in Nodes : /\ UniqueNames(h[m].attributes)
                               /\ h[m].type = "document" => h[m].parent = Null

LEMMA NoNames == UniqueNames(<<>>)
BY DEF UniqueNames

LEMMA ContentStays ==
  ASSUME NEW h, NEW h2, Content(h),
         \A m \in Nodes : \/ h2[m] = Freed
                          \/ /\ h2[m].type = h[m].type /\ h2[m].attributes = h[m].attributes
                             /\ h2[m].parent = h[m].parent \/ h[m].type # "document"
  PROVE  Content(h2)
<1> SUFFICES ASSUME NEW m \in Nodes
             PROVE  UniqueNames(h2[m].attributes) /\ (h2[m].type = "document" => h2[m].parent = Null)
  BY DEF Content
<1>1. CASE h2[m] = Freed
  BY <1>1, NoNames, FreedIs
<1>2. CASE h2[m] # Freed
  BY <1>2 DEF Content
<1> QED BY <1>1, <1>2

LEMMA ContentCopied ==
  ASSUME NEW h, NEW D \in SUBSET Nodes, NEW n, NEW f, NEW h2, Content(h),
         FreshCopies(h, D, f), Copying(h, D, n, f, h2)
  PROVE  Content(h2)
<1> SUFFICES ASSUME NEW x \in Nodes
             PROVE  UniqueNames(h2[x].attributes) /\ (h2[x].type = "document" => h2[x].parent = Null)
  BY DEF Content
<1>1. CASE \A m \in D : f[m] # x
  BY <1>1 DEF Content, Copying
<1>2. ASSUME NEW m \in D, f[m] = x
      PROVE  UniqueNames(h2[x].attributes) /\ (h2[x].type = "document" => h2[x].parent = Null)
  <2>1. h2[x].type = h[m].type /\ h2[x].attributes = h[m].attributes /\ h2[x].parent = CopyOf(f, h[m].parent)
    BY <1>2 DEF Copying
  <2>2. CopyOf(f, Null) = Null
    BY TreeAssumption DEF CopyOf, FreshCopies
  <2>3. m \in Nodes
    BY <1>2
  <2> QED BY <2>1, <2>2, <2>3 DEF Content
<1> QED BY <1>1, <1>2

\* LinkEndChild.
LEMMA LinkedForest ==
  ASSUME NEW h, NEW K, Forest(h, K, Null), NEW p \in Nodes, NEW n \in Nodes,
         h[p].type # "free", h[n].type # "free", h[n].parent = Null, p \notin Subtree(h, n),
         NEW h2, h2 = LinkedBetween(h, p, h[p].lastChild, n, Null)
  PROVE  /\ Forest(h2, [K EXCEPT ![p] = Put(K[p], Len(K[p]), n)], Null) /\ SameLabels(h, h2)
         /\ Content(h) /\ h[n].type # "document" => Content(h2)
<1>1. K[p] \in Seq(Nodes) /\ IsList(h, p, K[p]) /\ h \in [Nodes -> NodeType]
  BY DEF Forest
<1>2. PICK i : i = Len(K[p])
  OBVIOUS
<1>3. i \in 0..Len(K[p]) /\ h[p].lastChild = Nth(K[p], i) /\ Nth(K[p], i + 1) = Null
  <2>1. Len(K[p]) \in Nat /\ i + 1 \notin 1..Len(K[p])
    BY <1>1, <1>2
  <2> QED BY <1>1, <1>2, <2>1, NthIs DEF IsList
<1>4. PICK D : D = Subtree(h, n)
  OBVIOUS
<1>5. n \in D /\ p \notin D /\ \A m \in D : m \in Nodes => Range(K[m]) \subseteq D
  BY <1>4, BelowIs
<1>6. p # n /\ h[p].lastChild \in (Nodes \cup {Null}) \ {n} /\ Null \in (Nodes \cup {Null}) \ {n}
  <2>1. n \notin Range(K[p])
    BY InList, TreeAssumption
  <2> QED BY <1>1, <1>3, <1>5, <2>1, NthIs, TreeAssumption
<1>7. PutBetween(h, h2, p, h[p].lastChild, n, Null)
  BY <1>1, <1>6, LinkedBetweenIs
<1>8. PutBetween(h, h2, p, Nth(K[p], i), n, Nth(K[p], i + 1))
  BY <1>3, <1>7
<1>9. Forest(h2, [K EXCEPT ![p] = Put(K[p], i, n)], Null)
  BY <1>3, <1>5, <1>8, PutForest
<1>10. ASSUME Content(h), h[n].type # "document" PROVE Content(h2)
  <2>1. \A m \in Nodes : /\ h2[m].type = h[m].type /\ h2[m].attributes = h[m].attributes
                         /\ h2[m].parent = h[m].parent \/ h[m].type # "document"
    BY <1>7, <1>10 DEF PutBetween, SameLabels
  <2> QED BY <1>10, <2>1, ContentStays
<1> QED BY <1>2, <1>7, <1>9, <1>10 DEF PutBetween

\* InsertEndChild, InsertBeforeChild and InsertAfterChild.
LEMMA InsertedForest ==
  ASSUME NEW h, NEW K, Forest(h, K, Null), NEW p \in Nodes, NEW x \in Nodes,
         h[p].type # "free", h[x].type # "free", NEW f, FreshCopies(h, Subtree(h, x), f),
         NEW i \in 0..Len(K[p]), NEW a, a = Nth(K[p], i), NEW b, b = Nth(K[p], i + 1),
         NEW h2, h2 = LinkedBetween(Cloned(h, x, f), p, a, f[x], b)
  PROVE  /\ Forest(h2, [WithCopies(K, Subtree(h, x), f) EXCEPT ![p] = Put(K[p], i, f[x])], Null)
         /\ SameLabels(Cloned(h, x, f), h2)
         /\ Content(h) /\ h[x].type # "document" => Content(h2)
<1>1. PICK h1 : h1 = Cloned(h, x, f)
  OBVIOUS
<1>2. PICK K1 : K1 = WithCopies(K, Subtree(h, x), f)
  OBVIOUS
<1>3. CloneMade(h, K, x, f, h1, K1)
  BY <1>1, <1>2, CloneForest
<1>4. PICK n \in Nodes : n = f[x]
  BY <1>3 DEF CloneMade
<1>5. /\ Forest(h1, K1, Null) /\ Copying(h, Subtree(h, x), x, f, h1)
      /\ h1[n].parent = Null /\ h1[n].type = h[x].type
      /\ h1[p] = h[p] /\ K1[p] = K[p]
  BY <1>3, <1>4 DEF CloneMade
<1>6. PICK D : n \in D /\ p \notin D /\ \A m \in D : m \in Nodes => Range(K1[m]) \subseteq D
  BY <1>3, <1>4 DEF CloneMade
<1>7. K1[p] \in Seq(Nodes) /\ h1 \in [Nodes -> NodeType] /\ n \notin Range(K1[p])
  <2>1. p # Null
    BY TreeAssumption
  <2>2. n \notin Range(K1[p])
    BY <1>5, <2>1, InList
  <2> QED BY <1>5, <2>2 DEF Forest
<1>8. /\ a \in (Nodes \cup {Null}) \ {n} /\ b \in (Nodes \cup {Null}) \ {n} /\ p # n
      /\ a = Nth(K1[p], i) /\ b = Nth(K1[p], i + 1) /\ i \in 0..Len(K1[p])
  <2>1. a = Nth(K1[p], i) /\ b = Nth(K1[p], i + 1) /\ i \in 0..Len(K1[p]) /\ p # n /\ n # Null
    BY <1>4, <1>5, <1>6, TreeAssumption
  <2>2. \A k : Nth(K1[p], k) \in (Nodes \cup {Null}) \ {n}
    BY <1>7, <2>1, NthIs
  <2> QED BY <2>1, <2>2
<1>9. h2 = LinkedBetween(h1, p, a, n, b)
  BY <1>1, <1>4
<1>10. PutBetween(h1, h2, p, a, n, b)
  BY <1>4, <1>7, <1>8, <1>9, LinkedBetweenIs
<1>11. PutBetween(h1, h2, p, Nth(K1[p], i), n, Nth(K1[p], i + 1))
  BY <1>8, <1>10
<1>12. h1[p].type # "free" /\ h1[n].type # "free" /\ n \in Nodes /\ h1[n].parent = Null
  BY <1>4, <1>5
<1>13. Forest(h2, [K1 EXCEPT ![p] = Put(K1[p], i, n)], Null)
  BY <1>5, <1>6, <1>8, <1>11, <1>12, PutForest
<1>14. ASSUME Content(h), h[x].type # "document" PROVE Content(h2)
  <2>1. Content(h1)
    <3>1. Subtree(h, x) \in SUBSET Nodes
      BY BelowIs
    <3> QED BY <1>5, <1>14, <3>1, ContentCopied
  <2>2. \A m \in Nodes : /\ h2[m].type = h1[m].type /\ h2[m].attributes = h1[m].attributes
                         /\ h2[m].parent = h1[m].parent \/ h1[m].type # "document"
    BY <1>5, <1>10, <1>14 DEF PutBetween, SameLabels
  <2> QED BY <2>1, <2>2, ContentStays
<1> QED BY <1>1, <1>2, <1>4, <1>5, <1>10, <1>13, <1>14 DEF PutBetween

\* ReplaceChild.
LEMMA ReplacedForest ==
  ASSUME NEW h, NEW K, Forest(h, K, Null), NEW p \in Nodes, NEW x \in Nodes,
         h[p].type # "free", h[x].type # "free", NEW f, FreshCopies(h, Subtree(h, x), f),
         NEW i \in 1..Len(K[p]), NEW a, a = Nth(K[p], i - 1), NEW b, b = Nth(K[p], i + 1),
         NEW h2, h2 = LinkedBetween(Cloned(h, x, f), p, a, f[x], b)
  PROVE  /\ Forest(h2, [WithCopies(K, Subtree(h, x), f) EXCEPT ![p] = Swap(K[p], i, f[x])], K[p][i])
         /\ SameLabels(Cloned(h, x, f), h2)
         /\ Content(h) /\ h[x].type # "document" => Content(h2)
<1>1. PICK h1 : h1 = Cloned(h, x, f)
  OBVIOUS
<1>2. PICK K1 : K1 = WithCopies(K, Subtree(h, x), f)
  OBVIOUS
<1>3. CloneMade(h, K, x, f, h1, K1)
  BY <1>1, <1>2, CloneForest
<1>4. PICK n \in Nodes : n = f[x]
  BY <1>3 DEF CloneMade
<1>5. /\ Forest(h1, K1, Null) /\ Copying(h, Subtree(h, x), x, f, h1)
      /\ h1[n].parent = Null /\ h1[n].type = h[x].type
      /\ h1[p] = h[p] /\ K1[p] = K[p]
  BY <1>3, <1>4 DEF CloneMade
<1>6. PICK D : n \in D /\ p \notin D /\ \A m \in D : m \in Nodes => Range(K1[m]) \subseteq D
  BY <1>3, <1>4 DEF CloneMade
<1>7. K1[p] \in Seq(Nodes) /\ h1 \in [Nodes -> NodeType] /\ n \notin Range(K1[p])
  <2>1. p # Null
    BY TreeAssumption
  <2>2. n \notin Range(K1[p])
    BY <1>5, <2>1, InList
  <2> QED BY <1>5, <2>2 DEF Forest
<1>8. /\ a \in (Nodes \cup {Null}) \ {n} /\ b \in (Nodes \cup {Null}) \ {n} /\ p # n
      /\ a = Nth(K1[p], i - 1) /\ b = Nth(K1[p], i + 1) /\ i \in 1..Len(K1[p])
  <2>1. a = Nth(K1[p], i - 1) /\ b = Nth(K1[p], i + 1) /\ i \in 1..Len(K1[p]) /\ p # n /\ n # Null
    BY <1>4, <1>5, <1>6, TreeAssumption
  <2>2. \A k : Nth(K1[p], k) \in (Nodes \cup {Null}) \ {n}
    BY <1>7, <2>1, NthIs
  <2> QED BY <2>1, <2>2
<1>9. h2 = LinkedBetween(h1, p, a, n, b)
  BY <1>1, <1>4
<1>10. PutBetween(h1, h2, p, a, n, b)
  <2>1. PutBetween(h1, LinkedBetween(h1, p, a, n, b), p, a, n, b)
    BY <1>4, <1>7, <1>8, LinkedBetweenIs
  <2> QED BY <1>9, <2>1
<1>11. PutBetween(h1, h2, p, Nth(K1[p], i - 1), n, Nth(K1[p], i + 1))
  BY <1>8, <1>10
<1>12. h1[p].type # "free" /\ h1[n].type # "free" /\ n \in Nodes /\ h1[n].parent = Null
  BY <1>4, <1>5
<1>13. Forest(h2, [K1 EXCEPT ![p] = Swap(K1[p], i, n)], K1[p][i])
  BY <1>5, <1>6, <1>8, <1>11, <1>12, SwapForest
<1>14. ASSUME Content(h), h[x].type # "document" PROVE Content(h2)
  <2>1. Content(h1)
    <3>1. Subtree(h, x) \in SUBSET Nodes
      BY BelowIs
    <3> QED BY <1>5, <1>14, <3>1, ContentCopied
  <2>2. \A m \in Nodes : /\ h2[m].type = h1[m].type /\ h2[m].attributes = h1[m].attributes
                         /\ h2[m].parent = h1[m].parent \/ h1[m].type # "document"
    BY <1>5, <1>10, <1>14 DEF PutBetween, SameLabels
  <2> QED BY <2>1, <2>2, ContentStays
<1> QED BY <1>1, <1>2, <1>4, <1>5, <1>10, <1>13, <1>14 DEF PutBetween

\* RemoveChild, before the child is deleted.
LEMMA UnlinkedForest ==
  ASSUME NEW h, NEW K, Forest(h, K, Null), NEW p \in Nodes, h[p].type # "free",
         NEW i \in 1..Len(K[p]), NEW a, a = Nth(K[p], i - 1), NEW b, b = Nth(K[p], i + 1),
         NEW h2, h2 = Joined(h, p, a, b)
  PROVE  /\ Forest(h2, [K EXCEPT ![p] = Drop(K[p], i)], K[p][i])
         /\ SameLabels(h, h2)
         /\ Content(h) => Content(h2)
<1>1. K[p] \in Seq(Nodes) /\ h \in [Nodes -> NodeType]
  BY DEF Forest
<1>2. a \in Nodes \cup {Null} /\ b \in Nodes \cup {Null}
  BY <1>1, NthIs
<1>3. LinksJoined(h, h2, p, a, b)
  BY <1>1, <1>2, JoinedIs
<1>4. Forest(h2, [K EXCEPT ![p] = Drop(K[p], i)], K[p][i])
  BY <1>3, DropForest
<1>5. ASSUME Content(h) PROVE Content(h2)
  <2>1. \A m \in Nodes : /\ h2[m].type = h[m].type /\ h2[m].attributes = h[m].attributes
                         /\ h2[m].parent = h[m].parent
    BY <1>3 DEF LinksJoined, SameLabels
  <2> QED BY <1>5, <2>1, ContentStays
<1> QED BY <1>3, <1>4, <1>5 DEF LinksJoined

\* The destructor.
LEMMA DeletedContent ==
  ASSUME NEW h, NEW n, Content(h)
  PROVE  Content(Deleted(h, n))
<1>1. \A m \in Nodes : Deleted(h, n)[m] = Freed \/ Deleted(h, n)[m] = h[m]
  BY DEF Deleted, FreeAll
<1> QED BY <1>1, ContentStays

-----------------------------------------------------------------------------
(***************************************************************************)
(* Attributes                                                              *)
(***************************************************************************)
LEMMA FindIs ==
  ASSUME NEW S, NEW list \in Seq(S), NEW name
  PROVE  \/ Find(list, name) = 0 /\ \A i \in 1..Len(list) : list[i].name # name
         \/ Find(list, name) \in 1..Len(list) /\ list[Find(list, name)].name = name
<1> DEFINE I == {i \in 1..Len(list) : list[i].name = name}
<1>1. Find(list, name) = IF I = {} THEN 0 ELSE Min(I)
  BY DEF Find, SelectInSeq
<1>2. I \in SUBSET Nat
  OBVIOUS
<1>3. I # {} => Min(I) \in I
  BY <1>2, LeastNatural
<1> HIDE DEF I
<1> QED BY <1>1, <1>3 DEF I

Attribute == [name : AttributeNames, value : AttributeValues]

LEMMA WithAttributeIs ==
  ASSUME NEW list \in Seq(Attribute), NEW name \in AttributeNames, NEW v \in AttributeValues
  PROVE  /\ WithAttribute(list, name, v) \in Seq(Attribute)
         /\ UniqueNames(list) => UniqueNames(WithAttribute(list, name, v))
<1> DEFINE k == Find(list, name)
           new == [name |-> name, value |-> v]
           r == WithAttribute(list, name, v)
<1>1. new \in Attribute /\ new.name = name
  BY DEF Attribute
<1>2. CASE k = 0
  <2>1. \A i \in 1..Len(list) : list[i].name # name
    BY <1>2, FindIs
  <2> HIDE DEF new
  <2>2. r = Append(list, new)
    BY <1>2 DEF WithAttribute, new
  <2>3. /\ r \in Seq(Attribute) /\ Len(r) = Len(list) + 1 /\ Len(list) \in Nat
        /\ \A i \in 1..(Len(list) + 1) : r[i] = IF i = Len(list) + 1 THEN new ELSE list[i]
    BY <1>1, <2>2
  <2> HIDE DEF r
  <2>4. ASSUME UniqueNames(list), NEW i \in DOMAIN r, NEW j \in DOMAIN r, r[i].name = r[j].name
        PROVE  i = j
    <3>1. i \in 1..(Len(list) + 1) /\ j \in 1..(Len(list) + 1)
      BY <2>3, <2>4
    <3>2. /\ i # Len(list) + 1 => i \in 1..Len(list) /\ r[i] = list[i] /\ i \in DOMAIN list
          /\ j # Len(list) + 1 => j \in 1..Len(list) /\ r[j] = list[j] /\ j \in DOMAIN list
      BY <2>3, <3>1
    <3> QED BY <1>1, <2>1, <2>3, <2>4, <3>1, <3>2 DEF UniqueNames
  <2> QED BY <2>3, <2>4 DEF r, UniqueNames
<1>3. CASE k # 0
  <2>1. k \in 1..Len(list) /\ list[k].name = name
    BY <1>3, FindIs
  <2>2. r = [list EXCEPT ![k].value = v]
    BY <1>3 DEF WithAttribute
  <2> HIDE DEF k
  <2>3. PICK e : e = [list[k] EXCEPT !.value = v]
    OBVIOUS
  <2>4. list[k] \in Attribute
    BY <2>1
  <2>5. e \in Attribute /\ e.name = name
    BY <2>1, <2>3, <2>4 DEF Attribute
  <2>6. r = [list EXCEPT ![k] = e]
    BY <2>2, <2>3
  <2> HIDE DEF r
  <2>7. /\ r \in Seq(Attribute) /\ DOMAIN r = DOMAIN list
        /\ \A i \in DOMAIN list : r[i] = IF i = k THEN e ELSE list[i]
    BY <2>1, <2>5, <2>6
  <2>8. \A i \in DOMAIN list : r[i].name = list[i].name
    BY <2>1, <2>5, <2>7
  <2> QED BY <2>7, <2>8 DEF r, UniqueNames
<1> QED BY <1>2, <1>3

LEMMA RemoveAtIs ==
  ASSUME NEW S, NEW q \in Seq(S), NEW k \in 1..Len(q)
  PROVE  /\ RemoveAt(q, k) \in Seq(S) /\ Len(RemoveAt(q, k)) = Len(q) - 1
         /\ \A i \in 1..(Len(q) - 1) : RemoveAt(q, k)[i] = IF i < k THEN q[i] ELSE q[i + 1]
<1>1. PICK f : f = SubSeq(q, 1, k - 1)
  OBVIOUS
<1>2. PICK g : g = SubSeq(q, k + 1, Len(q))
  OBVIOUS
<1>3. /\ f \in Seq(S) /\ Len(f) = k - 1 /\ Len(q) \in Nat
      /\ \A i \in 1..(k - 1) : f[i] = q[i]
  BY <1>1
<1>4. /\ g \in Seq(S) /\ Len(g) = Len(q) - k
      /\ \A i \in 1..(Len(q) - k) : g[i] = q[i + k]
  BY <1>2
<1>5. PICK r : r = f \o g
  OBVIOUS
<1>6. r \in Seq(S) /\ Len(r) = Len(q) - 1
  BY <1>3, <1>4, <1>5
<1>7. ASSUME NEW i \in 1..(Len(q) - 1) PROVE r[i] = IF i < k THEN q[i] ELSE q[i + 1]
  <2>1. CASE i < k
    BY <1>3, <1>4, <1>5, <2>1
  <2>2. CASE i >= k
    <3>1. i - (k - 1) \in 1..(Len(q) - k) /\ (i - (k - 1)) + k = i + 1 /\ i > k - 1
      BY <1>3, <2>2
    <3>2. r[i] = g[i - (k - 1)]
      BY <1>3, <1>4, <1>5, <3>1
    <3> QED BY <1>4, <2>2, <3>1, <3>2
  <2> QED BY <2>1, <2>2
<1>8. RemoveAt(q, k) = r
  BY <1>1, <1>2, <1>5 DEF RemoveAt
<1> QED BY <1>6, <1>7, <1>8

LEMMA WithoutAttributeIs ==
  ASSUME NEW list \in Seq(Attribute), NEW k \in 1..Len(list)
  PROVE  /\ RemoveAt(list, k) \in Seq(Attribute)
         /\ UniqueNames(list) => UniqueNames(RemoveAt(list, k))
<1> DEFINE r == RemoveAt(list, k)
<1>1. /\ r \in Seq(Attribute) /\ Len(r) = Len(list) - 1 /\ Len(list) \in Nat
      /\ \A i \in 1..(Len(list) - 1) : r[i] = IF i < k THEN list[i] ELSE list[i + 1]
  BY RemoveAtIs
<1> HIDE DEF r
<1>2. ASSUME UniqueNames(list), NEW i \in DOMAIN r, NEW j \in DOMAIN r, r[i].name = r[j].name
      PROVE  i = j
  <2>1. i \in 1..(Len(list) - 1) /\ j \in 1..(Len(list) - 1)
    BY <1>1, <1>2
  <2>2. PICK a \in DOMAIN list : r[i] = list[a] /\ a = IF i < k THEN i ELSE i + 1
    BY <1>1, <2>1
  <2>3. PICK b \in DOMAIN list : r[j] = list[b] /\ b = IF j < k THEN j ELSE j + 1
    BY <1>1, <2>1
  <2>4. a = b
    BY <1>2, <2>2, <2>3 DEF UniqueNames
  <2> QED BY <1>1, <2>1, <2>2, <2>3, <2>4
<1> QED BY <1>1, <1>2 DEF r, UniqueNames

\* Labels change, links stay.
LEMMA RelabelledForest ==
  ASSUME NEW h, NEW K, Forest(h, K, Null), Content(h), NEW n \in Nodes, h[n].type # "free",
         NEW h2 \in [Nodes -> NodeType], SameLinks(h, h2), h2[n].type = h[n].type,
         UniqueNames(h2[n].attributes), \A m \in Nodes \ {n} : h2[m] = h[m]
  PROVE  Forest(h2, K, Null) /\ Content(h2)
<1>1. \A m \in Nodes : h2[m].type = "free" => h2[m] = Freed
  BY DEF Forest
<1>2. Content(h2)
  BY DEF Content, SameLinks
<1> QED BY <1>1, <1>2, SameLinksForest

-----------------------------------------------------------------------------
(***************************************************************************)
(* Every operation changes the forest at one place                         *)
(***************************************************************************)
LabelIn(h, n) == [type |-> h[n].type, value |-> h[n].value,
                  attributes |-> h[n].attributes, error |-> h[n].error]

\* What OrderedForest sees of the heap h with the lists of children K.
Seen(h, K) == [label |-> [n \in Nodes |-> LabelIn(h, n)], kids |-> K]

LEMMA KidsAre ==
  ASSUME NEW K \in [Nodes -> Seq(Nodes)], NEW o, o.kids = K
  PROVE  \A n \in Nodes : F!KidsOf(o, n) = Range(K[n])
<1> SUFFICES ASSUME NEW n \in Nodes PROVE F!KidsOf(o, n) = Range(K[n])
  OBVIOUS
<1>1. PICK s : s = K[n]
  OBVIOUS
<1>2. s \in Seq(Nodes) /\ F!KidsOf(o, n) = {s[i] : i \in 1..Len(s)}
  BY <1>1 DEF F!KidsOf
<1>3. Range(s) = {s[i] : i \in 1..Len(s)}
  <2>1. DOMAIN s = 1..Len(s)
    BY <1>2
  <2> QED BY <2>1 DEF Range
<1>4. F!KidsOf(o, n) = Range(s)
  BY <1>2, <1>3
<1> QED BY <1>1, <1>4

\* What is below a node is the same for the destructor and for OrderedForest.
LEMMA TreeIs ==
  ASSUME NEW h, NEW K, NEW n \in Nodes, NEW c \in {n, Null}, Forest(h, K, c), NEW o, o.kids = K
  PROVE  F!Tree(o, n) = Subtree(h, n)
<1> DEFINE D == Subtree(h, n)
           closed == {S \in SUBSET Nodes : n \in S /\ \A m \in S : F!KidsOf(o, m) \subseteq S}
<1>1. K \in [Nodes -> Seq(Nodes)] /\ \A m \in Nodes : F!KidsOf(o, m) = Range(K[m])
  BY KidsAre, ZenonT(30) DEF Forest
<1>2. /\ n \in D /\ D \subseteq Nodes
      /\ \A m \in D : Range(K[m]) \subseteq D
      /\ \A S : (n \in S /\ \A m \in S : m \in Nodes => Range(K[m]) \subseteq S) => D \subseteq S
  <2>1. CASE c = n
    BY <2>1, SubtreeIs
  <2>2. CASE c = Null
    BY <2>2, SubtreeIs
  <2> QED BY <2>1, <2>2
<1> HIDE DEF D
<1>3. F!Tree(o, n) = {m \in Nodes : \A S \in closed : m \in S}
  BY DEF F!Tree
<1>4. D \in closed
  BY <1>1, <1>2
<1>5. ASSUME NEW S \in closed PROVE D \subseteq S
  <2>1. n \in S /\ \A m \in S : m \in Nodes => Range(K[m]) \subseteq S
    BY <1>1
  <2> HIDE DEF closed
  <2> QED BY <1>2, <2>1
<1> HIDE DEF closed
<1> QED BY <1>2, <1>3, <1>4, <1>5 DEF D

\* The operations on sequences are those of the lists of children.
LEMMA SequencesAre ==
  ASSUME NEW s \in Seq(Nodes), NEW n \in Nodes
  PROVE  /\ Append(s, n) = Put(s, Len(s), n)
         /\ \A i \in 0..Len(s) : F!InsertAt(s, i + 1, n) = Put(s, i, n)
         /\ \A i \in 1..Len(s) : F!ReplaceAt(s, i, n) = Swap(s, i, n) /\ F!RemoveAt(s, i) = Drop(s, i)
<1>1. Append(s, n) = Put(s, Len(s), n)
  <2>1. PICK t : t = Append(s, n)
    OBVIOUS
  <2>4. t \in Seq(Nodes) /\ Len(t) = Len(s) + 1 /\ Len(s) \in Nat
    BY <2>1
  <2>5. \A k \in 1..(Len(s) + 1) : t[k] = IF k <= Len(s) THEN s[k] ELSE n
    BY <2>1
  <2>2. /\ t = [k \in 1..(Len(s) + 1) |-> t[k]]
        /\ \A k \in 1..(Len(s) + 1) : t[k] = IF k <= Len(s) THEN s[k] ELSE n
    BY <2>4, <2>5
  <2>3. \A k \in 1..(Len(s) + 1) : k <= Len(s) \/ k = Len(s) + 1
    OBVIOUS
  <2> QED BY <2>1, <2>2, <2>3 DEF Put
<1>2. ASSUME NEW i \in 0..Len(s) PROVE F!InsertAt(s, i + 1, n) = Put(s, i, n)
  <2>1. PICK a, b : a = SubSeq(s, 1, i) /\ b = SubSeq(s, i + 1, Len(s))
    OBVIOUS
  <2>2. /\ a \in Seq(Nodes) /\ Len(a) = i /\ \A k \in 1..i : a[k] = s[k]
        /\ b \in Seq(Nodes) /\ Len(b) = Len(s) - i /\ \A k \in 1..(Len(s) - i) : b[k] = s[i + k]
    BY <2>1
  <2>3. F!InsertAt(s, i + 1, n) = a \o <<n>> \o b
    <3>1. (i + 1) - 1 = i
      OBVIOUS
    <3>2. F!InsertAt(s, i + 1, n) = SubSeq(s, 1, (i + 1) - 1) \o <<n>> \o SubSeq(s, i + 1, Len(s))
      BY DEF F!InsertAt
    <3> QED BY <2>1, <3>1, <3>2
  <2>4. PICK r : r = a \o <<n>>
    OBVIOUS
  <2>5. r \in Seq(Nodes) /\ Len(r) = i + 1 /\ \A k \in 1..(i + 1) : r[k] = IF k <= i THEN s[k] ELSE n
    BY <2>2, <2>4
  <2>6. PICK t : t = r \o b
    OBVIOUS
  <2>7. /\ t \in Seq(Nodes) /\ Len(t) = Len(s) + 1
        /\ \A k \in 1..(Len(s) + 1) : t[k] = IF k <= i + 1 THEN r[k] ELSE b[k - (i + 1)]
    BY <2>2, <2>5, <2>6
  <2>8. t = [k \in 1..(Len(s) + 1) |-> t[k]]
    BY <2>7
  <2>9. ASSUME NEW k \in 1..(Len(s) + 1)
        PROVE  t[k] = IF k <= i THEN s[k] ELSE IF k = i + 1 THEN n ELSE s[k - 1]
    <3>1. CASE k <= i + 1
      BY <2>5, <2>7, <3>1
    <3>2. CASE ~ k <= i + 1
      <4>1. k - (i + 1) \in 1..(Len(s) - i) /\ i + (k - (i + 1)) = k - 1
        BY <3>2
      <4>2. b[k - (i + 1)] = s[k - 1]
        BY <2>2, <4>1
      <4> QED BY <2>7, <3>2, <4>2
    <3> QED BY <3>1, <3>2
  <2> QED BY <2>3, <2>4, <2>6, <2>8, <2>9 DEF Put
<1>3. ASSUME NEW i \in 1..Len(s) PROVE F!ReplaceAt(s, i, n) = Swap(s, i, n)
  BY DEF F!ReplaceAt, Swap
<1>4. ASSUME NEW i \in 1..Len(s) PROVE F!RemoveAt(s, i) = Drop(s, i)
  <2>1. PICK t : t = RemoveAt(s, i)
    OBVIOUS
  <2>2. F!RemoveAt(s, i) = t
    BY <2>1 DEF F!RemoveAt, RemoveAt
  <2>3. /\ t \in Seq(Nodes) /\ Len(t) = Len(s) - 1
        /\ \A k \in 1..(Len(s) - 1) : t[k] = IF k < i THEN s[k] ELSE s[k + 1]
    BY <2>1, RemoveAtIs
  <2>4. t = [k \in 1..(Len(s) - 1) |-> t[k]]
    BY <2>3
  <2> QED BY <2>2, <2>3, <2>4 DEF Drop
<1> QED BY <1>1, <1>2, <1>3, <1>4

\* What OrderedForest sees of a heap after each of the parts of an operation.
LEMMA SeenSame ==
  ASSUME NEW h, NEW h2, NEW K, SameLabels(h, h2)
  PROVE  Seen(h2, K) = Seen(h, K)
BY DEF Seen, LabelIn, SameLabels

LEMMA SeenWithKids ==
  ASSUME NEW h, NEW K, NEW p, NEW s
  PROVE  F!WithKids(Seen(h, K), p, s) = Seen(h, [K EXCEPT ![p] = s])
BY DEF F!WithKids, Seen

LEMMA SeenWithout ==
  ASSUME NEW h, NEW K, NEW D, NEW h2,
         \A m \in Nodes : IF m \in D THEN h2[m] = Freed ELSE LabelIn(h2, m) = LabelIn(h, m)
  PROVE  F!Without(Seen(h, K), D) = Seen(h2, Without(K, D))
<1>1. FreedLabel = [type |-> Freed.type, value |-> Freed.value,
                    attributes |-> Freed.attributes, error |-> Freed.error]
  BY DEF FreedLabel, Freed, NewNode
<1>2. \A m \in Nodes : LabelIn(h2, m) = IF m \in D THEN FreedLabel ELSE LabelIn(h, m)
  BY <1>1 DEF LabelIn
<1>3. PICK o : o = Seen(h, K)
  OBVIOUS
<1>4. o.label = [m \in Nodes |-> LabelIn(h, m)] /\ o.kids = K
  BY <1>3 DEF Seen
<1>5. F!Without(o, D) = [label |-> [m \in Nodes |-> IF m \in D THEN FreedLabel ELSE o.label[m]],
                         kids |-> [m \in Nodes |-> IF m \in D THEN <<>> ELSE o.kids[m]]]
  BY DEF F!Without
<1>6. [m \in Nodes |-> IF m \in D THEN FreedLabel ELSE o.label[m]] = [m \in Nodes |-> LabelIn(h2, m)]
  BY <1>2, <1>4
<1>7. [m \in Nodes |-> IF m \in D THEN <<>> ELSE o.kids[m]] = Without(K, D)
  BY <1>4 DEF Without
<1> QED BY <1>3, <1>5, <1>6, <1>7 DEF Seen

LEMMA SeenWithCopy ==
  ASSUME NEW h, NEW K, NEW D \in SUBSET Nodes, NEW x, NEW f, FreshCopies(h, D, f),
         NEW h2, Copying(h, D, x, f, h2), NEW o, o = Seen(h, K), F!Tree(o, x) = D
  PROVE  F!WithCopy(o, x, f) = Seen(h2, WithCopies(K, D, f))
<1> DEFINE made == {f[m] : m \in D}
           origin(n) == CHOOSE m \in D : f[m] = n
           kids(m) == [i \in 1..Len(o.kids[m]) |-> f[o.kids[m][i]]]
<1>1. o.label = [m \in Nodes |-> LabelIn(h, m)] /\ o.kids = K
  BY DEF Seen
<1>2. F!WithCopy(o, x, f) =
        [label |-> [n \in Nodes |-> IF n \in made THEN o.label[origin(n)] ELSE o.label[n]],
         kids |-> [n \in Nodes |-> IF n \in made THEN kids(origin(n)) ELSE o.kids[n]]]
  BY DEF F!WithCopy
<1>3. \A n : n \in made <=> \E m \in D : f[m] = n
  OBVIOUS
<1>4. \A n \in made : origin(n) \in D /\ f[origin(n)] = n /\ origin(n) \in Nodes
  OBVIOUS
<1>5. ASSUME NEW n \in Nodes
      PROVE  (IF n \in made THEN o.label[origin(n)] ELSE o.label[n]) = LabelIn(h2, n)
  <2> HIDE DEF origin, made
  <2>1. CASE n \in made
    <3>1. PICK m \in D : m = origin(n) /\ f[m] = n
      BY <1>4, <2>1
    <3>2. LabelIn(h2, n) = LabelIn(h, m)
      BY <3>1 DEF Copying, LabelIn
    <3> QED BY <1>1, <2>1, <3>1, <3>2
  <2>2. CASE n \notin made
    <3>1. h2[n] = h[n]
      BY <1>3, <2>2 DEF Copying
    <3> QED BY <1>1, <2>2, <3>1 DEF LabelIn
  <2> QED BY <2>1, <2>2
<1>6. [n \in Nodes |-> IF n \in made THEN o.label[origin(n)] ELSE o.label[n]]
        = [n \in Nodes |-> LabelIn(h2, n)]
  <2> HIDE DEF origin, made
  <2> QED BY <1>5
<1>7. [n \in Nodes |-> IF n \in made THEN kids(origin(n)) ELSE o.kids[n]] = WithCopies(K, D, f)
  BY <1>1, <1>3 DEF WithCopies
<1> HIDE DEF origin, made, kids
<1> QED BY <1>2, <1>6, <1>7 DEF Seen

\* The nodes that exist, and the roots.
LEMMA SeenAlive ==
  ASSUME NEW h, NEW K, NEW c, Forest(h, K, c)
  PROVE  /\ \A n \in Nodes : LabelIn(h, n) = FreedLabel <=> h[n].type = "free"
         /\ F!Alive(Seen(h, K)) = {n \in Nodes : h[n].type # "free"}
<1>1. FreedLabel = [type |-> "free", value |-> "", attributes |-> <<>>, error |-> FALSE]
  BY DEF FreedLabel
<1>2. Freed.type = "free" /\ Freed.value = "" /\ Freed.attributes = <<>> /\ Freed.error = FALSE
  BY DEF Freed, NewNode
<1>3. ASSUME NEW n \in Nodes PROVE LabelIn(h, n) = FreedLabel <=> h[n].type = "free"
  <2>1. ASSUME h[n].type = "free" PROVE LabelIn(h, n) = FreedLabel
    <3>1. h[n] = Freed
      BY <2>1 DEF Forest
    <3> QED BY <1>1, <1>2, <3>1 DEF LabelIn
  <2>2. LabelIn(h, n).type = h[n].type /\ FreedLabel.type = "free"
    BY <1>1 DEF LabelIn
  <2> QED BY <2>1, <2>2
<1>4. PICK o : o = Seen(h, K)
  OBVIOUS
<1>5. F!Alive(o) = {n \in Nodes : o.label[n] # FreedLabel}
  BY DEF F!Alive
<1>6. \A n \in Nodes : o.label[n] = LabelIn(h, n)
  BY <1>4 DEF Seen
<1> QED BY <1>3, <1>4, <1>5, <1>6

LEMMA SeenRoot ==
  ASSUME NEW h, NEW K, Forest(h, K, Null), NEW n \in Nodes, h[n].parent = Null
  PROVE  F!Root(Seen(h, K), n)
<1>1. PICK o : o = Seen(h, K)
  OBVIOUS
<1>2. o.kids = K
  BY <1>1 DEF Seen
<1>5. K \in [Nodes -> Seq(Nodes)]
  BY DEF Forest
<1>3. \A p \in Nodes : F!KidsOf(o, p) = Range(K[p])
  BY <1>2, <1>5, KidsAre
<1>4. \A p \in Nodes : n \notin Range(K[p])
  BY InList, TreeAssumption
<1> QED BY <1>1, <1>3, <1>4 DEF F!Root

\* A node is made, or its label changed.
LEMMA RelabelStep ==
  ASSUME NEW h, NEW K, NEW h2, Forest(h2, K, Null), NEW n \in Nodes, h2[n].type # "free",
         \A m \in Nodes \ {n} : h2[m] = h[m]
  PROVE  F!Step(Seen(h, K), Seen(h2, K))
<1>1. PICK o, o2 : o = Seen(h, K) /\ o2 = Seen(h2, K)
  OBVIOUS
<1>2. /\ o.label = [m \in Nodes |-> LabelIn(h, m)] /\ o.kids = K
      /\ o2 = [label |-> [m \in Nodes |-> LabelIn(h2, m)], kids |-> K]
      /\ o2.label[n] = LabelIn(h2, n)
  BY <1>1 DEF Seen
<1>3. \A m \in Nodes \ {n} : LabelIn(h2, m) = LabelIn(h, m)
  BY DEF LabelIn
<1>4. [m \in Nodes |-> LabelIn(h2, m)] = [o.label EXCEPT ![n] = o2.label[n]]
  BY <1>2, <1>3
<1>5. o2 = [label |-> [o.label EXCEPT ![n] = o2.label[n]], kids |-> o.kids]
  BY <1>2, <1>4
<1>6. o2.label[n] # FreedLabel
  BY <1>2, SeenAlive
<1>7. F!Relabel(o, o2)
  BY <1>5, <1>6 DEF F!Relabel
<1> QED BY <1>1, <1>7 DEF F!Step

\* DeleteNode.
LEMMA DeleteStep ==
  ASSUME NEW h, NEW K, Forest(h, K, Null), NEW n \in Nodes, h[n].type # "free", h[n].parent = Null,
         NEW h2, h2 = Deleted(h, n)
  PROVE  LET o == Seen(h, K)  o2 == Seen(h2, Without(K, Subtree(h, n)))
         IN  n \in F!Alive(o) /\ F!DeletedRoot(o, o2, n)
<1>1. PICK o, o2, D : o = Seen(h, K) /\ o2 = Seen(h2, Without(K, D)) /\ D = Subtree(h, n)
  OBVIOUS
<1>2. o.kids = K
  BY <1>1 DEF Seen
<1>3. F!Tree(o, n) = D
  <2>1. Null \in {n, Null}
    OBVIOUS
  <2> QED BY <1>1, <1>2, <2>1, TreeIs
<1>4. F!Root(o, n) /\ n \in F!Alive(o)
  BY <1>1, SeenRoot, SeenAlive
<1>5. F!Without(o, D) = o2
  <2>1. \A m \in Nodes : IF m \in D THEN h2[m] = Freed ELSE LabelIn(h2, m) = LabelIn(h, m)
    BY <1>1 DEF Deleted, FreeAll, LabelIn
  <2> QED BY <1>1, <2>1, SeenWithout
<1>6. F!DeletedRoot(o, o2, n)
  BY <1>3, <1>4, <1>5 DEF F!DeletedRoot
<1> QED BY <1>1, <1>4, <1>6

\* LinkEndChild.
LEMMA LinkStep ==
  ASSUME NEW h, NEW K, Forest(h, K, Null), NEW p \in Nodes, h[p].type # "free",
         NEW n \in Nodes, h[n].type # "free", h[n].parent = Null, p \notin Subtree(h, n),
         NEW h2, SameLabels(h, h2)
  PROVE  LET o == Seen(h, K)  o2 == Seen(h2, [K EXCEPT ![p] = Put(K[p], Len(K[p]), n)])
         IN  p \in F!Alive(o) /\ n \in F!Alive(o) /\ F!Linked(o, o2, p, n)
<1>1. PICK o, o2, s : /\ o = Seen(h, K) /\ o2 = Seen(h2, [K EXCEPT ![p] = s])
                      /\ s = Put(K[p], Len(K[p]), n)
  OBVIOUS
<1>2. o.kids = K
  BY <1>1 DEF Seen
<1>3. F!Tree(o, n) = Subtree(h, n)
  <2>1. Null \in {n, Null}
    OBVIOUS
  <2> QED BY <1>2, <2>1, TreeIs
<1>4. F!Root(o, n) /\ n \in F!Alive(o) /\ p \in F!Alive(o)
  BY <1>1, SeenRoot, SeenAlive
<1>5. Append(o.kids[p], n) = s
  <2>1. K[p] \in Seq(Nodes)
    BY DEF Forest
  <2> QED BY <1>1, <1>2, <2>1, SequencesAre
<1>6. F!WithKids(o, p, s) = o2
  BY <1>1, SeenWithKids, SeenSame
<1>7. F!Linked(o, o2, p, n)
  BY <1>3, <1>4, <1>5, <1>6 DEF F!Linked
<1> QED BY <1>1, <1>4, <1>7

\* Clear.
LEMMA EmptyStep ==
  ASSUME NEW h, NEW K, Forest(h, K, Null), NEW p \in Nodes, h[p].type # "free",
         NEW h2, EmptiedAt(h, Subtree(h, p), p, h2)
  PROVE  LET o == Seen(h, K)  o2 == Seen(h2, Without(K, Subtree(h, p)))
         IN  p \in F!Alive(o) /\ F!Emptied(o, o2, p)
<1>1. PICK o, o2, D : o = Seen(h, K) /\ o2 = Seen(h2, Without(K, D)) /\ D = Subtree(h, p)
  OBVIOUS
<1>2. o.kids = K
  BY <1>1 DEF Seen
<1>3. F!Tree(o, p) = D
  <2>1. Null \in {p, Null}
    OBVIOUS
  <2> QED BY <1>1, <1>2, <2>1, TreeIs
<1>4. p \in F!Alive(o) /\ p \in D /\ D \subseteq Nodes
  BY <1>1, SeenAlive, BelowIs
<1>5. F!WithKids(o, p, <<>>) = Seen(h, [K EXCEPT ![p] = <<>>])
  BY <1>1, SeenWithKids
<1>6. F!Without(Seen(h, [K EXCEPT ![p] = <<>>]), D \ {p}) = Seen(h2, Without([K EXCEPT ![p] = <<>>], D \ {p}))
  <2>1. \A m \in Nodes : IF m \in D \ {p} THEN h2[m] = Freed ELSE LabelIn(h2, m) = LabelIn(h, m)
    BY <1>1, <1>4 DEF EmptiedAt, LabelIn
  <2> QED BY <2>1, SeenWithout
<1>7. Without([K EXCEPT ![p] = <<>>], D \ {p}) = Without(K, D)
  BY <1>4 DEF Without, Forest
<1>8. F!Emptied(o, o2, p)
  BY <1>1, <1>3, <1>5, <1>6, <1>7 DEF F!Emptied
<1> QED BY <1>1, <1>4, <1>8

\* The nodes that f gives are new, if they exist afterwards.
LEMMA CopyMapIs ==
  ASSUME NEW h, NEW K, Forest(h, K, Null), NEW x \in Nodes, h[x].type # "free",
         NEW f, FreshCopies(h, Subtree(h, x), f),
         NEW h2, NEW K2, Forest(h2, K2, Null), \A m \in Subtree(h, x) : h2[f[m]].type # "free"
  PROVE  f \in F!CopyMaps(Seen(h, K), Seen(h2, K2), x)
<1>1. PICK o, o2, D : o = Seen(h, K) /\ o2 = Seen(h2, K2) /\ D = Subtree(h, x)
  OBVIOUS
<1>2. o.kids = K /\ \A n \in Nodes : o.label[n] = LabelIn(h, n) /\ o2.label[n] = LabelIn(h2, n)
  BY <1>1 DEF Seen
<1>3. F!Tree(o, x) = D
  <2>1. Null \in {x, Null}
    OBVIOUS
  <2> QED BY <1>1, <1>2, <2>1, TreeIs
<1>4. f \in [D -> Nodes] /\ \A a, b \in D : f[a] = f[b] => a = b
  BY <1>1 DEF FreshCopies
<1>5. ASSUME NEW m \in D PROVE f[m] \in F!New(o, o2)
  <2>1. f[m] \in Nodes /\ h[f[m]].type = "free" /\ h2[f[m]].type # "free"
    BY <1>1, <1>4 DEF FreshCopies
  <2>2. LabelIn(h, f[m]) = FreedLabel /\ LabelIn(h2, f[m]) # FreedLabel
    BY <2>1, SeenAlive
  <2> QED BY <1>2, <2>1, <2>2 DEF F!New
<1>6. f \in [D -> F!New(o, o2)]
  BY <1>4, <1>5
<1>7. f \in F!CopyMaps(o, o2, x)
  BY <1>3, <1>4, <1>6 DEF F!CopyMaps
<1> QED BY <1>1, <1>7

\* What comes of a clone: o is before it and o1 after it, and the copies exist in it.
Copied(o, o1, h, K, x, f, h1) ==
  /\ F!WithCopy(o, x, f) = o1 /\ x \in F!Alive(o)
  /\ \A m \in Subtree(h, x) : h1[f[m]].type # "free"
  /\ \A m \in Nodes : h[m].type # "free" => h1[m] = h[m] /\ WithCopies(K, Subtree(h, x), f)[m] = K[m]

LEMMA CopiedIs ==
  ASSUME NEW h, NEW K, Forest(h, K, Null), NEW x \in Nodes, h[x].type # "free",
         NEW f, FreshCopies(h, Subtree(h, x), f), NEW h1, h1 = Cloned(h, x, f)
  PROVE  Copied(Seen(h, K), Seen(h1, WithCopies(K, Subtree(h, x), f)), h, K, x, f, h1)
<1>1. PICK o, D : o = Seen(h, K) /\ D = Subtree(h, x)
  OBVIOUS
<1>2. o.kids = K
  BY <1>1 DEF Seen
<1>3. F!Tree(o, x) = D
  <2>1. Null \in {x, Null}
    OBVIOUS
  <2> QED BY <1>1, <1>2, <2>1, TreeIs
<1>4. PICK K1 : K1 = WithCopies(K, D, f)
  OBVIOUS
<1>5. CloneMade(h, K, x, f, h1, K1)
  BY <1>1, <1>4, CloneForest
<1>6. Copying(h, D, x, f, h1) /\ FreshCopies(h, D, f)
  BY <1>1, <1>5 DEF CloneMade
<1>7. D \in SUBSET Nodes /\ \A m \in D : h[m].type # "free"
  BY <1>1, BelowIs
<1>8. F!WithCopy(o, x, f) = Seen(h1, K1)
  BY <1>1, <1>3, <1>4, <1>6, <1>7, SeenWithCopy
<1>9. \A m \in D : h1[f[m]].type # "free"
  BY <1>6, <1>7 DEF Copying
<1>10. \A m \in Nodes : h[m].type # "free" => h1[m] = h[m] /\ K1[m] = K[m]
  BY <1>5 DEF CloneMade
<1>11. x \in F!Alive(o)
  BY <1>1, SeenAlive
<1> QED BY <1>1, <1>4, <1>8, <1>9, <1>10, <1>11 DEF Copied

LEMMA CloneStep ==
  ASSUME NEW h, NEW K, Forest(h, K, Null), NEW x \in Nodes, h[x].type # "free",
         NEW f, FreshCopies(h, Subtree(h, x), f), NEW h1, h1 = Cloned(h, x, f),
         NEW K1, K1 = WithCopies(K, Subtree(h, x), f)
  PROVE  x \in F!Alive(Seen(h, K)) /\ F!Copied(Seen(h, K), Seen(h1, K1), x)
<1>1. PICK o, o1 : o = Seen(h, K) /\ o1 = Seen(h1, K1)
  OBVIOUS
<1>2. Copied(o, o1, h, K, x, f, h1)
  BY <1>1, CopiedIs
<1>3. F!WithCopy(o, x, f) = o1 /\ x \in F!Alive(o) /\ \A m \in Subtree(h, x) : h1[f[m]].type # "free"
  BY <1>2 DEF Copied
<1>4. Forest(h1, K1, Null)
  BY CloneForest DEF CloneMade
<1>5. f \in F!CopyMaps(o, o1, x)
  BY <1>1, <1>3, <1>4, CopyMapIs
<1>6. F!Copied(o, o1, x)
  BY <1>3, <1>5 DEF F!Copied
<1> QED BY <1>1, <1>3, <1>6

\* InsertEndChild, InsertBeforeChild and InsertAfterChild.
LEMMA InsertStep ==
  ASSUME NEW h, NEW K, Forest(h, K, Null), NEW p \in Nodes, h[p].type # "free",
         NEW x \in Nodes, h[x].type # "free", NEW f, FreshCopies(h, Subtree(h, x), f),
         NEW h2, SameLabels(Cloned(h, x, f), h2), NEW i \in 0..Len(K[p]),
         NEW K2, K2 = [WithCopies(K, Subtree(h, x), f) EXCEPT ![p] = Put(K[p], i, f[x])],
         Forest(h2, K2, Null)
  PROVE  LET o == Seen(h, K)  o2 == Seen(h2, K2)
         IN  /\ p \in F!Alive(o) /\ x \in F!Alive(o) /\ o.kids = K
             /\ F!CopiedAt(o, o2, p, i + 1, x)
<1>1. PICK h1, K1 : h1 = Cloned(h, x, f) /\ K1 = WithCopies(K, Subtree(h, x), f)
  OBVIOUS
<1>2. PICK o, o1, o2, s : /\ o = Seen(h, K) /\ o1 = Seen(h1, K1) /\ o2 = Seen(h2, K2)
                          /\ s = Put(K[p], i, f[x])
  OBVIOUS
<1>3. Copied(o, o1, h, K, x, f, h1)
  BY <1>1, <1>2, CopiedIs
<1>4. F!WithCopy(o, x, f) = o1 /\ x \in F!Alive(o) /\ \A m \in Subtree(h, x) : h1[f[m]].type # "free"
  BY <1>3 DEF Copied
<1>5. x \in Subtree(h, x) /\ Subtree(h, x) \subseteq Nodes
  BY BelowIs
<1>6. f[x] \in Nodes /\ \A m \in Subtree(h, x) : h2[f[m]].type # "free"
  BY <1>1, <1>4, <1>5 DEF FreshCopies, SameLabels
<1>7. f \in F!CopyMaps(o, o2, x)
  BY <1>2, <1>6, CopyMapIs
<1>8. p \in F!Alive(o) /\ o.kids = K
  BY <1>2, SeenAlive DEF Seen
<1>9. K[p] \in Seq(Nodes) /\ Len(K[p]) \in Nat
  BY DEF Forest
<1>10. F!InsertAt(o.kids[p], i + 1, f[x]) = s
  BY <1>2, <1>6, <1>8, <1>9, SequencesAre
<1>11. F!WithKids(o1, p, s) = o2
  <2>1. Seen(h2, K2) = Seen(h1, K2)
    BY <1>1, SeenSame
  <2>2. K2 = [K1 EXCEPT ![p] = s]
    BY <1>1, <1>2
  <2>3. F!WithKids(Seen(h1, K1), p, s) = Seen(h1, [K1 EXCEPT ![p] = s])
    BY SeenWithKids
  <2> QED BY <1>2, <2>1, <2>2, <2>3
<1>13. o2 = F!WithKids(F!WithCopy(o, x, f), p, F!InsertAt(o.kids[p], i + 1, f[x]))
  BY <1>4, <1>10, <1>11
<1>14. F!CopiedAt(o, o2, p, i + 1, x)
  BY <1>7, <1>13 DEF F!CopiedAt
<1> QED BY <1>2, <1>4, <1>8, <1>14

\* What is below a node stays, if the lists of children there do.
LEMMA SameBelow ==
  ASSUME NEW h, NEW K, Forest(h, K, Null), NEW n \in Nodes,
         NEW h2, NEW K2, Forest(h2, K2, n), \A m \in Subtree(h, n) : K2[m] = K[m]
  PROVE  Subtree(h2, n) = Subtree(h, n)
<1>1. PICK D, E : D = Subtree(h, n) /\ E = Subtree(h2, n)
  OBVIOUS
<1>2. /\ n \in D /\ D \subseteq Nodes /\ \A m \in D : Range(K[m]) \subseteq D
      /\ \A S : (n \in S /\ \A m \in S : m \in Nodes => Range(K[m]) \subseteq S) => D \subseteq S
  BY <1>1, SubtreeIs
<1>3. /\ n \in E /\ E \subseteq Nodes /\ \A m \in E : Range(K2[m]) \subseteq E
      /\ \A S : (n \in S /\ \A m \in S : m \in Nodes => Range(K2[m]) \subseteq S) => E \subseteq S
  BY <1>1, SubtreeIs
<1>4. \A m \in D : K2[m] = K[m]
  BY <1>1
<1>5. E \subseteq D
  BY <1>2, <1>3, <1>4
<1>6. D \subseteq E
  BY <1>2, <1>3, <1>4, <1>5
<1> QED BY <1>1, <1>5, <1>6

\* The lists of children with s for p.
Relisted(K, p, s) == [K EXCEPT ![p] = s]

\* RemoveChild.
LEMMA RemoveStep ==
  ASSUME NEW h, NEW K, Forest(h, K, Null), NEW p \in Nodes, h[p].type # "free",
         NEW i \in 1..Len(K[p]), NEW c, c = K[p][i],
         NEW h2, SameLabels(h, h2), NEW K2, K2 = Relisted(K, p, Drop(K[p], i)), Forest(h2, K2, c),
         NEW h3, h3 = Deleted(h2, c)
  PROVE  LET o == Seen(h, K)  o2 == Seen(h3, Without(K2, Subtree(h2, c)))
         IN  p \in F!Alive(o) /\ c \in F!Alive(o) /\ F!Pruned(o, o2, p, c)
<1>1. PICK o, o2, D, s : /\ o = Seen(h, K) /\ o2 = Seen(h3, Without(K2, D))
                         /\ D = Subtree(h2, c) /\ s = Drop(K[p], i)
  OBVIOUS
<1>2. o.kids = K /\ p \in F!Alive(o)
  BY <1>1, SeenAlive DEF Seen
<1>3. K[p] \in Seq(Nodes) /\ c \in Nodes /\ c \in Range(K[p]) /\ K \in [Nodes -> Seq(Nodes)]
  <2>1. K \in [Nodes -> Seq(Nodes)]
    BY DEF Forest
  <2> QED BY <2>1, NthIs
<1>4. h[c].type # "free"
  BY <1>3, InList
<1>5. \A m \in Subtree(h, c) : m \in Nodes /\ c \notin Range(K[m])
  BY <1>3, <1>4, BelowIs
<1>6. \A m \in Subtree(h, c) : K2[m] = K[m]
  <2>1. \A m \in Nodes \ {p} : K2[m] = K[m]
    BY <1>3 DEF Relisted
  <2> QED BY <1>3, <1>5, <2>1
<1>7. D = Subtree(h, c)
  BY <1>1, <1>3, <1>6, SameBelow
<1>8. F!Tree(o, c) = D
  <2>1. Null \in {c, Null}
    OBVIOUS
  <2> QED BY <1>2, <1>3, <1>7, <2>1, TreeIs
<1>9. F!RemoveAt(o.kids[p], i) = s
  BY <1>1, <1>2, <1>3, SequencesAre
<1>10. F!WithKids(o, p, s) = Seen(h2, K2)
  <2>1. F!WithKids(Seen(h, K), p, s) = Seen(h, [K EXCEPT ![p] = s])
    BY SeenWithKids
  <2>2. Seen(h2, K2) = Seen(h, K2)
    BY SeenSame
  <2>3. K2 = [K EXCEPT ![p] = s]
    BY <1>1 DEF Relisted
  <2> QED BY <1>1, <2>1, <2>2, <2>3
<1>11. F!Without(Seen(h2, K2), D) = o2
  <2>1. \A m \in Nodes : IF m \in D THEN h3[m] = Freed ELSE LabelIn(h3, m) = LabelIn(h2, m)
    BY <1>1 DEF Deleted, FreeAll, LabelIn
  <2> QED BY <1>1, <2>1, SeenWithout
<1>12. i \in 1..Len(o.kids[p]) /\ o.kids[p][i] = c
  BY <1>2
<1>13. F!Pruned(o, o2, p, c)
  BY <1>8, <1>9, <1>10, <1>11, <1>12 DEF F!Pruned
<1>14. c \in F!Alive(o)
  BY <1>1, <1>3, <1>4, SeenAlive
<1> QED BY <1>1, <1>2, <1>13, <1>14

\* ReplaceChild.
LEMMA ReplaceStep ==
  ASSUME NEW h, NEW K, Forest(h, K, Null), NEW p \in Nodes, h[p].type # "free",
         NEW x \in Nodes, h[x].type # "free", NEW f, FreshCopies(h, Subtree(h, x), f),
         NEW h2, SameLabels(Cloned(h, x, f), h2), NEW i \in 1..Len(K[p]), NEW c, c = K[p][i],
         NEW K2, K2 = Relisted(WithCopies(K, Subtree(h, x), f), p, Swap(K[p], i, f[x])),
         Forest(h2, K2, c), NEW h3, h3 = Deleted(h2, c)
  PROVE  LET o == Seen(h, K)  o2 == Seen(h3, Without(K2, Subtree(h2, c)))
         IN  /\ p \in F!Alive(o) /\ x \in F!Alive(o) /\ c \in F!Alive(o)
             /\ F!Replaced(o, o2, p, c, x)
<1>1. PICK h1, K1 : h1 = Cloned(h, x, f) /\ K1 = WithCopies(K, Subtree(h, x), f)
  OBVIOUS
<1>2. PICK o, o1, o2, D, s : /\ o = Seen(h, K) /\ o1 = Seen(h1, K1) /\ o2 = Seen(h3, Without(K2, D))
                             /\ D = Subtree(h2, c) /\ s = Swap(K[p], i, f[x])
  OBVIOUS
<1>3. o.kids = K /\ p \in F!Alive(o)
  BY <1>2, SeenAlive DEF Seen
<1>4. K[p] \in Seq(Nodes) /\ c \in Nodes /\ c \in Range(K[p]) /\ K \in [Nodes -> Seq(Nodes)]
  <2>1. K \in [Nodes -> Seq(Nodes)]
    BY DEF Forest
  <2> QED BY <2>1, NthIs
<1>5. h[c].type # "free"
  BY <1>4, InList
<1>6. \A m \in Subtree(h, c) : m \in Nodes /\ h[m].type # "free" /\ c \notin Range(K[m])
  BY <1>4, <1>5, BelowIs
<1>7. Copied(o, o1, h, K, x, f, h1)
  BY <1>1, <1>2, CopiedIs
<1>8. /\ F!WithCopy(o, x, f) = o1 /\ x \in F!Alive(o)
      /\ \A m \in Subtree(h, x) : h1[f[m]].type # "free"
      /\ \A m \in Nodes : h[m].type # "free" => K1[m] = K[m]
  BY <1>1, <1>7 DEF Copied
<1>9. \A m \in Subtree(h, c) : K2[m] = K[m]
  <2>1. \A m \in Nodes \ {p} : K2[m] = K1[m]
    BY <1>1 DEF Relisted, WithCopies
  <2> QED BY <1>4, <1>6, <1>8, <2>1
<1>10. D = Subtree(h, c)
  <2>1. c \in Nodes
    BY <1>4
  <2>2. Subtree(h2, c) = Subtree(h, c)
    BY <1>9, <2>1, SameBelow
  <2> QED BY <1>2, <2>2
<1>11. F!Tree(o, c) = D
  <2>1. Null \in {c, Null}
    OBVIOUS
  <2> QED BY <1>3, <1>4, <1>10, <2>1, TreeIs
<1>12. x \in Subtree(h, x) /\ Subtree(h, x) \subseteq Nodes
  BY BelowIs
<1>13. f[x] \in Nodes /\ \A m \in Subtree(h, x) : f[m] \in Nodes /\ f[m] \notin D
  BY <1>6, <1>10, <1>12 DEF FreshCopies
<1>14. F!ReplaceAt(o.kids[p], i, f[x]) = s
  BY <1>2, <1>3, <1>4, <1>13, SequencesAre
<1>15. F!WithKids(o1, p, s) = Seen(h2, K2)
  <2>1. F!WithKids(Seen(h1, K1), p, s) = Seen(h1, [K1 EXCEPT ![p] = s])
    BY SeenWithKids
  <2>2. Seen(h2, K2) = Seen(h1, K2)
    BY <1>1, SeenSame
  <2>3. K2 = [K1 EXCEPT ![p] = s]
    BY <1>1, <1>2 DEF Relisted
  <2> QED BY <1>2, <2>1, <2>2, <2>3
<1>16. F!Without(Seen(h2, K2), D) = o2
  <2>1. \A m \in Nodes : IF m \in D THEN h3[m] = Freed ELSE LabelIn(h3, m) = LabelIn(h2, m)
    BY <1>2 DEF Deleted, FreeAll, LabelIn
  <2> QED BY <1>2, <2>1, SeenWithout
<1>17. f \in F!CopyMaps(o, o2, x)
  <2>1. \A m \in Subtree(h, x) : h3[f[m]].type # "free"
    BY <1>1, <1>2, <1>8, <1>13 DEF Deleted, FreeAll, SameLabels
  <2>2. Forest(h3, Without(K2, D), Null)
    BY <1>2, <1>4, DeletedForest
  <2> QED BY <1>2, <2>1, <2>2, CopyMapIs
<1>18. i \in 1..Len(o.kids[p]) /\ o.kids[p][i] = c
  BY <1>3
<1>19. o2 = F!Without(F!WithKids(F!WithCopy(o, x, f), p, F!ReplaceAt(o.kids[p], i, f[x])),
                      F!Tree(o, c))
  BY <1>8, <1>11, <1>14, <1>15, <1>16
<1>20. F!Replaced(o, o2, p, c, x)
  BY <1>17, <1>18, <1>19 DEF F!Replaced
<1>21. c \in F!Alive(o)
  BY <1>2, <1>4, <1>5, SeenAlive
<1> QED BY <1>2, <1>3, <1>8, <1>20, <1>21

-----------------------------------------------------------------------------
(***************************************************************************)
(* The invariant                                                           *)
(***************************************************************************)
IInv == Forest(node, Listing(node), Null) /\ Content(node)

LEMMA IInvAfter ==
  ASSUME NEW h2, h2 = node', NEW K2, Forest(h2, K2, Null), Content(h2)
  PROVE  IInv'
<1>1. Listing(h2) = K2
  BY ListingIs
<1>2. Forest(h2, Listing(h2), Null)
  BY <1>1
<1> QED BY <1>2 DEF IInv

\* What callers see of the heap before and after a step.
LEMMA ShownIs ==
  ASSUME NEW h, h = node, NEW K, Forest(h, K, Null), NEW h2, h2 = node', NEW K2, Forest(h2, K2, Null)
  PROVE  Shown = Seen(h, K) /\ Shown' = Seen(h2, K2)
<1>1. Listing(h) = K /\ Listing(h2) = K2
  BY ListingIs
<1>2. Shown = Seen(h, Listing(h)) /\ Shown' = Seen(h2, Listing(h2))
  BY DEF Shown, Seen, LabelIn, Label, Kids, Listing
<1> QED BY <1>1, <1>2

\* A step of OrderedForest, by what it is.
LEMMA StepBy ==
  ASSUME NEW x \in F!Alive(Shown),
         \/ F!Emptied(Shown, Shown', x) \/ F!DeletedRoot(Shown, Shown', x) \/ F!Copied(Shown, Shown', x)
         \/ \E p \in F!Alive(Shown) :
              \/ F!Linked(Shown, Shown', p, x) \/ F!Pruned(Shown, Shown', p, x)
              \/ F!CopiedLast(Shown, Shown', p, x)
              \/ \E c \in F!Alive(Shown) : \/ F!CopiedBefore(Shown, Shown', p, c, x)
                                           \/ F!CopiedAfter(Shown, Shown', p, c, x)
                                           \/ F!Replaced(Shown, Shown', p, c, x)
  PROVE  F!Next
<1>1. PICK o, o2 : o = Shown /\ o2 = Shown'
  OBVIOUS
<1>2. F!Step(o, o2)
  BY <1>1 DEF F!Step
<1> QED BY <1>1, <1>2 DEF F!Next

LEMMA Initially ==
  ASSUME Init
  PROVE  IInv
<1>1. PICK h : h = node
  OBVIOUS
<1>2. PICK K : K = [n \in Nodes |-> <<>>]
  OBVIOUS
<1>3. h = [n \in Nodes |-> Freed]
  BY <1>1 DEF Init
<1>4. h \in [Nodes -> NodeType] /\ K \in [Nodes -> Seq(Nodes)] /\ \A n \in Nodes : h[n] = Freed /\ K[n] = <<>>
  BY <1>2, <1>3, FreedIs
<1>5. Len(<<>>) = 0 /\ Nth(<<>>, 1) = Null /\ Nth(<<>>, 0) = Null /\ Range(<<>>) = {}
  BY DEF Nth, Range
<1>6. \A p \in Nodes : IsList(h, p, K[p]) /\ Null \notin Range(K[p])
  BY <1>4, <1>5, FreedIs DEF IsList, Distinct
<1>7. NoCycle(h)
  BY <1>4, FreedIs, TreeAssumption DEF NoCycle
<1>8. Forest(h, K, Null)
  BY <1>4, <1>6, <1>7, FreedIs DEF Forest
<1>9. Content(h)
  BY <1>4, NoNames, FreedIs DEF Content
<1>10. Listing(h) = K
  BY <1>8, ListingIs
<1> QED BY <1>1, <1>8, <1>9, <1>10 DEF IInv

\* The heap, and the lists of children in it.
LEMMA Now ==
  ASSUME IInv
  PROVE  \E h, K : /\ h = node /\ K = Listing(node) /\ Forest(h, K, Null) /\ Content(h)
                   /\ h \in [Nodes -> NodeType] /\ K \in [Nodes -> Seq(Nodes)]
                   /\ Alive = {n \in Nodes : h[n].type # "free"}
  BY DEF IInv, Forest, Alive

LEMMA NewKeeps ==
  ASSUME IInv, NEW n \in Nodes, NEW t \in {"document", "element", "text"}, NEW v \in Values \cup {""},
         New(n, t, v)
  PROVE  IInv' /\ F!Next
<1>1. PICK h, K : /\ h = node /\ Forest(h, K, Null) /\ Content(h)
                  /\ h \in [Nodes -> NodeType] /\ Alive = {m \in Nodes : h[m].type # "free"}
  BY Now
<1>2. PICK h2 : h2 = node'
  OBVIOUS
<1>3. h[n] = Freed
  BY <1>1 DEF New, Forest
<1>4. PICK x : x = NewNode(t, v)
  OBVIOUS
<1>5. /\ x \in NodeType /\ x.type = t /\ x.parent = Null /\ x.prev = Null /\ x.next = Null
      /\ x.firstChild = Null /\ x.lastChild = Null /\ x.attributes = <<>>
  <2>5. <<>> \in Seq([name : AttributeNames, value : AttributeValues])
    BY FreedIs DEF NodeType
  <2>6. t \in Types
    BY DEF Types
  <2>1. <<>> \in Seq([name : AttributeNames, value : AttributeValues]) /\ t \in Types
    BY <2>5, <2>6
  <2>2. PICK e : e = <<>>
    OBVIOUS
  <2>3. x = [type |-> t, value |-> v, attributes |-> e, error |-> FALSE, parent |-> Null,
             firstChild |-> Null, lastChild |-> Null, prev |-> Null, next |-> Null]
    BY <1>4, <2>2 DEF NewNode
  <2>4. x \in NodeType
    BY <2>1, <2>2, <2>3 DEF NodeType
  <2> QED BY <2>2, <2>3, <2>4
<1>6. h2 = [h EXCEPT ![n] = x]
  BY <1>1, <1>2, <1>4 DEF New
<1>7. h2 \in [Nodes -> NodeType] /\ h2[n] = x /\ \A m \in Nodes \ {n} : h2[m] = h[m]
  BY <1>1, <1>5, <1>6
<1>8. SameLinks(h, h2) /\ \A m \in Nodes : h2[m].type = "free" => h2[m] = Freed
  <2>1. SameLinks(h, h2)
    BY <1>3, <1>5, <1>7, FreedIs DEF SameLinks
  <2>2. x.type # "free"
    BY <1>5
  <2> QED BY <1>1, <1>7, <2>1, <2>2 DEF Forest
<1>9. Forest(h2, K, Null)
  BY <1>1, <1>7, <1>8, SameLinksForest
<1>10. Content(h2)
  BY <1>1, <1>5, <1>7, NoNames DEF Content
<1>11. F!Step(Seen(h, K), Seen(h2, K))
  BY <1>5, <1>7, <1>9, RelabelStep
<1> QED BY <1>1, <1>2, <1>9, <1>10, <1>11, IInvAfter, ShownIs DEF F!Next

LEMMA DeleteNodeKeeps ==
  ASSUME IInv, NEW n \in Nodes, DeleteNode(n)
  PROVE  IInv' /\ F!Next /\ F!DeletedRoot(Shown, Shown', n)
<1>1. PICK h, K : h = node /\ Forest(h, K, Null) /\ Content(h)
  BY Now
<1>2. PICK h2 : h2 = node'
  OBVIOUS
<1>3. h2 = Deleted(h, n) /\ h[n].parent = Null /\ h[n].type # "free"
  BY <1>1, <1>2 DEF DeleteNode, Alive
<1>4. Forest(h2, Without(K, Subtree(h, n)), Null)
  BY <1>1, <1>3, RootIsOut, DeletedForest
<1>5. Content(h2)
  BY <1>1, <1>3, DeletedContent
<1>6. n \in F!Alive(Seen(h, K)) /\ F!DeletedRoot(Seen(h, K), Seen(h2, Without(K, Subtree(h, n))), n)
  BY <1>1, <1>3, DeleteStep
<1>7. n \in F!Alive(Shown) /\ F!DeletedRoot(Shown, Shown', n)
  BY <1>1, <1>2, <1>4, <1>6, ShownIs
<1> QED BY <1>2, <1>4, <1>5, <1>7, IInvAfter, StepBy

\* The ways to allocate are to nodes that are free.
LEMMA AllocationsAre ==
  ASSUME NEW n, NEW f \in Allocations(n), NEW h, h = node
  PROVE  FreshCopies(h, Subtree(h, n), f)
  BY DEF Allocations, FreshCopies, Alive

LEMMA CloneNodeKeeps ==
  ASSUME IInv, NEW n \in Nodes, CloneNode(n)
  PROVE  IInv' /\ F!Next /\ F!Copied(Shown, Shown', n)
<1>1. PICK h, K : h = node /\ Forest(h, K, Null) /\ Content(h) /\ Alive = {m \in Nodes : h[m].type # "free"}
  BY Now
<1>2. PICK h2 : h2 = node'
  OBVIOUS
<1>3. PICK f \in Allocations(n) : h2 = Cloned(h, n, f)
  BY <1>1, <1>2 DEF CloneNode
<1>4. FreshCopies(h, Subtree(h, n), f) /\ h[n].type # "free"
  BY <1>1, <1>3, AllocationsAre DEF CloneNode
<1>5. PICK K2 : /\ CloneMade(h, K, n, f, h2, K2) /\ n \in F!Alive(Seen(h, K))
                /\ F!Copied(Seen(h, K), Seen(h2, K2), n)
  BY <1>1, <1>3, <1>4, CloneForest, CloneStep
<1>6. Forest(h2, K2, Null) /\ Copying(h, Subtree(h, n), n, f, h2) /\ Subtree(h, n) \in SUBSET Nodes
  BY <1>1, <1>4, <1>5, BelowIs DEF CloneMade
<1>7. Content(h2)
  BY <1>1, <1>4, <1>6, ContentCopied
<1>8. n \in F!Alive(Shown) /\ F!Copied(Shown, Shown', n)
  BY <1>1, <1>2, <1>5, <1>6, ShownIs
<1> QED BY <1>2, <1>6, <1>7, <1>8, IInvAfter, StepBy

LEMMA LinkEndChildKeeps ==
  ASSUME IInv, NEW p \in Nodes, NEW n \in Nodes, LinkEndChild(p, n)
  PROVE  IInv' /\ F!Next /\ F!Linked(Shown, Shown', p, n)
<1>1. PICK h, K : h = node /\ Forest(h, K, Null) /\ Content(h) /\ Alive = {m \in Nodes : h[m].type # "free"}
  BY Now
<1>2. PICK h2 : h2 = node'
  OBVIOUS
<1>3. /\ h[p].type # "free" /\ h[n].type # "free" /\ h[n].parent = Null /\ p \notin Subtree(h, n)
      /\ h[n].type # "document" /\ h2 = LinkedBetween(h, p, h[p].lastChild, n, Null)
  BY <1>1, <1>2 DEF LinkEndChild, HasChildren
<1>4. /\ Forest(h2, [K EXCEPT ![p] = Put(K[p], Len(K[p]), n)], Null) /\ Content(h2)
      /\ SameLabels(h, h2)
  BY <1>1, <1>3, LinkedForest
<1>5. /\ p \in F!Alive(Seen(h, K)) /\ n \in F!Alive(Seen(h, K))
      /\ F!Linked(Seen(h, K), Seen(h2, [K EXCEPT ![p] = Put(K[p], Len(K[p]), n)]), p, n)
  BY <1>1, <1>3, <1>4, LinkStep
<1>6. p \in F!Alive(Shown) /\ n \in F!Alive(Shown) /\ F!Linked(Shown, Shown', p, n)
  BY <1>1, <1>2, <1>4, <1>5, ShownIs
<1> QED BY <1>2, <1>4, <1>6, IInvAfter, StepBy

\* A clone of x becomes the child after number i of p.
LEMMA InsertionKeeps ==
  ASSUME IInv, NEW h, h = node, NEW K, Forest(h, K, Null), NEW p \in Nodes, NEW x \in Nodes,
         Insertable(p, x), NEW i \in 0..Len(K[p]), NEW f \in Allocations(x),
         node' = LinkedBetween(Cloned(h, x, f), p, Nth(K[p], i), f[x], Nth(K[p], i + 1))
  PROVE  /\ IInv' /\ Shown.kids = K
         /\ p \in F!Alive(Shown) /\ x \in F!Alive(Shown) /\ F!CopiedAt(Shown, Shown', p, i + 1, x)
<1>1. Content(h)
  BY DEF IInv
<1>2. PICK h2 : h2 = node'
  OBVIOUS
<1>3. h[p].type # "free" /\ h[x].type # "free" /\ h[x].type # "document"
  BY DEF Insertable, HasChildren, Alive
<1>4. h2 = LinkedBetween(Cloned(h, x, f), p, Nth(K[p], i), f[x], Nth(K[p], i + 1))
  BY <1>2
<1>5. FreshCopies(h, Subtree(h, x), f)
  BY AllocationsAre
<1>6. PICK K2 : K2 = [WithCopies(K, Subtree(h, x), f) EXCEPT ![p] = Put(K[p], i, f[x])]
  OBVIOUS
<1>7. Forest(h2, K2, Null) /\ Content(h2) /\ SameLabels(Cloned(h, x, f), h2)
  <2>1. /\ Forest(h2, [WithCopies(K, Subtree(h, x), f) EXCEPT ![p] = Put(K[p], i, f[x])], Null)
        /\ SameLabels(Cloned(h, x, f), h2) /\ Content(h2)
    BY <1>1, <1>3, <1>4, <1>5, InsertedForest
  <2> QED BY <1>6, <2>1
<1>8. /\ p \in F!Alive(Seen(h, K)) /\ x \in F!Alive(Seen(h, K)) /\ Seen(h, K).kids = K
      /\ F!CopiedAt(Seen(h, K), Seen(h2, K2), p, i + 1, x)
  BY <1>1, <1>3, <1>5, <1>6, <1>7, InsertStep
<1>9. Shown = Seen(h, K) /\ Shown' = Seen(h2, K2)
  BY <1>2, <1>7, ShownIs
<1>10. IInv'
  BY <1>2, <1>7, IInvAfter
<1> QED BY <1>8, <1>9, <1>10

LEMMA InsertEndChildKeeps ==
  ASSUME IInv, NEW p \in Nodes, NEW x \in Nodes, InsertEndChild(p, x)
  PROVE  IInv' /\ F!Next /\ F!CopiedLast(Shown, Shown', p, x)
<1>1. PICK h, K : h = node /\ Forest(h, K, Null)
  BY Now
<1>2. K[p] \in Seq(Nodes) /\ IsList(h, p, K[p]) /\ Len(K[p]) \in Nat
  BY <1>1 DEF Forest
<1>3. PICK f \in Allocations(x) :
        node' = LinkedBetween(Cloned(h, x, f), p, h[p].lastChild, f[x], Null)
  BY <1>1 DEF InsertEndChild
<1>4. PICK i \in 0..Len(K[p]) : i = Len(K[p])
  BY <1>2
<1>5. h[p].lastChild = Nth(K[p], i) /\ Nth(K[p], i + 1) = Null
  <2>1. i + 1 \notin 1..Len(K[p])
    BY <1>2, <1>4
  <2> QED BY <1>2, <1>4, <2>1, NthIs DEF IsList
<1>6. node' = LinkedBetween(Cloned(h, x, f), p, Nth(K[p], i), f[x], Nth(K[p], i + 1))
  BY <1>3, <1>5
<1>7. /\ IInv' /\ Shown.kids = K
      /\ p \in F!Alive(Shown) /\ x \in F!Alive(Shown) /\ F!CopiedAt(Shown, Shown', p, i + 1, x)
  BY <1>1, <1>6, InsertionKeeps DEF InsertEndChild
<1>8. F!CopiedLast(Shown, Shown', p, x)
  BY <1>4, <1>7 DEF F!CopiedLast
<1> QED BY <1>7, <1>8, StepBy

\* A child is one of the nodes that exist.
LEMMA ChildShown ==
  ASSUME IInv, NEW c \in Nodes, c \in Alive
  PROVE  c \in F!Alive(Shown)
<1>1. PICK h, K : h = node /\ K = Listing(node) /\ Forest(h, K, Null)
  BY Now
<1>2. Shown = Seen(h, K)
  BY <1>1 DEF Shown, Seen, LabelIn, Label, Kids, Listing
<1>3. h[c].type # "free"
  BY <1>1 DEF Alive
<1> QED BY <1>1, <1>2, <1>3, SeenAlive

LEMMA InsertBeforeChildKeeps ==
  ASSUME IInv, NEW p \in Nodes, NEW c \in Nodes, NEW x \in Nodes, InsertBeforeChild(p, c, x)
  PROVE  IInv' /\ F!Next /\ F!CopiedBefore(Shown, Shown', p, c, x)
<1>1. PICK h, K : h = node /\ Forest(h, K, Null)
  BY Now
<1>2. K[p] \in Seq(Nodes) /\ Len(K[p]) \in Nat
  BY <1>1 DEF Forest
<1>3. PICK f \in Allocations(x) : node' = LinkedBetween(Cloned(h, x, f), p, h[c].prev, f[x], c)
  BY <1>1 DEF InsertBeforeChild
<1>4. PICK i \in 1..Len(K[p]) : K[p][i] = c /\ h[c].prev = Nth(K[p], i - 1)
  BY <1>1, ChildIs DEF InsertBeforeChild
<1>5. PICK j \in 0..Len(K[p]) : j + 1 = i /\ j = i - 1
  BY <1>2, <1>4
<1>6. Nth(K[p], i) = c
  BY <1>2, <1>4, NthIs
<1>7. node' = LinkedBetween(Cloned(h, x, f), p, Nth(K[p], j), f[x], Nth(K[p], j + 1))
  BY <1>3, <1>4, <1>5, <1>6
<1>8. /\ IInv' /\ Shown.kids = K
      /\ p \in F!Alive(Shown) /\ x \in F!Alive(Shown) /\ F!CopiedAt(Shown, Shown', p, j + 1, x)
  BY <1>1, <1>7, InsertionKeeps DEF InsertBeforeChild
<1>9. F!CopiedBefore(Shown, Shown', p, c, x)
  BY <1>4, <1>5, <1>8 DEF F!CopiedBefore
<1>10. c \in F!Alive(Shown)
  BY ChildShown DEF InsertBeforeChild
<1> QED BY <1>8, <1>9, <1>10, StepBy

LEMMA InsertAfterChildKeeps ==
  ASSUME IInv, NEW p \in Nodes, NEW c \in Nodes, NEW x \in Nodes, InsertAfterChild(p, c, x)
  PROVE  IInv' /\ F!Next /\ F!CopiedAfter(Shown, Shown', p, c, x)
<1>1. PICK h, K : h = node /\ Forest(h, K, Null)
  BY Now
<1>2. K[p] \in Seq(Nodes) /\ Len(K[p]) \in Nat
  BY <1>1 DEF Forest
<1>3. PICK f \in Allocations(x) : node' = LinkedBetween(Cloned(h, x, f), p, c, f[x], h[c].next)
  BY <1>1 DEF InsertAfterChild
<1>4. PICK i \in 1..Len(K[p]) : K[p][i] = c /\ h[c].next = Nth(K[p], i + 1)
  BY <1>1, ChildIs DEF InsertAfterChild
<1>5. i \in 0..Len(K[p]) /\ Nth(K[p], i) = c
  BY <1>2, <1>4, NthIs
<1>6. node' = LinkedBetween(Cloned(h, x, f), p, Nth(K[p], i), f[x], Nth(K[p], i + 1))
  BY <1>3, <1>4, <1>5
<1>7. /\ IInv' /\ Shown.kids = K
      /\ p \in F!Alive(Shown) /\ x \in F!Alive(Shown) /\ F!CopiedAt(Shown, Shown', p, i + 1, x)
  BY <1>1, <1>5, <1>6, InsertionKeeps DEF InsertAfterChild
<1>8. F!CopiedAfter(Shown, Shown', p, c, x)
  BY <1>4, <1>7 DEF F!CopiedAfter
<1>9. c \in F!Alive(Shown)
  BY ChildShown DEF InsertAfterChild
<1> QED BY <1>7, <1>8, <1>9, StepBy

LEMMA ReplaceChildKeeps ==
  ASSUME IInv, NEW p \in Nodes, NEW old \in Nodes, NEW x \in Nodes, ReplaceChild(p, old, x)
  PROVE  IInv' /\ F!Next /\ F!Replaced(Shown, Shown', p, old, x)
<1>1. PICK h, K : h = node /\ Forest(h, K, Null) /\ Content(h)
  BY Now
<1>2. PICK h3 : h3 = node'
  OBVIOUS
<1>3. h[p].type # "free" /\ h[x].type # "free" /\ h[x].type # "document" /\ h[old].parent = p
  BY <1>1 DEF ReplaceChild, Insertable, HasChildren, Alive
<1>4. PICK i \in 1..Len(K[p]) : /\ K[p][i] = old /\ h[old].prev = Nth(K[p], i - 1)
                                /\ h[old].next = Nth(K[p], i + 1)
  BY <1>1, <1>3, ChildIs, SMTT(30)
<1>5. PICK f \in Allocations(x) :
        h3 = Deleted(LinkedBetween(Cloned(h, x, f), p, h[old].prev, f[x], h[old].next), old)
  BY <1>1, <1>2 DEF ReplaceChild
<1>6. PICK h2 : h2 = LinkedBetween(Cloned(h, x, f), p, h[old].prev, f[x], h[old].next)
  OBVIOUS
<1>7. FreshCopies(h, Subtree(h, x), f)
  BY <1>1, <1>5, AllocationsAre
<1>8. PICK K2 : /\ Forest(h2, K2, old) /\ Content(h2) /\ SameLabels(Cloned(h, x, f), h2)
                /\ K2 = Relisted(WithCopies(K, Subtree(h, x), f), p, Swap(K[p], i, f[x]))
  <2>1. PICK a, b : a = h[old].prev /\ b = h[old].next
    OBVIOUS
  <2>2. a = Nth(K[p], i - 1) /\ b = Nth(K[p], i + 1) /\ h2 = LinkedBetween(Cloned(h, x, f), p, a, f[x], b)
    BY <1>4, <1>6, <2>1
  <2>3. /\ Forest(h2, [WithCopies(K, Subtree(h, x), f) EXCEPT ![p] = Swap(K[p], i, f[x])], K[p][i])
        /\ Content(h2) /\ SameLabels(Cloned(h, x, f), h2)
    BY <1>1, <1>3, <1>7, <2>2, ReplacedForest
  <2> QED BY <1>4, <2>3 DEF Relisted
<1>9. Forest(h3, Without(K2, Subtree(h2, old)), Null) /\ Content(h3)
  BY <1>5, <1>6, <1>8, DeletedForest, DeletedContent
<1>10. h3 = Deleted(h2, old) /\ old = K[p][i]
  BY <1>4, <1>5, <1>6
<1>11. /\ p \in F!Alive(Seen(h, K)) /\ x \in F!Alive(Seen(h, K)) /\ old \in F!Alive(Seen(h, K))
       /\ F!Replaced(Seen(h, K), Seen(h3, Without(K2, Subtree(h2, old))), p, old, x)
  BY <1>1, <1>3, <1>7, <1>8, <1>10, ReplaceStep
<1>12. /\ p \in F!Alive(Shown) /\ x \in F!Alive(Shown) /\ old \in F!Alive(Shown)
       /\ F!Replaced(Shown, Shown', p, old, x)
  BY <1>1, <1>2, <1>9, <1>11, ShownIs
<1> QED BY <1>2, <1>9, <1>12, IInvAfter, StepBy

LEMMA RemoveChildKeeps ==
  ASSUME IInv, NEW p \in Nodes, NEW child \in Nodes, RemoveChild(p, child)
  PROVE  IInv' /\ F!Next /\ F!Pruned(Shown, Shown', p, child)
<1>1. PICK h, K : h = node /\ Forest(h, K, Null) /\ Content(h)
  BY Now
<1>2. PICK h3 : h3 = node'
  OBVIOUS
<1>3. h[p].type # "free" /\ h[child].parent = p
  BY <1>1 DEF RemoveChild, Alive
<1>4. PICK i \in 1..Len(K[p]) : /\ K[p][i] = child /\ h[child].prev = Nth(K[p], i - 1)
                                /\ h[child].next = Nth(K[p], i + 1)
  BY <1>1, <1>3, ChildIs
<1>5. PICK h2 : h2 = Joined(h, p, h[child].prev, h[child].next)
  OBVIOUS
<1>6. h3 = Deleted(h2, child)
  BY <1>1, <1>2, <1>5 DEF RemoveChild
<1>7. PICK K2 : /\ Forest(h2, K2, child) /\ Content(h2) /\ SameLabels(h, h2)
                /\ K2 = Relisted(K, p, Drop(K[p], i))
  <2>1. PICK a, b : a = h[child].prev /\ b = h[child].next
    OBVIOUS
  <2>2. a = Nth(K[p], i - 1) /\ b = Nth(K[p], i + 1) /\ h2 = Joined(h, p, a, b)
    BY <1>4, <1>5, <2>1
  <2>3. /\ Forest(h2, [K EXCEPT ![p] = Drop(K[p], i)], K[p][i]) /\ Content(h2)
        /\ SameLabels(h, h2)
    <3>1. i \in 1..Len(K[p]) /\ h[p].type # "free" /\ Forest(h, K, Null) /\ Content(h)
      BY <1>1, <1>3, <1>4
    <3> QED BY <2>2, <3>1, UnlinkedForest
  <2> QED BY <1>4, <2>3 DEF Relisted
<1>8. Forest(h3, Without(K2, Subtree(h2, child)), Null) /\ Content(h3)
  BY <1>6, <1>7, DeletedForest, DeletedContent
<1>9. /\ p \in F!Alive(Seen(h, K)) /\ child \in F!Alive(Seen(h, K))
      /\ F!Pruned(Seen(h, K), Seen(h3, Without(K2, Subtree(h2, child))), p, child)
  BY <1>1, <1>3, <1>4, <1>6, <1>7, RemoveStep
<1>10. p \in F!Alive(Shown) /\ child \in F!Alive(Shown) /\ F!Pruned(Shown, Shown', p, child)
  BY <1>1, <1>2, <1>8, <1>9, ShownIs
<1> QED BY <1>2, <1>8, <1>10, IInvAfter, StepBy

LEMMA ClearKeeps ==
  ASSUME IInv, NEW p \in Nodes, Clear(p)
  PROVE  IInv' /\ F!Next /\ F!Emptied(Shown, Shown', p)
<1>1. PICK h, K : h = node /\ Forest(h, K, Null) /\ Content(h)
  BY Now
<1>2. PICK h2 : h2 = node'
  OBVIOUS
<1>3. h2 = Emptied(h, p) /\ h[p].type # "free"
  BY <1>1, <1>2 DEF Clear, HasChildren, Alive
<1>4. Forest(h2, Without(K, Subtree(h, p)), Null)
  BY <1>1, <1>3, EmptiedForest
<1>5. Content(h2)
  <2>1. EmptiedAt(h, Subtree(h, p), p, h2)
    BY <1>1, <1>3, EmptiedIs, BelowIs DEF Forest
  <2>2. \A m \in Nodes : \/ h2[m] = Freed
                         \/ /\ h2[m].type = h[m].type /\ h2[m].attributes = h[m].attributes
                            /\ h2[m].parent = h[m].parent
    BY <2>1 DEF EmptiedAt
  <2> QED BY <1>1, <2>2, ContentStays
<1>6. p \in F!Alive(Seen(h, K)) /\ F!Emptied(Seen(h, K), Seen(h2, Without(K, Subtree(h, p))), p)
  <2>1. EmptiedAt(h, Subtree(h, p), p, h2)
    BY <1>1, <1>3, EmptiedIs, BelowIs DEF Forest
  <2> QED BY <1>1, <1>3, <2>1, EmptyStep
<1>7. p \in F!Alive(Shown) /\ F!Emptied(Shown, Shown', p)
  BY <1>1, <1>2, <1>4, <1>6, ShownIs
<1> QED BY <1>2, <1>4, <1>5, <1>7, IInvAfter, StepBy

\* A change of one node, to x: its links stay, and it is not freed.
LEMMA RelabelKeeps ==
  ASSUME IInv, NEW n \in Nodes, n \in Alive, NEW x \in NodeType, node' = [node EXCEPT ![n] = x],
         x.type = node[n].type, UniqueNames(x.attributes),
         x.parent = node[n].parent, x.prev = node[n].prev, x.next = node[n].next,
         x.firstChild = node[n].firstChild, x.lastChild = node[n].lastChild
  PROVE  IInv' /\ F!Next
<1>1. PICK h, K : h = node /\ Forest(h, K, Null) /\ Content(h) /\ h \in [Nodes -> NodeType]
  BY Now
<1>2. PICK h2 : h2 = node'
  OBVIOUS
<1>3. h2 = [h EXCEPT ![n] = x] /\ h[n].type # "free"
  BY <1>1, <1>2 DEF Alive
<1>4. h2 \in [Nodes -> NodeType] /\ h2[n] = x /\ \A m \in Nodes \ {n} : h2[m] = h[m]
  BY <1>1, <1>3
<1>5. SameLinks(h, h2)
  BY <1>1, <1>4 DEF SameLinks
<1>6. Forest(h2, K, Null) /\ Content(h2)
  BY <1>1, <1>3, <1>4, <1>5, RelabelledForest
<1>7. F!Step(Seen(h, K), Seen(h2, K))
  <2>1. h2[n].type # "free" /\ \A m \in Nodes \ {n} : h2[m] = h[m]
    BY <1>1, <1>3, <1>4
  <2> QED BY <1>6, <2>1, RelabelStep
<1> QED BY <1>1, <1>2, <1>6, <1>7, IInvAfter, ShownIs DEF F!Next

LEMMA Attributes ==
  ASSUME IInv, NEW n \in Nodes
  PROVE  /\ node \in [Nodes -> NodeType] /\ node[n] \in NodeType
         /\ node[n].attributes \in Seq(Attribute) /\ UniqueNames(node[n].attributes)
  BY DEF IInv, Forest, Content, NodeType, Attribute

LEMMA SetAttributeKeeps ==
  ASSUME IInv, NEW n \in Nodes, NEW name \in AttributeNames, NEW v \in AttributeValues,
         SetAttribute(n, name, v)
  PROVE  IInv' /\ F!Next
<1>1. PICK r : r = node[n]
  OBVIOUS
<1>2. /\ r \in NodeType /\ r.attributes \in Seq(Attribute) /\ UniqueNames(r.attributes)
      /\ node \in [Nodes -> NodeType]
  BY <1>1, Attributes
<1>3. PICK l : l = WithAttribute(r.attributes, name, v)
  OBVIOUS
<1>4. l \in Seq(Attribute) /\ UniqueNames(l)
  BY <1>2, <1>3, WithAttributeIs
<1>5. PICK x : x = [r EXCEPT !.attributes = l]
  OBVIOUS
<1>6. /\ x \in NodeType /\ x.type = r.type /\ x.attributes = l
      /\ x.parent = r.parent /\ x.prev = r.prev /\ x.next = r.next
      /\ x.firstChild = r.firstChild /\ x.lastChild = r.lastChild
  BY <1>2, <1>4, <1>5 DEF NodeType, Attribute
<1>7. node' = [node EXCEPT ![n] = x] /\ n \in Alive
  BY <1>1, <1>2, <1>3, <1>5 DEF SetAttribute
<1> QED BY <1>1, <1>4, <1>6, <1>7, RelabelKeeps

LEMMA RemoveAttributeKeeps ==
  ASSUME IInv, NEW n \in Nodes, NEW name \in AttributeNames, RemoveAttribute(n, name)
  PROVE  IInv' /\ F!Next
<1>1. PICK r : r = node[n]
  OBVIOUS
<1>2. /\ r \in NodeType /\ r.attributes \in Seq(Attribute) /\ UniqueNames(r.attributes)
      /\ node \in [Nodes -> NodeType]
  BY <1>1, Attributes
<1>8. Find(r.attributes, name) \in 1..Len(r.attributes)
  BY <1>1, <1>2, FindIs DEF RemoveAttribute
<1>3. PICK l : l = RemoveAt(r.attributes, Find(r.attributes, name))
  OBVIOUS
<1>4. l \in Seq(Attribute) /\ UniqueNames(l)
  BY <1>2, <1>3, <1>8, WithoutAttributeIs
<1>5. PICK x : x = [r EXCEPT !.attributes = l]
  OBVIOUS
<1>6. /\ x \in NodeType /\ x.type = r.type /\ x.attributes = l
      /\ x.parent = r.parent /\ x.prev = r.prev /\ x.next = r.next
      /\ x.firstChild = r.firstChild /\ x.lastChild = r.lastChild
  BY <1>2, <1>4, <1>5 DEF NodeType, Attribute
<1>7. node' = [node EXCEPT ![n] = x] /\ n \in Alive
  BY <1>1, <1>2, <1>3, <1>5 DEF RemoveAttribute
<1> QED BY <1>1, <1>4, <1>6, <1>7, RelabelKeeps

LEMMA SetValueKeeps ==
  ASSUME IInv, NEW n \in Nodes, NEW v \in Values, SetValue(n, v)
  PROVE  IInv' /\ F!Next
<1>1. PICK r : r = node[n]
  OBVIOUS
<1>2. /\ r \in NodeType /\ UniqueNames(r.attributes) /\ node \in [Nodes -> NodeType]
  BY <1>1, Attributes
<1>5. PICK x : x = [r EXCEPT !.value = v]
  OBVIOUS
<1>6. /\ x \in NodeType /\ x.type = r.type /\ x.attributes = r.attributes
      /\ x.parent = r.parent /\ x.prev = r.prev /\ x.next = r.next
      /\ x.firstChild = r.firstChild /\ x.lastChild = r.lastChild
  BY <1>2, <1>5 DEF NodeType
<1>7. node' = [node EXCEPT ![n] = x] /\ n \in Alive
  BY <1>1, <1>2, <1>5 DEF SetValue
<1> QED BY <1>1, <1>2, <1>6, <1>7, RelabelKeeps

LEMMA RefusedKeeps ==
  ASSUME IInv, NEW p \in Nodes, NEW y \in Nodes, Refused(p, y), GetDocument(p) \in Alive
  PROVE  IInv' /\ F!Next
<1>0. PICK n : n = GetDocument(p)
  OBVIOUS
<1>9. n \in Alive /\ n \in Nodes
  BY <1>0 DEF Alive
<1>1. PICK r : r = node[n]
  OBVIOUS
<1>2. /\ r \in NodeType /\ UniqueNames(r.attributes) /\ node \in [Nodes -> NodeType]
  BY <1>1, <1>9, Attributes
<1>5. PICK x : x = [r EXCEPT !.error = TRUE]
  OBVIOUS
<1>6. /\ x \in NodeType /\ x.type = r.type /\ x.attributes = r.attributes
      /\ x.parent = r.parent /\ x.prev = r.prev /\ x.next = r.next
      /\ x.firstChild = r.firstChild /\ x.lastChild = r.lastChild
  BY <1>2, <1>5 DEF NodeType
<1>7. node' = [node EXCEPT ![n] = x]
  BY <1>0, <1>1, <1>2, <1>5 DEF Refused
<1> QED BY <1>1, <1>2, <1>6, <1>7, <1>9, RelabelKeeps

-----------------------------------------------------------------------------
(***************************************************************************)
(* Lookups                                                                 *)
(***************************************************************************)
\* A lookup does what its loop does: it stays, or goes on along the link.
LEMMA AlongStep ==
  ASSUME NEW link \in [Nodes -> Nodes \cup {Null}], NEW wanted
  PROVE  \A m \in Nodes \cup {Null} :
           Along(m, link, wanted) = IF m = Null \/ m \in wanted THEN m ELSE Along(link[m], link, wanted)
<1> DEFINE X == Nodes \cup {Null}
           Stop == {x \in X : x = Null \/ x \in wanted}
           Closed(S) == \A y \in S : y \in X \ Stop => link[y] \in S
           Hit(a, x) == x \in Stop /\ \A S \in SUBSET X : a \in S /\ Closed(S) => x \in S
           w == [a \in X |-> CHOOSE x : Hit(a, x)]
           walk == CHOOSE f : f = [m \in X |-> IF m = Null \/ m \in wanted THEN m ELSE f[link[m]]]
<1>1. ASSUME NEW a \in Stop, NEW x PROVE Hit(a, x) <=> x = a
  <2>1. {a} \in SUBSET X /\ Closed({a})
    OBVIOUS
  <2> QED BY <2>1
<1>2. ASSUME NEW a \in X \ Stop, NEW x PROVE Hit(a, x) <=> Hit(link[a], x)
  <2>1. a \in Nodes /\ link[a] \in X
    OBVIOUS
  <2>2. ASSUME Hit(a, x), NEW S \in SUBSET X, link[a] \in S, Closed(S) PROVE x \in S
    <3>1. S \cup {a} \in SUBSET X /\ Closed(S \cup {a})
      BY <2>1, <2>2
    <3>2. x \in S \cup {a} /\ x # a
      BY <2>2, <3>1
    <3> QED BY <3>2
  <2>3. ASSUME Hit(link[a], x), NEW S \in SUBSET X, a \in S, Closed(S) PROVE x \in S
    <3>1. link[a] \in S
      BY <2>3
    <3> QED BY <2>3, <3>1
  <2> QED BY <2>2, <2>3
<1> HIDE DEF Hit
<1>3. ASSUME NEW a \in X PROVE w[a] = IF a = Null \/ a \in wanted THEN a ELSE w[link[a]]
  <2>1. CASE a \in Stop
    <3>1. (CHOOSE x : Hit(a, x)) = a
      BY <1>1, <2>1
    <3> QED BY <2>1, <3>1
  <2>2. CASE a \notin Stop
    <3>1. a \in X \ Stop /\ a \in Nodes /\ link[a] \in X
      BY <2>2
    <3>2. \A x : Hit(a, x) <=> Hit(link[a], x)
      BY <1>2, <3>1
    <3>3. (CHOOSE x : Hit(a, x)) = CHOOSE x : Hit(link[a], x)
      BY <3>2
    <3>5. \A b \in X : w[b] = CHOOSE x : Hit(b, x)
      OBVIOUS
    <3>6. a \in X /\ link[a] \in X
      BY <3>1
    <3>4. w[a] = w[link[a]]
      <4> HIDE DEF w, X
      <4>1. w[a] = CHOOSE x : Hit(a, x)
        BY <3>5, <3>6
      <4>2. w[link[a]] = CHOOSE x : Hit(link[a], x)
        BY <3>5, <3>6
      <4> QED BY <3>3, <4>1, <4>2
    <3> HIDE DEF w
    <3> QED BY <3>1, <3>4
  <2> QED BY <2>1, <2>2
<1>4. w = [m \in X |-> IF m = Null \/ m \in wanted THEN m ELSE w[link[m]]]
  <2>1. w = [m \in X |-> w[m]]
    OBVIOUS
  <2> HIDE DEF w, X
  <2> QED BY <1>3, <2>1
<1>5. walk = [m \in X |-> IF m = Null \/ m \in wanted THEN m ELSE walk[link[m]]]
  <2> HIDE DEF w, X
  <2> QED BY <1>4
<1>6. \A m : Along(m, link, wanted) = walk[m]
  BY DEF Along
<1> HIDE DEF walk
<1>7. \A m \in X : walk[m] = IF m = Null \/ m \in wanted THEN m ELSE walk[link[m]]
  <2> HIDE DEF X
  <2> QED BY <1>5
<1> QED BY <1>6, <1>7

LEMMA TopDocumentIs ==
  ASSUME NEW h, NEW K, Forest(h, K, Null), Content(h),
         NEW link, link = [n \in Nodes |-> h[n].parent],
         NEW wanted, wanted = {n \in Nodes : h[n].type = "document"}
  PROVE  \A m \in Nodes : /\ Along(m, link, wanted) \in wanted \cup {Null}
                          /\ \A d \in wanted : m \in Subtree(h, d) => Along(m, link, wanted) = d
<1> DEFINE A(m) == Along(m, link, wanted)
<1>1. /\ h \in [Nodes -> NodeType] /\ Null \notin Nodes /\ NoCycle(h)
      /\ \A n \in Nodes : h[n].parent \in Nodes \cup {Null}
  BY TreeAssumption DEF Forest, NodeType
<1>2. \A m \in Nodes \cup {Null} : A(m) = IF m = Null \/ m \in wanted THEN m ELSE A(link[m])
  <2>1. link \in [Nodes -> Nodes \cup {Null}]
    BY <1>1
  <2> QED BY <2>1, AlongStep
<1> HIDE DEF A
<1>3. \A m \in Nodes : A(m) \in wanted \cup {Null}
  <2> DEFINE S == {m \in Nodes : A(m) \notin wanted \cup {Null}}
  <2>1. ASSUME S # {} PROVE FALSE
    <3>1. PICK m \in S : h[m].parent \notin S
      BY <1>1, <2>1 DEF NoCycle
    <3>2. h[m].parent \in Nodes \cup {Null} /\ link[m] = h[m].parent
      BY <1>1, <3>1
    <3>3. A(h[m].parent) \in wanted \cup {Null}
      BY <1>2, <3>1, <3>2
    <3> QED BY <1>2, <3>1, <3>2, <3>3
  <2> QED BY <2>1
<1>4. ASSUME NEW d \in wanted PROVE \A m \in Subtree(h, d) : A(m) = d
  <2> DEFINE S == {m \in Subtree(h, d) : A(m) # d}
  <2>1. /\ d \in Nodes /\ Subtree(h, d) \subseteq Nodes
        /\ \A m \in Subtree(h, d) \ {d} : h[m].parent \in Subtree(h, d)
    <3>1. d \in Nodes /\ h[d].type # "free"
      OBVIOUS
    <3> QED BY <3>1, BelowIs
  <2>2. ASSUME S # {} PROVE FALSE
    <3>1. PICK m \in S : h[m].parent \notin S
      BY <1>1, <2>1, <2>2 DEF NoCycle
    <3>2. m \in Nodes /\ link[m] = h[m].parent /\ m # d
      BY <1>2, <2>1, <3>1
    <3>3. h[m].parent \in Subtree(h, d) /\ A(h[m].parent) = d /\ h[m].parent # Null
      BY <1>1, <2>1, <3>1, <3>2
    <3>4. m \notin wanted
      BY <3>3 DEF Content
    <3> QED BY <1>1, <1>2, <3>1, <3>2, <3>3, <3>4
  <2> QED BY <2>2
<1> QED BY <1>3, <1>4 DEF A

LEMMA DocumentIs ==
  ASSUME IInv, NEW m \in Nodes
  PROVE  /\ GetDocument(m) \in Documents \cup {Null}
         /\ \A d \in Documents : m \in Subtree(node, d) => GetDocument(m) = d
<1>1. PICK h, K : h = node /\ Forest(h, K, Null) /\ Content(h)
  BY Now
<1>2. PICK link : link = [n \in Nodes |-> h[n].parent]
  OBVIOUS
<1>3. PICK wanted : wanted = {n \in Nodes : h[n].type = "document"}
  OBVIOUS
<1>4. GetDocument(m) = Along(m, link, wanted) /\ Documents = wanted
  BY <1>1, <1>2, <1>3 DEF GetDocument, Parent, Documents
<1>5. /\ Along(m, link, wanted) \in wanted \cup {Null}
      /\ \A d \in wanted : m \in Subtree(h, d) => Along(m, link, wanted) = d
  BY <1>1, <1>2, <1>3, TopDocumentIs
<1> QED BY <1>1, <1>4, <1>5

\* Every step keeps the invariant, and is a step of OrderedForest.
LEMMA EveryStep ==
  ASSUME IInv, Next
  PROVE  IInv' /\ F!Next
<1>1. ASSUME NEW n \in Nodes,
             New(n, "document", "") \/ \E v \in Values : New(n, "element", v) \/ New(n, "text", v)
      PROVE  IInv' /\ F!Next
  BY <1>1, NewKeeps
<1>2. ASSUME NEW n \in Nodes, DeleteNode(n) PROVE IInv' /\ F!Next
  BY <1>2, DeleteNodeKeeps
<1>3. ASSUME NEW n \in Nodes, CloneNode(n) PROVE IInv' /\ F!Next
  BY <1>3, CloneNodeKeeps
<1>4. ASSUME NEW n \in Nodes, Clear(n) PROVE IInv' /\ F!Next
  BY <1>4, ClearKeeps
<1>5. ASSUME NEW p \in Nodes, NEW x \in Nodes, LinkEndChild(p, x) PROVE IInv' /\ F!Next
  BY <1>5, LinkEndChildKeeps
<1>6. ASSUME NEW p \in Nodes, NEW x \in Nodes, Refused(p, x) PROVE IInv' /\ F!Next
  <2>1. GetDocument(p) \in Alive
    BY <1>6, DocumentIs DEF Refused, Documents, Alive
  <2> QED BY <1>6, <2>1, RefusedKeeps
<1>7. ASSUME NEW p \in Nodes, NEW x \in Nodes, NEW c \in Nodes,
             InsertEndChild(p, x) \/ InsertBeforeChild(p, c, x) \/ InsertAfterChild(p, c, x)
      PROVE  IInv' /\ F!Next
  BY <1>7, InsertEndChildKeeps, InsertBeforeChildKeeps, InsertAfterChildKeeps
<1>8. ASSUME NEW p \in Nodes, NEW c \in Nodes, NEW x \in Nodes, ReplaceChild(p, c, x) PROVE IInv' /\ F!Next
  BY <1>8, ReplaceChildKeeps
<1>9. ASSUME NEW p \in Nodes, NEW x \in Nodes, RemoveChild(p, x) PROVE IInv' /\ F!Next
  BY <1>9, RemoveChildKeeps
<1>10. ASSUME NEW n \in Nodes, NEW v \in Values, SetValue(n, v) PROVE IInv' /\ F!Next
  BY <1>10, SetValueKeeps
<1>11. ASSUME NEW n \in Nodes, NEW name \in AttributeNames, NEW v \in AttributeValues,
              SetAttribute(n, name, v)
       PROVE  IInv' /\ F!Next
  BY <1>11, SetAttributeKeeps
<1>12. ASSUME NEW n \in Nodes, NEW name \in AttributeNames, RemoveAttribute(n, name) PROVE IInv' /\ F!Next
  BY <1>12, RemoveAttributeKeeps
<1> QED
  BY <1>1, <1>2, <1>3, <1>4, <1>5, <1>6, <1>7, <1>8, <1>9, <1>10, <1>11, <1>12 DEF Next

\* The tree is sound, and stays so: the lists of the heap are a forest.
THEOREM Invariance == Spec => []IInv
<1>1. ASSUME Init PROVE IInv
  BY <1>1, Initially
<1>2. ASSUME IInv, [Next]_vars PROVE IInv'
  <2>1. CASE UNCHANGED vars
    <3>1. PICK h, K : h = node /\ Forest(h, K, Null) /\ Content(h)
      BY <1>2, Now
    <3>2. h = node'
      BY <2>1, <3>1 DEF vars
    <3> QED BY <3>1, <3>2, IInvAfter
  <2> QED BY <1>2, <2>1, EveryStep
<1> QED BY <1>1, <1>2, PTL DEF Spec

-----------------------------------------------------------------------------
(***************************************************************************)
(* The tree is sound                                                       *)
(***************************************************************************)
LEMMA SoundNow ==
  ASSUME IInv
  PROVE  TreeIsSound
<1>1. PICK h, K : /\ h = node /\ K = Listing(node) /\ Forest(h, K, Null) /\ Content(h)
                  /\ h \in [Nodes -> NodeType] /\ K \in [Nodes -> Seq(Nodes)]
                  /\ Alive = {n \in Nodes : h[n].type # "free"}
  BY Now
<1>2. \A n \in Nodes : Kids(n) = K[n] /\ node[n] = h[n]
  BY <1>1 DEF Kids, Listing
<1>3. ASSUME NEW p \in Nodes, NEW s, s = K[p]
      PROVE  /\ s \in Seq(Nodes) /\ IsList(h, p, s)
             /\ h[p].lastChild = IF s = <<>> THEN Null ELSE Last(s)
             /\ \A i \in 1..Len(s) : /\ s[i] \in Alive /\ h[s[i]].parent = p
                                     /\ h[s[i]].prev = IF i = 1 THEN Null ELSE s[i - 1]
                                     /\ h[s[i]].next = IF i = Len(s) THEN Null ELSE s[i + 1]
  <2>1. s \in Seq(Nodes) /\ IsList(h, p, s)
    BY <1>1, <1>3 DEF Forest
  <2>2. /\ Len(s) \in Nat
        /\ \A i : Nth(s, i) = IF i \in 1..Len(s) THEN s[i] ELSE Null
        /\ \A i \in 1..Len(s) : s[i] \in Nodes /\ s[i] \in Range(s)
    BY <2>1, NthIs
  <2>3. h[p].lastChild = IF s = <<>> THEN Null ELSE Last(s)
    <3>1. h[p].lastChild = IF Len(s) \in 1..Len(s) THEN s[Len(s)] ELSE Null
      BY <2>1, <2>2 DEF IsList
    <3>2. s = <<>> <=> Len(s) = 0
      BY <2>1
    <3> QED BY <2>2, <3>1, <3>2 DEF Last
  <2>4. ASSUME NEW i \in 1..Len(s)
        PROVE  /\ s[i] \in Alive /\ h[s[i]].parent = p
               /\ h[s[i]].prev = IF i = 1 THEN Null ELSE s[i - 1]
               /\ h[s[i]].next = IF i = Len(s) THEN Null ELSE s[i + 1]
    <3>1. s[i] \in Range(K[p])
      BY <1>3, <2>2
    <3>2. s[i] \in Nodes /\ h[s[i]].type # "free"
      BY <1>1, <3>1, InList
    <3>3. h[s[i]].parent = p /\ h[s[i]].prev = Nth(s, i - 1) /\ h[s[i]].next = Nth(s, i + 1)
      BY <2>1 DEF IsList
    <3>4. (i - 1 \in 1..Len(s) <=> i # 1) /\ (i + 1 \in 1..Len(s) <=> i # Len(s))
      BY <2>2
    <3> QED BY <1>1, <2>2, <3>2, <3>3, <3>4
  <2> QED BY <2>1, <2>3, <2>4
<1>4. ASSUME NEW n \in Alive
      PROVE  IF h[n].parent = Null THEN h[n].prev = Null /\ h[n].next = Null
             ELSE h[n].parent \in Alive /\ Contains(K[h[n].parent], n)
  <2>1. n \in Nodes
    BY <1>1
  <2>2. CASE h[n].parent = Null
    BY <1>1, <2>1, <2>2, TreeAssumption DEF Forest
  <2>3. CASE h[n].parent # Null
    <3>1. PICK p : p = h[n].parent
      OBVIOUS
    <3>2. p \in Nodes /\ n \in Range(K[p])
      BY <1>1, <2>1, <2>3, <3>1, TreeAssumption DEF Forest, NodeType
    <3>3. PICK i \in 1..Len(K[p]) : K[p][i] = n
      BY <1>1, <3>2, NthIs
    <3>4. h[p].type # "free"
      <4>5. PICK s : s = K[p]
        OBVIOUS
      <4>6. s \in Seq(Nodes) /\ IsList(h, p, s) /\ i \in 1..Len(s)
        BY <1>3, <3>2, <3>3, <4>5
      <4>1. h[p].firstChild = Nth(s, 1) /\ 1 \in 1..Len(s)
        BY <4>6, NthIs DEF IsList
      <4>2. h[p].firstChild # Null
        BY <4>1, <4>6, NthIs
      <4>3. h[p].type = "free" => h[p] = Freed
        BY <1>1, <3>2 DEF Forest
      <4> QED BY <4>2, <4>3, FreedIs
    <3> QED BY <1>1, <2>3, <3>1, <3>2, <3>3, <3>4 DEF Contains
  <2> QED BY <2>2, <2>3
<1>5. \A n \in Alive : h[n].parent \notin Subtree(h, n)
  BY <1>1, BelowIs
<1>6. \A n \in Nodes \ Alive : h[n] = Freed
  BY <1>1 DEF Forest
<1>7. \A n \in Alive : \A i, j \in DOMAIN h[n].attributes :
        h[n].attributes[i].name = h[n].attributes[j].name => i = j
  BY <1>1 DEF Content, UniqueNames
<1>8. TypeOK
  BY <1>1 DEF TypeOK
<1>9. ASSUME NEW p \in Alive
      PROVE  LET s == Kids(p) IN
               /\ node[p].lastChild = IF s = <<>> THEN Null ELSE Last(s)
               /\ \A i \in 1..Len(s) : /\ s[i] \in Alive /\ node[s[i]].parent = p
                                       /\ node[s[i]].prev = IF i = 1 THEN Null ELSE s[i - 1]
                                       /\ node[s[i]].next = IF i = Len(s) THEN Null ELSE s[i + 1]
  <2>1. PICK s : s = Kids(p)
    OBVIOUS
  <2>2. p \in Nodes /\ s = K[p]
    BY <1>1, <1>2, <2>1
  <2>3. /\ node[p].lastChild = IF s = <<>> THEN Null ELSE Last(s)
        /\ \A i \in 1..Len(s) : /\ s[i] \in Alive /\ node[s[i]].parent = p
                                /\ node[s[i]].prev = IF i = 1 THEN Null ELSE s[i - 1]
                                /\ node[s[i]].next = IF i = Len(s) THEN Null ELSE s[i + 1]
    BY <1>1, <1>3, <2>2, SMTT(30)
  <2> QED BY <2>1, <2>3
<1>10. ASSUME NEW n \in Alive
       PROVE  IF node[n].parent = Null THEN node[n].prev = Null /\ node[n].next = Null
              ELSE node[n].parent \in Alive /\ Contains(Kids(node[n].parent), n)
  <2>1. node[n].parent \in Alive => Kids(node[n].parent) = K[node[n].parent]
    BY <1>1, <1>2
  <2> QED BY <1>1, <1>4, <2>1
<1>11. /\ \A n \in Alive : node[n].parent \notin Subtree(node, n)
       /\ \A n \in Nodes \ Alive : node[n] = Freed
       /\ \A n \in Alive : \A i, j \in DOMAIN node[n].attributes :
            node[n].attributes[i].name = node[n].attributes[j].name => i = j
  BY <1>1, <1>5, <1>6, <1>7
<1> QED BY <1>8, <1>9, <1>10, <1>11 DEF TreeIsSound

\* After any operations a list of children reads the same from both ends, its nodes say
\* whose they are and exist, and no node is below itself: what the destructor relies on
\* when it deletes every child once.
THEOREM TreeSound == Spec => []TreeIsSound
<1>1. IInv => TreeIsSound
  BY SoundNow
<1> QED BY <1>1, Invariance, PTL

-----------------------------------------------------------------------------
(***************************************************************************)
(* The lookups agree with the lists of children                            *)
(***************************************************************************)
\* x is the first of the nodes wanted in s from place i on, or the last one up to place i.
IsFirst(s, i, wanted, x) ==
  \/ x = Null /\ \A j \in i..Len(s) : s[j] \notin wanted
  \/ \E k \in i..Len(s) : x = s[k] /\ s[k] \in wanted /\ \A j \in i..(k - 1) : s[j] \notin wanted

IsLast(s, i, wanted, x) ==
  \/ x = Null /\ \A j \in 1..i : s[j] \notin wanted
  \/ \E k \in 1..i : x = s[k] /\ s[k] \in wanted /\ \A j \in (k + 1)..i : s[j] \notin wanted

LEMMA GreatestNumber ==
  ASSUME NEW N \in Nat, NEW T \in SUBSET (1..N), T # {}
  PROVE  Max(T) \in T /\ \A y \in T : y <= Max(T)
<1> DEFINE D == {N - i : i \in T}
<1>1. D # {} /\ D \in SUBSET Nat
  <2>1. \A i \in T : N - i \in Nat
    OBVIOUS
  <2>2. D # {}
    OBVIOUS
  <2> QED BY <2>1, <2>2
<1>2. Min(D) \in D /\ \A y \in D : Min(D) <= y
  BY <1>1, LeastNatural
<1>3. PICK x \in T : Min(D) = N - x
  BY <1>2
<1>4. \A y \in T : x >= y
  <2> SUFFICES ASSUME NEW y \in T PROVE x >= y
    OBVIOUS
  <2>1. N - y \in D
    OBVIOUS
  <2>2. N - x <= N - y
    BY <1>2, <1>3, <2>1
  <2>3. x \in Int /\ y \in Int /\ N \in Int
    OBVIOUS
  <2> QED BY <2>2, <2>3
<1>5. \E z \in T : \A y \in T : z >= y
  BY <1>4
<1>6. Max(T) \in T /\ \A y \in T : Max(T) >= y
  BY <1>5 DEF Max
<1>7. PICK z \in Int : z = Max(T)
  <2> HIDE DEF D
  <2>1. PICK z : z = Max(T)
    OBVIOUS
  <2>2. z \in T
    BY <1>6, <2>1
  <2>3. z \in Int
    BY <2>2
  <2> QED BY <2>1, <2>3
<1>8. \A y \in T : y <= z
  <2> SUFFICES ASSUME NEW y \in T PROVE y <= z
    OBVIOUS
  <2>1. z >= y /\ y \in Int
    BY <1>6, <1>7
  <2> QED BY <1>7, <2>1
<1> QED BY <1>6, <1>7, <1>8

LEMMA FirstOfIs ==
  ASSUME NEW s \in Seq(Nodes), NEW i \in 1..(Len(s) + 1), NEW wanted, NEW x, IsFirst(s, i, wanted, x)
  PROVE  FirstOf(SubSeq(s, i, Len(s)), wanted) = x
<1> DEFINE r == SubSeq(s, i, Len(s))
           T == Places(r, wanted)
<1>1. /\ Len(s) \in Nat /\ i \in Nat /\ DOMAIN r = 1..(Len(s) - i + 1)
      /\ \A j \in 1..(Len(s) - i + 1) : r[j] = s[i + j - 1]
  OBVIOUS
<1> HIDE DEF r
<1>2. T = {j \in 1..(Len(s) - i + 1) : s[i + j - 1] \in wanted}
  BY <1>1 DEF Places
<1>3. FirstOf(r, wanted) = IF T = {} THEN Null ELSE r[Min(T)]
  BY DEF FirstOf
<1> HIDE DEF T
<1>4. CASE x = Null /\ \A j \in i..Len(s) : s[j] \notin wanted
  <2>1. \A j \in 1..(Len(s) - i + 1) : i + j - 1 \in i..Len(s)
    BY <1>1
  <2>2. T = {}
    BY <1>2, <1>4, <2>1
  <2> QED BY <1>3, <1>4, <2>2 DEF r
<1>5. ASSUME NEW k \in i..Len(s), x = s[k], s[k] \in wanted, \A j \in i..(k - 1) : s[j] \notin wanted
      PROVE  FirstOf(r, wanted) = x
  <2>1. k - i + 1 \in T
    BY <1>1, <1>2, <1>5
  <2>2. T \in SUBSET Nat /\ T # {}
    <3>1. \A j \in 1..(Len(s) - i + 1) : j \in Nat
      BY <1>1
    <3> QED BY <1>2, <2>1, <3>1
  <2>3. Min(T) \in T /\ \A y \in T : Min(T) <= y
    BY <2>2, LeastNatural
  <2> DEFINE m == Min(T)
  <2> HIDE DEF m
  <2>4. m \in T /\ m <= k - i + 1
    BY <2>1, <2>3 DEF m
  <2>5. m \in 1..(Len(s) - i + 1) /\ s[i + m - 1] \in wanted /\ i + m - 1 \in i..k
    BY <1>1, <1>2, <2>4
  <2>6. i + m - 1 = k
    BY <1>1, <1>5, <2>5
  <2>7. r[m] = s[k]
    BY <1>1, <2>5, <2>6
  <2> QED BY <1>3, <1>5, <2>2, <2>7 DEF m
<1> QED BY <1>4, <1>5 DEF IsFirst, r

LEMMA LastOfIs ==
  ASSUME NEW s \in Seq(Nodes), NEW i \in 0..Len(s), NEW wanted, NEW x, IsLast(s, i, wanted, x)
  PROVE  LastOf(SubSeq(s, 1, i), wanted) = x
<1> DEFINE r == SubSeq(s, 1, i)
           T == Places(r, wanted)
<1>1. Len(s) \in Nat /\ i \in Nat /\ DOMAIN r = 1..i /\ \A j \in 1..i : r[j] = s[j]
  OBVIOUS
<1> HIDE DEF r
<1>2. T = {j \in 1..i : s[j] \in wanted}
  BY <1>1 DEF Places
<1>3. LastOf(r, wanted) = IF T = {} THEN Null ELSE r[Max(T)]
  BY DEF LastOf
<1> HIDE DEF T
<1>4. CASE x = Null /\ \A j \in 1..i : s[j] \notin wanted
  <2>2. T = {}
    BY <1>2, <1>4
  <2> QED BY <1>3, <1>4, <2>2 DEF r
<1>5. ASSUME NEW k \in 1..i, x = s[k], s[k] \in wanted, \A j \in (k + 1)..i : s[j] \notin wanted
      PROVE  LastOf(r, wanted) = x
  <2>1. k \in T
    BY <1>1, <1>2, <1>5
  <2>2. T \in SUBSET (1..i) /\ T # {}
    BY <1>2, <2>1
  <2>3. Max(T) \in T /\ \A y \in T : y <= Max(T)
    BY <1>1, <2>2, GreatestNumber
  <2> DEFINE m == Max(T)
  <2> HIDE DEF m
  <2>4. m \in T /\ k <= m
    BY <2>1, <2>3 DEF m
  <2>5. m \in 1..i /\ s[m] \in wanted
    BY <1>2, <2>4
  <2>6. m = k
    BY <1>1, <1>5, <2>4, <2>5
  <2>7. r[m] = s[k]
    BY <1>1, <2>5, <2>6
  <2> QED BY <1>3, <1>5, <2>2, <2>7 DEF m
<1> QED BY <1>4, <1>5 DEF IsLast, r

\* From place i of a list, forward or backward, the lookups find the first and the last.
LEMMA AlongList ==
  ASSUME NEW s \in Seq(Nodes), NEW link \in [Nodes -> Nodes \cup {Null}],
         \A i \in 1..Len(s) : link[s[i]] = Nth(s, i + 1), NEW wanted
  PROVE  \A i \in 1..(Len(s) + 1) : IsFirst(s, i, wanted, Along(Nth(s, i), link, wanted))
<1> DEFINE A(m) == Along(m, link, wanted)
           N == Len(s)
           B == {j \in 0..N : IsFirst(s, N + 1 - j, wanted, A(Nth(s, N + 1 - j)))}
<1>1. /\ N \in Nat /\ Null \notin Nodes
      /\ \A i : Nth(s, i) = IF i \in 1..N THEN s[i] ELSE Null
      /\ \A i \in 1..N : s[i] \in Nodes
  BY NthIs, TreeAssumption
<1>2. \A m \in Nodes \cup {Null} : A(m) = IF m = Null \/ m \in wanted THEN m ELSE A(link[m])
  BY AlongStep
<1> HIDE DEF A, N
<1>3. 0 \in B
  <2>1. Nth(s, N + 1) = Null /\ A(Null) = Null
    BY <1>1, <1>2
  <2>2. \A j \in (N + 1)..N : FALSE
    BY <1>1
  <2>3. N + 1 - 0 = N + 1 /\ 0 \in 0..N
    BY <1>1
  <2>4. IsFirst(s, N + 1, wanted, A(Nth(s, N + 1)))
    BY <2>1, <2>2 DEF IsFirst, N
  <2> QED BY <2>3, <2>4
<1>4. ASSUME NEW j \in 0..(N - 1), j \in B PROVE j + 1 \in B
  <2>1. PICK i : i = N - j
    OBVIOUS
  <2>2. i \in 1..N /\ N + 1 - (j + 1) = i /\ N + 1 - j = i + 1 /\ j + 1 \in 0..N
    BY <1>1, <2>1
  <2>3. Nth(s, i) = s[i] /\ s[i] \in Nodes /\ link[s[i]] = Nth(s, i + 1)
    BY <1>1, <2>2 DEF N
  <2>4. IsFirst(s, i + 1, wanted, A(Nth(s, i + 1)))
    BY <1>4, <2>2
  <2>5. CASE s[i] \in wanted
    <3>1. A(Nth(s, i)) = s[i]
      BY <1>2, <2>3, <2>5
    <3>2. i \in i..N /\ \A k \in i..(i - 1) : FALSE
      BY <1>1, <2>2
    <3>3. IsFirst(s, i, wanted, A(Nth(s, i)))
      BY <2>5, <3>1, <3>2 DEF IsFirst, N
    <3> QED BY <2>2, <3>3
  <2>6. CASE s[i] \notin wanted
    <3>1. A(Nth(s, i)) = A(Nth(s, i + 1))
      BY <1>1, <1>2, <2>3, <2>6
    <3>2. PICK x : x = A(Nth(s, i + 1))
      OBVIOUS
    <3>3. IsFirst(s, i, wanted, x)
      <4>1. CASE x = Null /\ \A k \in (i + 1)..N : s[k] \notin wanted
        <5>1. \A k \in i..N : k = i \/ k \in (i + 1)..N
          BY <1>1, <2>2
        <5> QED BY <2>6, <4>1, <5>1 DEF IsFirst, N
      <4>2. ASSUME NEW k \in (i + 1)..N, x = s[k], s[k] \in wanted,
                   \A l \in (i + 1)..(k - 1) : s[l] \notin wanted
            PROVE  IsFirst(s, i, wanted, x)
        <5>1. k \in i..N /\ \A l \in i..(k - 1) : l = i \/ l \in (i + 1)..(k - 1)
          BY <1>1, <2>2
        <5> QED BY <2>6, <4>2, <5>1 DEF IsFirst, N
      <4> QED BY <2>4, <3>2, <4>1, <4>2 DEF IsFirst, N
    <3> QED BY <2>2, <3>1, <3>2, <3>3
  <2> QED BY <2>5, <2>6
<1>5. B = 0..N
  <2>1. B \in SUBSET (0..N)
    OBVIOUS
  <2> HIDE DEF B
  <2> QED BY <1>1, <1>3, <1>4, <2>1, Stepwise
<1>6. ASSUME NEW i \in 1..(N + 1) PROVE IsFirst(s, i, wanted, A(Nth(s, i)))
  <2>1. N + 1 - i \in 0..N /\ N + 1 - (N + 1 - i) = i
    BY <1>1
  <2>2. N + 1 - i \in B
    BY <1>5, <2>1
  <2> QED BY <2>1, <2>2
<1> QED BY <1>6 DEF A, N

LEMMA AlongListBack ==
  ASSUME NEW s \in Seq(Nodes), NEW link \in [Nodes -> Nodes \cup {Null}],
         \A i \in 1..Len(s) : link[s[i]] = Nth(s, i - 1), NEW wanted
  PROVE  \A i \in 0..Len(s) : IsLast(s, i, wanted, Along(Nth(s, i), link, wanted))
<1> DEFINE A(m) == Along(m, link, wanted)
           N == Len(s)
           B == {i \in 0..N : IsLast(s, i, wanted, A(Nth(s, i)))}
<1>1. /\ N \in Nat /\ Null \notin Nodes
      /\ \A i : Nth(s, i) = IF i \in 1..N THEN s[i] ELSE Null
      /\ \A i \in 1..N : s[i] \in Nodes
  BY NthIs, TreeAssumption
<1>2. \A m \in Nodes \cup {Null} : A(m) = IF m = Null \/ m \in wanted THEN m ELSE A(link[m])
  BY AlongStep
<1> HIDE DEF A, N
<1>3. 0 \in B
  <2>1. Nth(s, 0) = Null /\ A(Null) = Null
    BY <1>1, <1>2
  <2>2. \A j \in 1..0 : FALSE
    OBVIOUS
  <2> QED BY <1>1, <2>1, <2>2 DEF IsLast
<1>4. ASSUME NEW j \in 0..(N - 1), j \in B PROVE j + 1 \in B
  <2>1. PICK i : i = j + 1
    OBVIOUS
  <2>2. i \in 1..N /\ i - 1 = j /\ j \in 0..N /\ i \in 0..N
    BY <1>1, <2>1
  <2>3. Nth(s, i) = s[i] /\ s[i] \in Nodes /\ link[s[i]] = Nth(s, j)
    BY <1>1, <2>2 DEF N
  <2>4. IsLast(s, j, wanted, A(Nth(s, j)))
    BY <1>4, <2>2
  <2>5. CASE s[i] \in wanted
    <3>1. A(Nth(s, i)) = s[i]
      BY <1>2, <2>3, <2>5
    <3>2. i \in 1..i /\ \A k \in (i + 1)..i : FALSE
      BY <1>1, <2>2
    <3>3. IsLast(s, i, wanted, A(Nth(s, i)))
      BY <2>5, <3>1, <3>2 DEF IsLast
    <3> QED BY <2>1, <2>2, <3>3
  <2>6. CASE s[i] \notin wanted
    <3>1. A(Nth(s, i)) = A(Nth(s, j))
      BY <1>1, <1>2, <2>3, <2>6
    <3>2. PICK x : x = A(Nth(s, j))
      OBVIOUS
    <3>3. IsLast(s, i, wanted, x)
      <4>1. CASE x = Null /\ \A k \in 1..j : s[k] \notin wanted
        <5>1. \A k \in 1..i : k = i \/ k \in 1..j
          BY <1>1, <2>2
        <5> QED BY <2>6, <4>1, <5>1 DEF IsLast
      <4>2. ASSUME NEW k \in 1..j, x = s[k], s[k] \in wanted,
                   \A l \in (k + 1)..j : s[l] \notin wanted
            PROVE  IsLast(s, i, wanted, x)
        <5>1. k \in 1..i /\ \A l \in (k + 1)..i : l = i \/ l \in (k + 1)..j
          BY <1>1, <2>2
        <5> QED BY <2>6, <4>2, <5>1 DEF IsLast
      <4> QED BY <2>4, <3>2, <4>1, <4>2 DEF IsLast
    <3> QED BY <2>1, <2>2, <3>1, <3>2, <3>3
  <2> QED BY <2>5, <2>6
<1>5. B = 0..N
  <2>1. B \in SUBSET (0..N)
    OBVIOUS
  <2> HIDE DEF B
  <2> QED BY <1>1, <1>3, <1>4, <2>1, Stepwise
<1>6. ASSUME NEW i \in 0..N PROVE IsLast(s, i, wanted, A(Nth(s, i)))
  BY <1>5
<1> QED BY <1>6 DEF A, N

\* How many places there are up to k.
Rank(P, k) == Cardinality({j \in P : j <= k})

LEMMA Ranks ==
  ASSUME NEW N \in Nat, NEW P \in SUBSET (1..N)
  PROVE  /\ \A k \in P : Rank(P, k) \in Nat \ {0}
         /\ \A k, m \in P : k < m => Rank(P, k) < Rank(P, m)
         /\ \A k, m \in P : k < m /\ (\A j \in P : j <= k \/ m <= j) => Rank(P, m) = Rank(P, k) + 1
         /\ \A k \in P : (\A j \in P : k <= j) => Rank(P, k) = 1
<1> DEFINE U(k) == {j \in P : j <= k}
<1>1. \A k : U(k) \subseteq 1..N /\ IsFiniteSet(U(k)) /\ Cardinality(U(k)) \in Nat
  <2>1. IsFiniteSet(1..N)
    BY FirstNumbers
  <2>2. \A k : U(k) \subseteq 1..N
    OBVIOUS
  <2> HIDE DEF U
  <2> QED BY <2>1, <2>2, FS_Subset, FS_CardinalityType
<1>2. \A k \in P : k \in U(k) /\ k \in 1..N /\ k \in Int
  OBVIOUS
<1>7. \A k, j : j \in U(k) <=> j \in P /\ j <= k
  OBVIOUS
<1>3. ASSUME NEW k \in P, NEW m \in P, k < m
      PROVE  /\ Cardinality(U(k)) < Cardinality(U(m))
             /\ (\A j \in P : j <= k \/ m <= j) => Cardinality(U(m)) = Cardinality(U(k)) + 1
  <2> HIDE DEF U
  <2>1. U(k) \subseteq U(m) /\ m \in U(m) /\ m \notin U(k)
    <3>1. \A j \in P : j <= k => j <= m
      BY <1>2, <1>3
    <3>2. ~ m <= k
      BY <1>2, <1>3
    <3> QED BY <1>2, <1>7, <3>1, <3>2
  <2>2. ASSUME \A j \in P : j <= k \/ m <= j PROVE U(m) = U(k) \cup {m}
    <3>1. \A j \in P : j <= m <=> (j <= k \/ j = m)
      BY <1>2, <1>3, <2>2
    <3> QED BY <1>7, <3>1
  <2>3. U(k) # U(m)
    BY <2>1
  <2>4. Cardinality(U(k)) < Cardinality(U(m))
    BY <1>1, <2>1, <2>3, FS_Subset
  <2>5. Cardinality(U(k) \cup {m}) = Cardinality(U(k)) + 1
    BY <1>1, <2>1, FS_AddElement
  <2> QED BY <2>2, <2>4, <2>5
<1>4. ASSUME NEW k \in P, \A j \in P : k <= j PROVE Cardinality(U(k)) = 1
  <2>1. U(k) = {k}
    <3>1. \A j \in P : j <= k <=> j = k
      BY <1>2, <1>4
    <3> HIDE DEF U
    <3> QED BY <1>2, <1>7, <3>1
  <2> QED BY <2>1, FS_Singleton
<1>5. \A k \in P : Cardinality(U(k)) # 0
  <2> HIDE DEF U
  <2> QED BY <1>1, <1>2, FS_EmptySet
<1>6. \A k : Rank(P, k) = Cardinality(U(k))
  BY DEF Rank
<1> HIDE DEF U
<1> QED BY <1>1, <1>3, <1>4, <1>5, <1>6

\* x is number i of the nodes wanted in s.
IsNumber(s, wanted, i, x) ==
  \/ x = Null /\ \A k \in Places(s, wanted) : Rank(Places(s, wanted), k) # i
  \/ \E k \in Places(s, wanted) : Rank(Places(s, wanted), k) = i /\ x = s[k]

LEMMA PlacesAre ==
  ASSUME NEW s \in Seq(Nodes), NEW wanted
  PROVE  /\ Places(s, wanted) \in SUBSET (1..Len(s)) /\ Len(s) \in Nat
         /\ \A k \in 1..Len(s) : k \in Places(s, wanted) <=> s[k] \in wanted
BY DEF Places

LEMMA NthOfIs ==
  ASSUME NEW s \in Seq(Nodes), NEW wanted, NEW i, NEW x
  PROVE  /\ IsNumber(s, wanted, i, x) <=> x = NthOf(s, wanted, i)
<1>1. PICK P : P = Places(s, wanted)
  OBVIOUS
<1>2. P \in SUBSET (1..Len(s)) /\ Len(s) \in Nat
  BY <1>1, PlacesAre
<1>3. \A k, m \in P : Rank(P, k) = Rank(P, m) => k = m
  <2>1. \A k \in P : Rank(P, k) \in Nat \ {0}
    BY <1>2, Ranks
  <2>2. \A k, m \in P : k < m => Rank(P, k) < Rank(P, m)
    BY <1>2, Ranks
  <2> QED BY <1>2, <2>1, <2>2
<1>4. PICK at : at = {k \in P : Rank(P, k) = i}
  OBVIOUS
<1>5. NthOf(s, wanted, i) = IF at = {} THEN Null ELSE s[CHOOSE k \in at : TRUE]
  BY <1>1, <1>4 DEF NthOf, Rank
<1>6. IsNumber(s, wanted, i, x) <=> \/ x = Null /\ at = {}
                                    \/ \E k \in at : x = s[k]
  BY <1>1, <1>4 DEF IsNumber
<1>7. \A k \in at : k = CHOOSE m \in at : TRUE
  BY <1>3, <1>4
<1> QED BY <1>5, <1>6, <1>7

LEMMA FirstNumber ==
  ASSUME NEW s \in Seq(Nodes), NEW wanted, NEW x, IsFirst(s, 1, wanted, x)
  PROVE  IsNumber(s, wanted, 1, x)
<1>1. PICK P : P = Places(s, wanted)
  OBVIOUS
<1>2. /\ P \in SUBSET (1..Len(s)) /\ Len(s) \in Nat
      /\ \A k \in 1..Len(s) : k \in P <=> s[k] \in wanted
  BY <1>1, PlacesAre
<1>3. CASE x = Null /\ \A j \in 1..Len(s) : s[j] \notin wanted
  BY <1>1, <1>2, <1>3 DEF IsNumber
<1>4. ASSUME NEW k \in 1..Len(s), x = s[k], s[k] \in wanted, \A j \in 1..(k - 1) : s[j] \notin wanted
      PROVE  IsNumber(s, wanted, 1, x)
  <2>1. k \in P /\ \A j \in P : k <= j
    BY <1>2, <1>4
  <2>2. Rank(P, k) = 1
    BY <1>2, <2>1, Ranks
  <2> QED BY <1>1, <1>4, <2>1, <2>2 DEF IsNumber
<1> QED BY <1>3, <1>4 DEF IsFirst

LEMMA NextNumber ==
  ASSUME NEW s \in Seq(Nodes), NEW wanted, NEW x, NEW k \in Places(s, wanted),
         IsFirst(s, k + 1, wanted, x)
  PROVE  IsNumber(s, wanted, Rank(Places(s, wanted), k) + 1, x)
<1>1. PICK P : P = Places(s, wanted)
  OBVIOUS
<1>2. /\ P \in SUBSET (1..Len(s)) /\ Len(s) \in Nat /\ k \in P /\ k \in 1..Len(s)
      /\ \A m \in 1..Len(s) : m \in P <=> s[m] \in wanted
  BY <1>1, PlacesAre
<1>3. /\ \A m \in P : Rank(P, m) \in Nat \ {0}
      /\ \A m \in P : m < k => Rank(P, m) < Rank(P, k)
  BY <1>2, Ranks
<1>4. CASE x = Null /\ \A j \in (k + 1)..Len(s) : s[j] \notin wanted
  <2>1. ASSUME NEW m \in P PROVE Rank(P, m) # Rank(P, k) + 1
    <3>1. m = k \/ m < k
      BY <1>2, <1>4
    <3> QED BY <1>2, <1>3, <3>1
  <2> QED BY <1>1, <1>4, <2>1 DEF IsNumber
<1>5. ASSUME NEW m \in (k + 1)..Len(s), x = s[m], s[m] \in wanted,
             \A j \in (k + 1)..(m - 1) : s[j] \notin wanted
      PROVE  IsNumber(s, wanted, Rank(P, k) + 1, x)
  <2>1. m \in P /\ k < m /\ \A j \in P : j <= k \/ m <= j
    BY <1>2, <1>5
  <2>2. Rank(P, m) = Rank(P, k) + 1
    BY <1>2, <2>1, Ranks
  <2> QED BY <1>1, <1>5, <2>1, <2>2 DEF IsNumber
<1> QED BY <1>1, <1>4, <1>5 DEF IsFirst

LEMMA NoNumberAfter ==
  ASSUME NEW s \in Seq(Nodes), NEW wanted, NEW i \in Nat \ {0},
         \A k \in Places(s, wanted) : Rank(Places(s, wanted), k) # i
  PROVE  \A k \in Places(s, wanted) : Rank(Places(s, wanted), k) # i + 1
<1>1. PICK P : P = Places(s, wanted)
  OBVIOUS
<1>2. P \in SUBSET (1..Len(s)) /\ Len(s) \in Nat
  BY <1>1, PlacesAre
<1>3. ASSUME NEW k \in P, Rank(P, k) = i + 1 PROVE FALSE
  <2> DEFINE T == {j \in P : j < k}
  <2>1. T # {}
    <3>1. ASSUME T = {} PROVE \A j \in P : k <= j
      BY <1>2, <3>1
    <3>2. (\A j \in P : k <= j) => Rank(P, k) = 1
      BY <1>2, Ranks
    <3> QED BY <1>3, <3>1, <3>2
  <2>2. T \in SUBSET (1..Len(s))
    BY <1>2
  <2> HIDE DEF T
  <2>3. Max(T) \in T /\ \A y \in T : y <= Max(T)
    BY <1>2, <2>1, <2>2, GreatestNumber
  <2>4. PICK m : m = Max(T)
    OBVIOUS
  <2>5. m \in P /\ m < k /\ \A j \in P : j <= m \/ k <= j
    BY <1>2, <2>3, <2>4 DEF T
  <2>6. Rank(P, k) = Rank(P, m) + 1 /\ Rank(P, m) \in Nat
    BY <1>2, <2>5, Ranks
  <2>7. Rank(P, m) = i
    BY <1>3, <2>6
  <2> QED BY <1>1, <2>5, <2>7
<1> QED BY <1>1, <1>3

\* The children of p are s, and their links lead from place to place.
Listed(p, s) ==
  /\ s \in Seq(Nodes)
  /\ node[p].firstChild = Nth(s, 1) /\ node[p].lastChild = Nth(s, Len(s))
  /\ Following \in [Nodes -> Nodes \cup {Null}] /\ Prev \in [Nodes -> Nodes \cup {Null}]
  /\ \A i \in 1..Len(s) : /\ Following[s[i]] = Nth(s, i + 1) /\ node[s[i]].next = Nth(s, i + 1)
                          /\ Prev[s[i]] = Nth(s, i - 1) /\ node[s[i]].prev = Nth(s, i - 1)

LEMMA ListedNow ==
  ASSUME IInv, NEW p \in Nodes, NEW s, s = Kids(p)
  PROVE  Listed(p, s)
<1>1. PICK h, K : /\ h = node /\ K = Listing(node) /\ Forest(h, K, Null)
                  /\ h \in [Nodes -> NodeType] /\ K \in [Nodes -> Seq(Nodes)]
  BY Now
<1>2. s = K[p]
  BY <1>1 DEF Kids, Listing
<1>3. s \in Seq(Nodes) /\ IsList(h, p, s)
  BY <1>1, <1>2 DEF Forest
<1>4. \A i \in 1..Len(s) : s[i] \in Nodes
  BY <1>3
<1>5. \A n \in Nodes : h[n].next \in Nodes \cup {Null} /\ h[n].prev \in Nodes \cup {Null}
  BY <1>1 DEF NodeType
<1> QED BY <1>1, <1>3, <1>4, <1>5 DEF Listed, IsList, Following, Prev

LEMMA FromPlace ==
  ASSUME NEW p, NEW s, Listed(p, s), NEW wanted
  PROVE  /\ \A i \in 1..(Len(s) + 1) :
              Along(Nth(s, i), Following, wanted) = FirstOf(SubSeq(s, i, Len(s)), wanted)
         /\ \A i \in 0..Len(s) : Along(Nth(s, i), Prev, wanted) = LastOf(SubSeq(s, 1, i), wanted)
         /\ Along(node[p].firstChild, Following, wanted) = FirstOf(s, wanted)
         /\ Along(node[p].lastChild, Prev, wanted) = LastOf(s, wanted)
         /\ IsFirst(s, 1, wanted, Along(node[p].firstChild, Following, wanted))
         /\ \A i \in 1..Len(s) : IsFirst(s, i + 1, wanted, Along(node[s[i]].next, Following, wanted))
<1>1. PICK fw, bw : fw = Following /\ bw = Prev
  OBVIOUS
<1>2. /\ s \in Seq(Nodes) /\ Len(s) \in Nat /\ fw \in [Nodes -> Nodes \cup {Null}]
      /\ bw \in [Nodes -> Nodes \cup {Null}]
      /\ \A i \in 1..Len(s) : fw[s[i]] = Nth(s, i + 1) /\ bw[s[i]] = Nth(s, i - 1)
  BY <1>1 DEF Listed
<1>3. \A i \in 1..(Len(s) + 1) : IsFirst(s, i, wanted, Along(Nth(s, i), fw, wanted))
  BY <1>2, AlongList
<1>4. \A i \in 0..Len(s) : IsLast(s, i, wanted, Along(Nth(s, i), bw, wanted))
  BY <1>2, AlongListBack
<1>5. ASSUME NEW i \in 1..(Len(s) + 1)
      PROVE  Along(Nth(s, i), fw, wanted) = FirstOf(SubSeq(s, i, Len(s)), wanted)
  <2>1. PICK x : x = Along(Nth(s, i), fw, wanted)
    OBVIOUS
  <2>2. IsFirst(s, i, wanted, x)
    BY <1>3, <2>1
  <2> QED BY <1>2, <2>1, <2>2, FirstOfIs
<1>6. ASSUME NEW i \in 0..Len(s)
      PROVE  Along(Nth(s, i), bw, wanted) = LastOf(SubSeq(s, 1, i), wanted)
  <2>1. PICK x : x = Along(Nth(s, i), bw, wanted)
    OBVIOUS
  <2>2. IsLast(s, i, wanted, x)
    BY <1>4, <2>1
  <2> QED BY <1>2, <2>1, <2>2, LastOfIs
<1>7. /\ SubSeq(s, 1, Len(s)) = s /\ 1 \in 1..(Len(s) + 1) /\ Len(s) \in 0..Len(s)
      /\ \A i \in 1..Len(s) : i + 1 \in 1..(Len(s) + 1)
  BY <1>2
<1>8. /\ node[p].firstChild = Nth(s, 1) /\ node[p].lastChild = Nth(s, Len(s))
      /\ \A i \in 1..Len(s) : node[s[i]].next = Nth(s, i + 1)
  BY DEF Listed
<1>9. /\ Along(Nth(s, 1), fw, wanted) = FirstOf(s, wanted)
      /\ Along(Nth(s, Len(s)), bw, wanted) = LastOf(s, wanted)
  BY <1>5, <1>6, <1>7
<1> QED BY <1>1, <1>3, <1>5, <1>6, <1>7, <1>8, <1>9

\* Handle.Child(count) is child number count.
LEMMA HandleChildIs ==
  ASSUME NEW p, NEW s, Listed(p, s), NEW count \in 0..Len(s)
  PROVE  HandleChild(p, count) = Nth(s, count + 1)
<1> DEFINE step == CHOOSE f : f = [i \in 0..count |->
                     IF i = 0 THEN node[p].firstChild
                     ELSE IF f[i - 1] = Null THEN Null ELSE node[f[i - 1]].next]
           w == [i \in 0..count |-> Nth(s, i + 1)]
           B == {i \in 0..count : step[i] = w[i]}
<1>1. /\ count \in Nat /\ Len(s) \in Nat /\ s \in Seq(Nodes)
      /\ node[p].firstChild = Nth(s, 1) /\ \A i \in 1..Len(s) : node[s[i]].next = Nth(s, i + 1)
      /\ \A i : Nth(s, i) = IF i \in 1..Len(s) THEN s[i] ELSE Null
      /\ \A i \in 1..Len(s) : s[i] # Null
  BY NthIs DEF Listed
<1>2. ASSUME NEW i \in 0..count
      PROVE  w[i] = IF i = 0 THEN node[p].firstChild
                    ELSE IF w[i - 1] = Null THEN Null ELSE node[w[i - 1]].next
  <2>1. CASE i = 0
    BY <1>1, <2>1
  <2>2. CASE i # 0
    <3>1. i - 1 \in 0..count /\ i \in 1..Len(s) /\ (i - 1) + 1 = i
      BY <1>1, <2>2
    <3>2. w[i - 1] = Nth(s, i) /\ w[i] = Nth(s, i + 1)
      BY <3>1
    <3>3. Nth(s, i) = s[i] /\ s[i] # Null /\ node[s[i]].next = Nth(s, i + 1)
      BY <1>1, <3>1
    <3> HIDE DEF w
    <3> QED BY <2>2, <3>2, <3>3
  <2> QED BY <2>1, <2>2
<1>3. w = [i \in 0..count |-> IF i = 0 THEN node[p].firstChild
                              ELSE IF w[i - 1] = Null THEN Null ELSE node[w[i - 1]].next]
  <2>1. w = [i \in 0..count |-> w[i]]
    OBVIOUS
  <2> HIDE DEF w
  <2> QED BY <1>2, <2>1
<1>4. step = [i \in 0..count |-> IF i = 0 THEN node[p].firstChild
                                 ELSE IF step[i - 1] = Null THEN Null ELSE node[step[i - 1]].next]
  <2> HIDE DEF w
  <2> QED BY <1>3
<1>5. HandleChild(p, count) = step[count]
  BY DEF HandleChild
<1>6. w[count] = Nth(s, count + 1)
  BY <1>1
<1> HIDE DEF step, w
<1>7. \A i \in 0..count : step[i] = IF i = 0 THEN node[p].firstChild
                                    ELSE IF step[i - 1] = Null THEN Null ELSE node[step[i - 1]].next
  BY <1>4
<1>8. 0 \in B
  BY <1>1, <1>2, <1>7
<1>9. ASSUME NEW i \in 0..(count - 1), i \in B PROVE i + 1 \in B
  <2>1. i + 1 \in 0..count /\ i + 1 # 0 /\ (i + 1) - 1 = i
    BY <1>1
  <2> QED BY <1>2, <1>7, <1>9, <2>1
<1>10. B = 0..count
  <2>1. B \in SUBSET (0..count)
    OBVIOUS
  <2> HIDE DEF B
  <2> QED BY <1>1, <1>8, <1>9, <2>1, Stepwise
<1>11. step[count] = w[count]
  BY <1>1, <1>10
<1> QED BY <1>5, <1>6, <1>11

\* The element after number i of the elements is number i + 1; there is none after none.
LEMMA NextElementIs ==
  ASSUME NEW p, NEW s, Listed(p, s), NEW E, E = Elements
  PROVE  /\ FirstChildElement(p) = NthOf(s, E, 1)
         /\ \A i \in Nat \ {0} :
              NthOf(s, E, i + 1) = IF NthOf(s, E, i) = Null THEN Null
                                   ELSE NextSiblingElement(NthOf(s, E, i))
<1>1. /\ s \in Seq(Nodes) /\ Len(s) \in Nat /\ \A i \in 1..Len(s) : s[i] # Null
  BY NthIs DEF Listed
<1>2. IsFirst(s, 1, E, FirstChildElement(p))
  BY FromPlace DEF FirstChildElement
<1>3. \A k \in 1..Len(s) : IsFirst(s, k + 1, E, NextSiblingElement(s[k]))
  BY FromPlace DEF NextSiblingElement
<1>4. FirstChildElement(p) = NthOf(s, E, 1)
  <2>1. PICK x : x = FirstChildElement(p)
    OBVIOUS
  <2>2. IsNumber(s, E, 1, x)
    BY <1>1, <1>2, <2>1, FirstNumber
  <2> QED BY <1>1, <2>1, <2>2, NthOfIs
<1>5. ASSUME NEW i \in Nat \ {0}
      PROVE  NthOf(s, E, i + 1) = IF NthOf(s, E, i) = Null THEN Null
                                  ELSE NextSiblingElement(NthOf(s, E, i))
  <2>1. PICK P, y : P = Places(s, E) /\ y = NthOf(s, E, i)
    OBVIOUS
  <2>2. IsNumber(s, E, i, y)
    BY <1>1, <2>1, NthOfIs
  <2>3. P \in SUBSET (1..Len(s))
    BY <1>1, <2>1, PlacesAre
  <2>4. CASE y = Null
    <3>1. \A k \in P : Rank(P, k) # i
      BY <1>1, <2>1, <2>2, <2>3, <2>4, NthOfIs DEF IsNumber, NthOf, Rank
    <3>2. \A k \in P : Rank(P, k) # i + 1
      BY <1>1, <2>1, <3>1, NoNumberAfter
    <3>3. IsNumber(s, E, i + 1, Null)
      BY <2>1, <3>2 DEF IsNumber
    <3>4. Null = NthOf(s, E, i + 1)
      BY <1>1, <3>3, NthOfIs
    <3> QED BY <2>1, <2>4, <3>4
  <2>5. CASE y # Null
    <3>1. PICK k \in P : Rank(P, k) = i /\ y = s[k]
      BY <2>1, <2>2, <2>5 DEF IsNumber
    <3>2. PICK x : x = NextSiblingElement(y)
      OBVIOUS
    <3>3. IsFirst(s, k + 1, E, x)
      BY <1>3, <2>3, <3>1, <3>2
    <3>4. IsNumber(s, E, i + 1, x)
      BY <1>1, <2>1, <3>1, <3>3, NextNumber
    <3>5. x = NthOf(s, E, i + 1)
      BY <1>1, <3>4, NthOfIs
    <3> QED BY <2>1, <2>5, <3>2, <3>5
  <2> QED BY <2>4, <2>5
<1> QED BY <1>4, <1>5

\* Handle.ChildElement(count) is element number count of the children.
LEMMA HandleChildElementIs ==
  ASSUME NEW p, NEW s, Listed(p, s), NEW count \in Nat, NEW E, E = Elements
  PROVE  HandleChildElement(p, count) = NthOf(s, E, count + 1)
<1> DEFINE step == CHOOSE f : f = [i \in 0..count |->
                     IF i = 0 THEN FirstChildElement(p)
                     ELSE IF f[i - 1] = Null THEN Null ELSE NextSiblingElement(f[i - 1])]
           w == [i \in 0..count |-> NthOf(s, E, i + 1)]
           B == {i \in 0..count : step[i] = w[i]}
<1>2. ASSUME NEW i \in 0..count
      PROVE  w[i] = IF i = 0 THEN FirstChildElement(p)
                    ELSE IF w[i - 1] = Null THEN Null ELSE NextSiblingElement(w[i - 1])
  <2>1. CASE i = 0
    BY <2>1, NextElementIs
  <2>2. CASE i # 0
    <3>1. i - 1 \in 0..count /\ i \in Nat \ {0} /\ (i - 1) + 1 = i
      BY <2>2
    <3>2. w[i - 1] = NthOf(s, E, i) /\ w[i] = NthOf(s, E, i + 1)
      BY <3>1
    <3>3. NthOf(s, E, i + 1) = IF NthOf(s, E, i) = Null THEN Null ELSE NextSiblingElement(NthOf(s, E, i))
      BY <3>1, NextElementIs
    <3> HIDE DEF w
    <3> QED BY <2>2, <3>2, <3>3
  <2> QED BY <2>1, <2>2
<1>3. w = [i \in 0..count |-> IF i = 0 THEN FirstChildElement(p)
                              ELSE IF w[i - 1] = Null THEN Null ELSE NextSiblingElement(w[i - 1])]
  <2>1. w = [i \in 0..count |-> w[i]]
    OBVIOUS
  <2> HIDE DEF w
  <2> QED BY <1>2, <2>1
<1>4. step = [i \in 0..count |-> IF i = 0 THEN FirstChildElement(p)
                                 ELSE IF step[i - 1] = Null THEN Null ELSE NextSiblingElement(step[i - 1])]
  <2> HIDE DEF w
  <2> QED BY <1>3
<1>5. HandleChildElement(p, count) = step[count]
  BY DEF HandleChildElement
<1>6. w[count] = NthOf(s, E, count + 1)
  OBVIOUS
<1> HIDE DEF step, w
<1>7. \A i \in 0..count : step[i] = IF i = 0 THEN FirstChildElement(p)
                                    ELSE IF step[i - 1] = Null THEN Null ELSE NextSiblingElement(step[i - 1])
  BY <1>4
<1>8. 0 \in B
  BY <1>2, <1>7
<1>9. ASSUME NEW i \in 0..(count - 1), i \in B PROVE i + 1 \in B
  <2>1. i + 1 \in 0..count /\ i + 1 # 0 /\ (i + 1) - 1 = i
    OBVIOUS
  <2> QED BY <1>2, <1>7, <1>9, <2>1
<1>10. B = 0..count
  <2>1. B \in SUBSET (0..count)
    OBVIOUS
  <2> HIDE DEF B
  <2> QED BY <1>8, <1>9, <2>1, Stepwise
<1>11. step[count] = w[count]
  BY <1>10
<1> QED BY <1>5, <1>6, <1>11

LEMMA LookupsNow ==
  ASSUME IInv
  PROVE  LookupsAgree
<1> SUFFICES ASSUME NEW p \in Nodes, NEW s, s = Kids(p)
             PROVE  /\ \A v \in Values :
                         /\ FirstChild(p, v) = FirstOf(s, Valued(v))
                         /\ LastChild(p, v) = LastOf(s, Valued(v))
                         /\ FirstChildElementOf(p, v) = FirstOf(s, Valued(v) \cap Elements)
                         /\ \A i \in DOMAIN s :
                              /\ NextSibling(s[i], v) = FirstOf(SubSeq(s, i + 1, Len(s)), Valued(v))
                              /\ PreviousSibling(s[i], v) = LastOf(SubSeq(s, 1, i - 1), Valued(v))
                              /\ NextSiblingElementOf(s[i], v) =
                                   FirstOf(SubSeq(s, i + 1, Len(s)), Valued(v) \cap Elements)
                    /\ \A i \in 0..Len(s) :
                         /\ IterateChildren(p, IF i = 0 THEN Null ELSE s[i]) = Nth(s, i + 1)
                         /\ HandleChild(p, i) = Nth(s, i + 1)
                         /\ HandleChildElement(p, i) = NthOf(s, Elements, i + 1)
                    /\ \A n \in Documents : \A m \in Subtree(node, n) : GetDocument(m) = n
                    /\ GetText(p) = IF s # <<>> /\ node[s[1]].type = "text" THEN node[s[1]].value ELSE Null
  <2>1. HasChildren \subseteq Nodes
    BY DEF HasChildren, Alive
  <2> QED BY <2>1 DEF LookupsAgree
<1>1. Listed(p, s)
  BY ListedNow
<1>2. /\ s \in Seq(Nodes) /\ Len(s) \in Nat /\ DOMAIN s = 1..Len(s)
      /\ \A i : Nth(s, i) = IF i \in 1..Len(s) THEN s[i] ELSE Null
      /\ \A i \in 1..Len(s) : s[i] # Null
      /\ node[p].firstChild = Nth(s, 1)
      /\ \A i \in 1..Len(s) : node[s[i]].next = Nth(s, i + 1) /\ node[s[i]].prev = Nth(s, i - 1)
  BY <1>1, NthIs DEF Listed
<1>3. ASSUME NEW wanted
      PROVE  /\ Along(node[p].firstChild, Following, wanted) = FirstOf(s, wanted)
             /\ Along(node[p].lastChild, Prev, wanted) = LastOf(s, wanted)
             /\ \A i \in DOMAIN s :
                  /\ Along(node[s[i]].next, Following, wanted) = FirstOf(SubSeq(s, i + 1, Len(s)), wanted)
                  /\ Along(node[s[i]].prev, Prev, wanted) = LastOf(SubSeq(s, 1, i - 1), wanted)
  <2>1. \A i \in DOMAIN s : i + 1 \in 1..(Len(s) + 1) /\ i - 1 \in 0..Len(s)
    BY <1>2
  <2>2. /\ \A i \in 1..(Len(s) + 1) :
             Along(Nth(s, i), Following, wanted) = FirstOf(SubSeq(s, i, Len(s)), wanted)
        /\ \A i \in 0..Len(s) : Along(Nth(s, i), Prev, wanted) = LastOf(SubSeq(s, 1, i), wanted)
        /\ Along(node[p].firstChild, Following, wanted) = FirstOf(s, wanted)
        /\ Along(node[p].lastChild, Prev, wanted) = LastOf(s, wanted)
    BY <1>1, FromPlace
  <2> QED BY <1>2, <2>1, <2>2
<1>4. ASSUME NEW v \in Values
      PROVE  /\ FirstChild(p, v) = FirstOf(s, Valued(v))
             /\ LastChild(p, v) = LastOf(s, Valued(v))
             /\ FirstChildElementOf(p, v) = FirstOf(s, Valued(v) \cap Elements)
             /\ \A i \in DOMAIN s :
                  /\ NextSibling(s[i], v) = FirstOf(SubSeq(s, i + 1, Len(s)), Valued(v))
                  /\ PreviousSibling(s[i], v) = LastOf(SubSeq(s, 1, i - 1), Valued(v))
                  /\ NextSiblingElementOf(s[i], v) =
                       FirstOf(SubSeq(s, i + 1, Len(s)), Valued(v) \cap Elements)
  BY <1>3 DEF FirstChild, LastChild, FirstChildElementOf, NextSibling, PreviousSibling, NextSiblingElementOf
<1>5. ASSUME NEW i \in 0..Len(s)
      PROVE  /\ IterateChildren(p, IF i = 0 THEN Null ELSE s[i]) = Nth(s, i + 1)
             /\ HandleChild(p, i) = Nth(s, i + 1)
             /\ HandleChildElement(p, i) = NthOf(s, Elements, i + 1)
  <2>1. HandleChild(p, i) = Nth(s, i + 1)
    BY <1>1, HandleChildIs
  <2>2. HandleChildElement(p, i) = NthOf(s, Elements, i + 1)
    BY <1>1, <1>2, HandleChildElementIs
  <2>3. CASE i = 0
    BY <1>2, <2>1, <2>2, <2>3 DEF IterateChildren
  <2>4. CASE i # 0
    <3>1. i \in 1..Len(s)
      BY <1>2, <2>4
    <3> QED BY <1>2, <2>1, <2>2, <2>4, <3>1 DEF IterateChildren
  <2> QED BY <2>3, <2>4
<1>6. \A n \in Documents : \A m \in Subtree(node, n) : GetDocument(m) = n
  <2> SUFFICES ASSUME NEW n \in Documents, NEW m \in Subtree(node, n) PROVE GetDocument(m) = n
    OBVIOUS
  <2>1. PICK h, K : h = node /\ Forest(h, K, Null)
    BY Now
  <2>2. n \in Nodes /\ h[n].type # "free"
    BY <2>1 DEF Documents
  <2>3. m \in Nodes
    BY <2>1, <2>2, BelowIs
  <2> QED BY <2>3, DocumentIs
<1>7. GetText(p) = IF s # <<>> /\ node[s[1]].type = "text" THEN node[s[1]].value ELSE Null
  <2>1. s = <<>> <=> ~ 1 \in 1..Len(s)
    BY <1>2
  <2>2. node[p].firstChild = IF s = <<>> THEN Null ELSE s[1]
    BY <1>2, <2>1
  <2>3. s # <<>> => s[1] # Null
    BY <1>2, <2>1
  <2> QED BY <2>2, <2>3 DEF GetText
<1> QED BY <1>4, <1>5, <1>6, <1>7

\* After any operations every lookup, by whichever links it goes, finds the node that the
\* list of children says, and GetDocument the document at the top.
THEOREM Lookups == Spec => []LookupsAgree
<1>1. IInv => LookupsAgree
  BY LookupsNow
<1> QED BY <1>1, Invariance, PTL

\* Any document object model is an ordered forest that each operation changes at one
\* place, and nowhere else.
THEOREM ForestImplemented == Spec => ImplementsForest
<1>1. ASSUME Init PROVE F!Init
  <2>1. PICK h, K : h = node /\ K = Listing(node) /\ Forest(h, K, Null)
    BY <1>1, Initially, Now
  <2>2. \A n \in Nodes : h[n] = Freed
    BY <1>1, <2>1 DEF Init
  <2>3. \A n \in Nodes : Label(n) = FreedLabel
    <3>1. \A n \in Nodes : LabelIn(h, n) = FreedLabel
      BY <2>1, <2>2, SeenAlive, FreedIs
    <3> QED BY <2>1, <3>1 DEF Label, LabelIn
  <2>4. \A n \in Nodes : Kids(n) = <<>>
    <3>1. ASSUME NEW n \in Nodes PROVE K[n] = <<>>
      <4>1. K[n] \in Seq(Nodes) /\ IsList(h, n, K[n])
        BY <2>1 DEF Forest
      <4>2. Nth(K[n], 1) = Null
        BY <2>2, <4>1, FreedIs DEF IsList
      <4>3. Len(K[n]) \in Nat /\ \A i \in 1..Len(K[n]) : K[n][i] \in Nodes /\ Nth(K[n], i) = K[n][i]
        BY <4>1, NthIs
      <4>4. Len(K[n]) = 0
        BY <4>2, <4>3, TreeAssumption
      <4> QED BY <4>1, <4>4
    <3> QED BY <2>1, <3>1 DEF Listing, Kids
  <2> QED BY <2>3, <2>4 DEF F!Init, Shown
<1>2. ASSUME UNCHANGED vars PROVE UNCHANGED Shown
  BY <1>2 DEF vars, Shown, Label, Kids
<1>3. IInv /\ [Next]_vars => [F!Next]_Shown
  BY <1>2, EveryStep
<1> QED BY <1>1, <1>3, Invariance, PTL DEF Spec, ImplementsForest, F!Spec

\* Any operation on any tree puts the node, or the copy, in the place that it was given,
\* and removes the tree that it was given, with every other node left as it was.
THEOREM AsAsked == Spec => OperationsDoAsAsked
<1>1. ASSUME IInv, NEW p \in Nodes, NEW x \in Nodes
      PROVE  /\ DeleteNode(x) => F!DeletedRoot(Shown, Shown', x)
             /\ CloneNode(x) => F!Copied(Shown, Shown', x)
             /\ Clear(x) => F!Emptied(Shown, Shown', x)
             /\ LinkEndChild(p, x) => F!Linked(Shown, Shown', p, x)
             /\ InsertEndChild(p, x) => F!CopiedLast(Shown, Shown', p, x)
             /\ RemoveChild(p, x) => F!Pruned(Shown, Shown', p, x)
  BY <1>1, DeleteNodeKeeps, CloneNodeKeeps, ClearKeeps, LinkEndChildKeeps, InsertEndChildKeeps,
     RemoveChildKeeps
<1>2. ASSUME IInv, NEW p \in Nodes, NEW x \in Nodes, NEW c \in Nodes
      PROVE  /\ InsertBeforeChild(p, c, x) => F!CopiedBefore(Shown, Shown', p, c, x)
             /\ InsertAfterChild(p, c, x) => F!CopiedAfter(Shown, Shown', p, c, x)
             /\ ReplaceChild(p, c, x) => F!Replaced(Shown, Shown', p, c, x)
  BY <1>2, InsertBeforeChildKeeps, InsertAfterChildKeeps, ReplaceChildKeeps
<1>3. IInv => DoesAsAsked
  BY <1>1, <1>2 DEF DoesAsAsked
<1> QED BY <1>3, Invariance, PTL DEF OperationsDoAsAsked
=============================================================================
