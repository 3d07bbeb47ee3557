---------------------------- MODULE OrderedForest ----------------------------
(***************************************************************************)
(* What the document object model promises: a forest of labelled nodes,    *)
(* each with a sequence of children, that is changed at one place at a     *)
(* time, by what was asked for and nothing else.                           *)
(*                                                                         *)
(* The steps are written as relations between the forest o before and the  *)
(* forest o2 after them.                                                   *)
(***************************************************************************)
EXTENDS Naturals, SequencesExt

CONSTANTS Nodes,
          Dead      (* the label of a node that does not exist               *)

VARIABLES forest    (* the label and the children, kids, of every node       *)

Init == forest = [label |-> [n \in Nodes |-> Dead], kids |-> [n \in Nodes |-> <<>>]]

Alive(o) == {n \in Nodes : o.label[n] # Dead}
KidsOf(o, n) == {o.kids[n][i] : i \in 1..Len(o.kids[n])}
Root(o, n) == \A p \in Nodes : n \notin KidsOf(o, p)

\* n and what is below it: what is in every set with n and the children of its nodes.
Tree(o, n) ==
  LET closed == {S \in SUBSET Nodes : n \in S /\ \A m \in S : KidsOf(o, m) \subseteq S}
  IN  {m \in Nodes : \A S \in closed : m \in S}

\* o with s as the children of p; with the nodes gone being no more; and with a copy of
\* the tree of x, where f says which node copies which.
WithKids(o, p, s) == [label |-> o.label, kids |-> [o.kids EXCEPT ![p] = s]]

Without(o, gone) == [label |-> [n \in Nodes |-> IF n \in gone THEN Dead ELSE o.label[n]],
                     kids |-> [n \in Nodes |-> IF n \in gone THEN <<>> ELSE o.kids[n]]]

WithCopy(o, x, f) ==
  LET made == {f[m] : m \in Tree(o, x)}
      origin(n) == CHOOSE m \in Tree(o, x) : f[m] = n
      kids(m) == [i \in 1..Len(o.kids[m]) |-> f[o.kids[m][i]]]
  IN  [label |-> [n \in Nodes |-> IF n \in made THEN o.label[origin(n)] ELSE o.label[n]],
       kids |-> [n \in Nodes |-> IF n \in made THEN kids(origin(n)) ELSE o.kids[n]]]

New(o, o2) == {n \in Nodes : o.label[n] = Dead /\ o2.label[n] # Dead}
CopyMaps(o, o2, x) == {f \in [Tree(o, x) -> New(o, o2)] : \A a, b \in Tree(o, x) : f[a] = f[b] => a = b}

Relabel(o, o2) == \E n \in Nodes : /\ o2.label[n] # Dead
                                   /\ o2 = [label |-> [o.label EXCEPT ![n] = o2.label[n]], kids |-> o.kids]

Linked(o, o2, p, n) == /\ Root(o, n) /\ p \notin Tree(o, n)
                       /\ o2 = WithKids(o, p, Append(o.kids[p], n))

Pruned(o, o2, p, c) ==
  \E i \in 1..Len(o.kids[p]) :
    /\ o.kids[p][i] = c
    /\ o2 = Without(WithKids(o, p, RemoveAt(o.kids[p], i)), Tree(o, c))

Emptied(o, o2, p) == o2 = Without(WithKids(o, p, <<>>), Tree(o, p) \ {p})

DeletedRoot(o, o2, n) == Root(o, n) /\ o2 = Without(o, Tree(o, n))

\* A copy of the tree of x becomes a root, or child number i of p.
Copied(o, o2, x) == \E f \in CopyMaps(o, o2, x) : o2 = WithCopy(o, x, f)

CopiedAt(o, o2, p, i, x) ==
  \E f \in CopyMaps(o, o2, x) :
    o2 = WithKids(WithCopy(o, x, f), p, InsertAt(o.kids[p], i, f[x]))

CopiedLast(o, o2, p, x) == CopiedAt(o, o2, p, Len(o.kids[p]) + 1, x)

CopiedBefore(o, o2, p, c, x) ==
  \E i \in 1..Len(o.kids[p]) : o.kids[p][i] = c /\ CopiedAt(o, o2, p, i, x)

CopiedAfter(o, o2, p, c, x) ==
  \E i \in 1..Len(o.kids[p]) : o.kids[p][i] = c /\ CopiedAt(o, o2, p, i + 1, x)

\* The copy takes the place of c, which may be above x.
Replaced(o, o2, p, c, x) ==
  \E i \in 1..Len(o.kids[p]), f \in CopyMaps(o, o2, x) :
    /\ o.kids[p][i] = c
    /\ o2 = Without(WithKids(WithCopy(o, x, f), p, ReplaceAt(o.kids[p], i, f[x])), Tree(o, c))

Step(o, o2) ==
  \/ Relabel(o, o2)
  \/ \E p \in Alive(o) : Emptied(o, o2, p) \/ DeletedRoot(o, o2, p) \/ Copied(o, o2, p)
  \/ \E p, x \in Alive(o) :
       \/ Linked(o, o2, p, x) \/ Pruned(o, o2, p, x) \/ CopiedLast(o, o2, p, x)
       \/ \E c \in Alive(o) : \/ CopiedBefore(o, o2, p, c, x) \/ CopiedAfter(o, o2, p, c, x)
                              \/ Replaced(o, o2, p, c, x)

Next == Step(forest, forest')

Spec == Init /\ [][Next]_forest
=============================================================================
