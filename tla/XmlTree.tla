------------------------------- MODULE XmlTree -------------------------------
(***************************************************************************)
(* The document object model of TinyXML (xml/src/tinyxml.cpp, class        *)
(* TiXmlNode and its subclasses): nodes with a doubly linked list of       *)
(* children, and the operations that link, insert, replace, remove, copy   *)
(* and delete them.                                                        *)
(*                                                                         *)
(* Elements stand for themselves, texts for every node without children    *)
(* (text, comment, declaration, unknown).  The ring of attributes is the   *)
(* sequence that First and Next go through.  The caller of LinkEndChild    *)
(* hands over a node of its own, as tinyxml.h says; asserts are guards.    *)
(***************************************************************************)
EXTENDS Integers, SequencesExt

CONSTANTS Nodes,            (* the addresses of nodes; a bound               *)
          Values,           (* the values of elements and texts              *)
          AttributeNames, AttributeValues,
          MaxAttributes,    (* of one element; a bound                       *)
          Null

ASSUME TreeAssumption == /\ Null \notin Nodes /\ IsFiniteSet(Nodes)
                         /\ MaxAttributes \in Nat

VARIABLES node

vars == node

Types == {"free", "document", "element", "text"}

NewNode(t, v) == [type |-> t, value |-> v, attributes |-> <<>>, error |-> FALSE,
                  parent |-> Null, firstChild |-> Null, lastChild |-> Null,
                  prev |-> Null, next |-> Null]
Freed == NewNode("free", "")

Init == node = [n \in Nodes |-> Freed]

Alive == {n \in Nodes : node[n].type # "free"}
HasChildren == {n \in Alive : node[n].type # "text"}

-----------------------------------------------------------------------------
(***************************************************************************)
(* Lookups                                                                 *)
(***************************************************************************)
\* The first of the nodes wanted from n along the link.
Along(n, link, wanted) ==
  LET walk[m \in Nodes \cup {Null}] == IF m = Null \/ m \in wanted THEN m ELSE walk[link[m]]
  IN  walk[n]

Parent == [n \in Nodes |-> node[n].parent]
Prev == [n \in Nodes |-> node[n].prev]
Following == [n \in Nodes |-> node[n].next]

Elements == {n \in Nodes : node[n].type = "element"}
Documents == {n \in Nodes : node[n].type = "document"}
Valued(v) == {n \in Nodes : node[n].value = v}

FirstChild(p, v) == Along(node[p].firstChild, Following, Valued(v))
LastChild(p, v) == Along(node[p].lastChild, Prev, Valued(v))
NextSibling(n, v) == Along(node[n].next, Following, Valued(v))
PreviousSibling(n, v) == Along(node[n].prev, Prev, Valued(v))
IterateChildren(p, previous) == IF previous = Null THEN node[p].firstChild ELSE node[previous].next
FirstChildElement(p) == Along(node[p].firstChild, Following, Elements)
NextSiblingElement(n) == Along(node[n].next, Following, Elements)
FirstChildElementOf(p, v) == Along(node[p].firstChild, Following, Valued(v) \cap Elements)
NextSiblingElementOf(n, v) == Along(node[n].next, Following, Valued(v) \cap Elements)

GetDocument(n) == Along(n, Parent, Documents)

\* The text of an element is its first child, if that is a text.
GetText(n) == IF node[n].firstChild # Null /\ node[node[n].firstChild].type = "text"
              THEN node[node[n].firstChild].value ELSE Null

\* TiXmlHandle: child number count, from 0, of all children or of the elements.
HandleChild(p, count) ==
  LET step[i \in 0..count] == IF i = 0 THEN node[p].firstChild
                              ELSE IF step[i - 1] = Null THEN Null ELSE node[step[i - 1]].next
  IN  step[count]
HandleChildElement(p, count) ==
  LET step[i \in 0..count] == IF i = 0 THEN FirstChildElement(p)
                              ELSE IF step[i - 1] = Null THEN Null ELSE NextSiblingElement(step[i - 1])
  IN  step[count]

-----------------------------------------------------------------------------
(***************************************************************************)
(* The links                                                               *)
(***************************************************************************)
\* Among the children of p in the heap h, b comes after a; Null is an end.
LinkNext(h, p, a, b) == IF a = Null THEN [h EXCEPT ![p].firstChild = b] ELSE [h EXCEPT ![a].next = b]
LinkPrev(h, p, a, b) == IF b = Null THEN [h EXCEPT ![p].lastChild = a] ELSE [h EXCEPT ![b].prev = a]
Joined(h, p, a, b) == LinkPrev(LinkNext(h, p, a, b), p, a, b)

\* Mutant: prev of the node that follows is left as it was.
LinkedBetweenForward(h, p, a, n, b) ==
  LET placed == [h EXCEPT ![n].parent = p, ![n].prev = a, ![n].next = b]
  IN  LinkNext(IF b = Null THEN [placed EXCEPT ![p].lastChild = n] ELSE placed, p, a, n)

\* n is linked between the neighbours a and b.
LinkedBetween(h, p, a, n, b) ==
  LET placed == [h EXCEPT ![n].parent = p, ![n].prev = a, ![n].next = b]
  IN  LinkPrev(LinkNext(placed, p, a, n), p, n, b)

\* What the destructor of n reaches: its list of children, and theirs.
Subtree(h, n) ==
  LET reach[i \in 0..Cardinality(Nodes)] ==
        IF i = 0 THEN {n}
        ELSE LET found == reach[i - 1] \ {Null}
             IN  found \cup {h[m].firstChild : m \in found} \cup {h[m].next : m \in found \ {n}}
  IN  reach[Cardinality(Nodes)] \ {Null}

FreeAll(h, dead) == [n \in Nodes |-> IF n \in dead THEN Freed ELSE h[n]]

\* The destructor of n deletes its children, which delete theirs.
Deleted(h, n) == FreeAll(h, Subtree(h, n))

\* The ways to allocate a node for each of the tree of n.
Allocations(n) ==
  {f \in [Subtree(node, n) -> Nodes \ Alive] : \A a, b \in DOMAIN f : f[a] = f[b] => a = b}

\* Mutant: the attributes are not cloned.
ClonedBare(h, n, f) ==
  LET new(m) == IF m \in DOMAIN f THEN f[m] ELSE Null
      copy(m) == [type |-> h[m].type, value |-> h[m].value, attributes |-> <<>>, error |-> h[m].error,
                  parent |-> new(h[m].parent),
                  firstChild |-> new(h[m].firstChild), lastChild |-> new(h[m].lastChild),
                  prev |-> IF m = n THEN Null ELSE new(h[m].prev),
                  next |-> IF m = n THEN Null ELSE new(h[m].next)]
  IN  [x \in Nodes |-> IF \E m \in DOMAIN f : f[m] = x
                       THEN copy(CHOOSE m \in DOMAIN f : f[m] = x) ELSE h[x]]

\* The heap with a clone of the tree of n in the nodes that f gives.
Cloned(h, n, f) ==
  LET new(m) == IF m \in DOMAIN f THEN f[m] ELSE Null
      copy(m) == [type |-> h[m].type, value |-> h[m].value, attributes |-> h[m].attributes,
                  error |-> h[m].error, parent |-> new(h[m].parent),
                  firstChild |-> new(h[m].firstChild), lastChild |-> new(h[m].lastChild),
                  prev |-> IF m = n THEN Null ELSE new(h[m].prev),
                  next |-> IF m = n THEN Null ELSE new(h[m].next)]
  IN  [x \in Nodes |-> IF \E m \in DOMAIN f : f[m] = x
                       THEN copy(CHOOSE m \in DOMAIN f : f[m] = x) ELSE h[x]]

-----------------------------------------------------------------------------
(***************************************************************************)
(* The operations                                                          *)
(***************************************************************************)
New(n, t, v) == n \notin Alive /\ node' = [node EXCEPT ![n] = NewNode(t, v)]

DeleteNode(n) == n \in Alive /\ node[n].parent = Null /\ node' = Deleted(node, n)

CloneNode(n) == n \in Alive /\ \E f \in Allocations(n) : node' = Cloned(node, n, f)

\* tinyxml.h: the node "will be henceforth owned (and deleted) by tinyXml".
LinkEndChild(p, n) ==
  /\ p \in HasChildren /\ n \in Alive /\ node[n].parent = Null /\ p \notin Subtree(node, n)
  /\ node[n].type # "document"
  /\ node' = LinkedBetween(node, p, node[p].lastChild, n, Null)

\* A document cannot be a child: the document of p, if it is in one, gets an error.
Refused(p, x) ==
  /\ p \in HasChildren /\ x \in Alive /\ node[x].type = "document" /\ GetDocument(p) # Null
  /\ node' = [node EXCEPT ![GetDocument(p)].error = TRUE]

Insertable(p, x) == p \in HasChildren /\ x \in Alive /\ node[x].type # "document"

InsertEndChild(p, x) ==
  /\ Insertable(p, x)
  /\ \E f \in Allocations(x) :
       node' = LinkedBetween(Cloned(node, x, f), p, node[p].lastChild, f[x], Null)

\* Mutant: the copy is linked on the other side of the child.
InsertBeforeChildAfter(p, before, x) ==
  /\ Insertable(p, x) /\ before \in Alive /\ node[before].parent = p
  /\ \E f \in Allocations(x) :
       node' = LinkedBetween(Cloned(node, x, f), p, before, f[x], node[before].next)

InsertBeforeChild(p, before, x) ==
  /\ Insertable(p, x) /\ before \in Alive /\ node[before].parent = p
  /\ \E f \in Allocations(x) :
       node' = LinkedBetween(Cloned(node, x, f), p, node[before].prev, f[x], before)

InsertAfterChild(p, after, x) ==
  /\ Insertable(p, x) /\ after \in Alive /\ node[after].parent = p
  /\ \E f \in Allocations(x) :
       node' = LinkedBetween(Cloned(node, x, f), p, after, f[x], node[after].next)

\* The clone is made before the old child is deleted: x may be below it.
ReplaceChild(p, old, x) ==
  /\ Insertable(p, x) /\ old \in Alive /\ node[old].parent = p
  /\ \E f \in Allocations(x) :
       node' = Deleted(LinkedBetween(Cloned(node, x, f), p, node[old].prev, f[x], node[old].next), old)

\* Mutant: lastChild is left as it was.
RemoveChildNotLast(p, child) ==
  /\ p \in Alive /\ child \in Alive /\ node[child].parent = p
  /\ node' = Deleted(LET h == LinkNext(node, p, node[child].prev, node[child].next)
                     IN  IF node[child].next = Null THEN h
                         ELSE LinkPrev(h, p, node[child].prev, node[child].next), child)

RemoveChild(p, child) ==
  /\ p \in Alive /\ child \in Alive /\ node[child].parent = p
  /\ node' = Deleted(Joined(node, p, node[child].prev, node[child].next), child)

Emptied(h, p) ==
  [FreeAll(h, Subtree(h, p) \ {p}) EXCEPT ![p].firstChild = Null, ![p].lastChild = Null]

Clear(p) == p \in HasChildren /\ node' = Emptied(node, p)

-----------------------------------------------------------------------------
(***************************************************************************)
(* Attributes                                                              *)
(***************************************************************************)
Find(list, name) == SelectInSeq(list, LAMBDA a : a.name = name)

\* FindOrCreate, then SetValue.
WithAttribute(list, name, v) ==
  IF Find(list, name) = 0 THEN Append(list, [name |-> name, value |-> v])
  ELSE [list EXCEPT ![Find(list, name)].value = v]

SetAttribute(n, name, v) ==
  /\ n \in Alive /\ n \in Elements
  /\ Find(node[n].attributes, name) = 0 => Len(node[n].attributes) < MaxAttributes
  /\ node' = [node EXCEPT ![n].attributes = WithAttribute(@, name, v)]

RemoveAttribute(n, name) ==
  /\ n \in Alive /\ n \in Elements /\ Find(node[n].attributes, name) # 0
  /\ node' = [node EXCEPT ![n].attributes = RemoveAt(@, Find(@, name))]

SetValue(n, v) == /\ n \in Alive /\ node[n].type # "document"
                  /\ node' = [node EXCEPT ![n].value = v]

Next ==
  \/ \E n \in Nodes : \/ New(n, "document", "")
                      \/ \E v \in Values : New(n, "element", v) \/ New(n, "text", v)
  \/ \E n \in Nodes : DeleteNode(n) \/ CloneNode(n) \/ Clear(n)
  \/ \E p, x \in Nodes : \/ LinkEndChild(p, x) \/ Refused(p, x) \/ InsertEndChild(p, x)
                         \/ RemoveChild(p, x)
                         \/ \E c \in Nodes : \/ InsertBeforeChild(p, c, x)
                                             \/ InsertAfterChild(p, c, x)
                                             \/ ReplaceChild(p, c, x)
  \/ \E n \in Nodes : \/ \E v \in Values : SetValue(n, v)
                      \/ \E name \in AttributeNames :
                           \/ \E v \in AttributeValues : SetAttribute(n, name, v)
                           \/ RemoveAttribute(n, name)

Spec == Init /\ [][Next]_vars
-----------------------------------------------------------------------------
NodeType == [type : Types, value : Values \cup {""}, error : BOOLEAN,
             attributes : Seq([name : AttributeNames, value : AttributeValues]),
             parent : Nodes \cup {Null}, firstChild : Nodes \cup {Null}, lastChild : Nodes \cup {Null},
             prev : Nodes \cup {Null}, next : Nodes \cup {Null}]

TypeOK == node \in [Nodes -> NodeType]

\* The children of n as its list in the heap h has them, at most as many as there are
\* nodes.
ListOf(h, n) ==
  LET at[i \in 1..Cardinality(Nodes)] ==
        IF i = 1 THEN h[n].firstChild ELSE IF at[i - 1] = Null THEN Null ELSE h[at[i - 1]].next
  IN  [i \in 1..Cardinality({k \in DOMAIN at : at[k] # Null}) |-> at[i]]

Kids(n) == ListOf(node, n)

\* A list of children reads the same from both ends, its nodes say whose they are,
\* and they exist; a node without a parent has no neighbours, a node that was freed is
\* in no list, none is below itself and no attribute name occurs twice.  So one delete
\* reaches every node once, and no pointer is left to a node that is gone.
TreeIsSound ==
  /\ TypeOK
  /\ \A p \in Alive : LET s == Kids(p) IN
       /\ node[p].lastChild = IF s = <<>> THEN Null ELSE Last(s)
       /\ \A i \in 1..Len(s) : /\ s[i] \in Alive /\ node[s[i]].parent = p
                               /\ node[s[i]].prev = IF i = 1 THEN Null ELSE s[i - 1]
                               /\ node[s[i]].next = IF i = Len(s) THEN Null ELSE s[i + 1]
  /\ \A n \in Alive : IF node[n].parent = Null THEN node[n].prev = Null /\ node[n].next = Null
                      ELSE node[n].parent \in Alive /\ Contains(Kids(node[n].parent), n)
  /\ \A n \in Alive : node[n].parent \notin Subtree(node, n)
  /\ \A n \in Nodes \ Alive : node[n] = Freed
  /\ \A n \in Alive : \A i, j \in DOMAIN node[n].attributes :
       node[n].attributes[i].name = node[n].attributes[j].name => i = j

\* The first, the last and number i of the nodes wanted in a sequence.
Places(s, wanted) == {i \in DOMAIN s : s[i] \in wanted}
FirstOf(s, wanted) == IF Places(s, wanted) = {} THEN Null ELSE s[Min(Places(s, wanted))]
LastOf(s, wanted) == IF Places(s, wanted) = {} THEN Null ELSE s[Max(Places(s, wanted))]
Nth(s, i) == IF i \in DOMAIN s THEN s[i] ELSE Null
NthOf(s, wanted, i) ==
  LET at == {k \in Places(s, wanted) : Cardinality({j \in Places(s, wanted) : j <= k}) = i}
  IN  IF at = {} THEN Null ELSE s[CHOOSE k \in at : TRUE]

\* The lookups, by whichever links they go, find the node that the list of children
\* says: by value or type, from either end, after or before a node, or by number; and
\* GetDocument finds the document at the top.
LookupsAgree ==
  \A p \in HasChildren : LET s == Kids(p) IN
    /\ \A v \in Values :
         /\ FirstChild(p, v) = FirstOf(s, Valued(v))
         /\ LastChild(p, v) = LastOf(s, Valued(v))
         /\ FirstChildElementOf(p, v) = FirstOf(s, Valued(v) \cap Elements)
         /\ \A i \in DOMAIN s :
              /\ NextSibling(s[i], v) = FirstOf(SubSeq(s, i + 1, Len(s)), Valued(v))
              /\ PreviousSibling(s[i], v) = LastOf(SubSeq(s, 1, i - 1), Valued(v))
              /\ NextSiblingElementOf(s[i], v) =
                   FirstOf(SubSeq(s, i + 1, Len(s)), Valued(v) \cap Elements)
    /\ \A i \in 0..Len(s) :
         /\ IterateChildren(p, IF i = 0 THEN Null ELSE s[i]) = Nth(s, i + 1)
         /\ HandleChild(p, i) = Nth(s, i + 1)
         /\ HandleChildElement(p, i) = NthOf(s, Elements, i + 1)
    /\ \A n \in Documents : \A m \in Subtree(node, n) : GetDocument(m) = n
    /\ GetText(p) = IF s # <<>> /\ node[s[1]].type = "text" THEN node[s[1]].value ELSE Null

\* What callers see of the tree: the labels, and the children in their order.
Label(n) == [type |-> node[n].type, value |-> node[n].value,
             attributes |-> node[n].attributes, error |-> node[n].error]

FreedLabel == [type |-> "free", value |-> "", attributes |-> <<>>, error |-> FALSE]

Shown == [label |-> [n \in Nodes |-> Label(n)], kids |-> [n \in Nodes |-> Kids(n)]]

F == INSTANCE OrderedForest WITH Dead <- FreedLabel, forest <- Shown

\* Every operation changes the forest at one place: it labels a node, moves or removes
\* a tree or adds the copy of one, equal to its original, and all other nodes keep their
\* children, values and attributes.
ImplementsForest == F!Spec

\* The place is the one that was asked for: what is linked or inserted comes last,
\* right before or right after the given child, what replaces a child is where that
\* was, and only the tree that was named is gone.
DoesAsAsked ==
  \A p, x \in Nodes :
    /\ DeleteNode(x) => F!DeletedRoot(Shown, Shown', x)
    /\ CloneNode(x) => F!Copied(Shown, Shown', x)
    /\ Clear(x) => F!Emptied(Shown, Shown', x)
    /\ LinkEndChild(p, x) => F!Linked(Shown, Shown', p, x)
    /\ InsertEndChild(p, x) => F!CopiedLast(Shown, Shown', p, x)
    /\ RemoveChild(p, x) => F!Pruned(Shown, Shown', p, x)
    /\ \A c \in Nodes :
         /\ InsertBeforeChild(p, c, x) => F!CopiedBefore(Shown, Shown', p, c, x)
         /\ InsertAfterChild(p, c, x) => F!CopiedAfter(Shown, Shown', p, c, x)
         /\ ReplaceChild(p, c, x) => F!Replaced(Shown, Shown', p, c, x)

\* Every operation that links, inserts, replaces, copies or removes nodes (tinyxml.cpp:147-358
\* and Clone) makes the change that its name says, at the place that its arguments name,
\* and no other.
OperationsDoAsAsked == [][DoesAsAsked]_vars
=============================================================================
