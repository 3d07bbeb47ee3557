------------------------------ MODULE XmlFiles ------------------------------
(***************************************************************************)
(* A program that builds a document with CXML and saves it, a file that    *)
(* may be damaged at one place, and the document that is loaded from it    *)
(* and read.                                                               *)
(***************************************************************************)
EXTENDS CXML

CONSTANTS Marks, Contents,   (* the names and values that the program gives  *)
          MaxSize,           (* of a document that is built; a bound         *)
          Strays             (* symbols that damage may put in               *)

VARIABLES damages            (* to the file; a bound is 1                    *)

allVars == <<vars, damages>>

FilesInit == Init /\ file = Absent /\ damages = 0

RECURSIVE Size(_), Elements(_, _)

\* The nodes and attributes of n.
Size(n) == 1 + Len(n.attributes) + FoldLeft(LAMBDA k, c : k + Size(c), 0, n.children)

\* The paths of the elements below n, which is at path.
Elements(n, path) ==
  UNION {(IF n.children[i].type = "element" THEN {Append(path, i)} ELSE {})
         \cup Elements(n.children[i], Append(path, i)) : i \in 1..Len(n.children)}

EndsInText(path) == LET s == NodeAt(path).children IN s # <<>> /\ Last(s).type = "text"

\* The document is built before it is saved; a text is not added after a text.
Building == file = Absent /\ Size(m_xml.node) < MaxSize /\ UNCHANGED damages

Build ==
  /\ Building
  /\ \/ \E mark \in Marks : addXmlRootElement(mark)
     \/ \E v \in Contents : addXmlDeclaration([w \in {DeclarationNames[i] : i \in 1..3} |->
                                                 IF w = "version" THEN v ELSE <<>>])
     \/ \E path \in Elements(m_xml.node, <<>>) :
          \/ \E mark \in Marks : addXmlChildElement(path, mark)
          \/ \E v \in Contents : \/ ~ EndsInText(path) /\ addElementValue(path, v)
                                 \/ \E name \in Marks : addXmlAttribute(path, name, v)
          \/ \E mark \in Marks : addXmlComment(path, mark)
     \/ ParseXmlStr(getXmlStr)

Save == file = Absent /\ saveFile /\ UNCHANGED damages

\* One symbol is lost, or all after it, or it is another.
Damage ==
  /\ file # Absent /\ damages = 0 /\ ~ aborted
  /\ damages' = 1
  /\ \E i \in 1..Len(file) : \/ file' = RemoveAt(file, i)
                             \/ file' = SubSeq(file, 1, i - 1)
                             \/ \E s \in Strays : file' = [file EXCEPT ![i] = s]
  /\ UNCHANGED <<m_xml, pElement, aborted>>

\* The element is looked up before its siblings are read.
Read == /\ file # Absent /\ UNCHANGED damages
        /\ \/ ParseXmlFile(file)
           \/ Clear
           \/ \E mark \in Marks : \/ getFirstElementValue(mark)
                                  \/ Points /\ getNextElementValue(mark)
                                  \/ Points /\ getElementAttributeValue(mark)

Next == Build \/ Save \/ Damage \/ Read

Spec == FilesInit /\ [][Next]_allVars
-----------------------------------------------------------------------------
RECURSIVE Plain(_)

\* What a printed document can say: texts begin and end with no blank, have single ones
\* and do not touch; a declaration, whose values are not encoded, has none to encode.
Plain(n) ==
  /\ n.type = "text" => /\ n.value # <<>> /\ Head(n.value) # " " /\ Last(n.value) # " "
                        /\ \A i \in 2..Len(n.value) : " " # n.value[i] \/ " " # n.value[i - 1]
  /\ n.type = "declaration" => \A i \in DOMAIN n.attributes : \A j \in DOMAIN n.attributes[i].value :
                                 n.attributes[i].value[j] \notin {"\"", "&"}
  /\ \A i \in 2..Len(n.children) : n.children[i].type # "text" \/ n.children[i - 1].type # "text"
  /\ \A i \in DOMAIN n.children : Plain(n.children[i])

RECURSIVE AsPrinted(_)

\* A reference in a text or an attribute is written as it is: it says its character.
Characters(v) ==
  FlattenSeq([i \in DOMAIN v |-> IF IsReference(v, i) \/ IsReference(v, i - 1) THEN DecodedAt(v, i)
                                 ELSE <<v[i]>>])
AsPrinted(n) ==
  [n EXCEPT !.value = IF n.type = "text" THEN Characters(@) ELSE @,
            !.attributes = IF n.type # "element" THEN @
                           ELSE [i \in DOMAIN @ |-> [@[i] EXCEPT !.value = Characters(@)]],
            !.children = [i \in DOMAIN @ |-> AsPrinted(@[i])]]

LoadedAs(r, n) == r.node = n /\ ~ r.error /\ ~ r.failed
ReadsBack(text, n) == LoadedAs(ParseDocument(text, Document(<<>>)), n)

\* What was saved is loaded as it was, from the file and from the string, whether the
\* document was built, or loaded from a file that was damaged: every node, name, value
\* and attribute, in order, and without an error.  Only a character reference in a value
\* has become its character.
SavedDocumentsAreReadBack ==
  m_xml.node.children # <<>> /\ Plain(m_xml.node) =>
    LET saved == AsPrinted(m_xml.node)
    IN  ReadsBack(FilePrint(m_xml.node), saved) /\ ReadsBack(Visit(m_xml.node), saved)

\* The elements that a part of a printed text has begun and not ended.
OpenElements(t) ==
  Cardinality({i \in 1..Len(t) : t[i] = "<" /\ At(t, i + 1) \in Words})
  - Cardinality({i \in 1..Len(t) :
                   t[i] = ">" /\ \/ t[i - 1] = "/"
                                 \/ \E j \in 1..i : StringEqual(t, j, <<"<", "/">>)
                                                    /\ \A k \in j..(i - 1) : t[k] # ">"})

Refused(r) == r.error \/ r.failed

\* A file that was cut off within an element is not loaded without an error.
CutFilesAreNoticed ==
  file = Absent => LET t == FilePrint(m_xml.node)
                 IN  \A i \in 1..Len(t) :
                       \/ Refused(ParseDocument(SubSeq(t, 1, i), Document(<<>>)))
                       \/ OpenElements(SubSeq(t, 1, i)) = 0

\* a comes before b in the document.
Before(a, b) == \/ IsStrictPrefix(a, b)
                \/ \E i \in DOMAIN a \cap DOMAIN b : a[i] < b[i] /\ SubSeq(a, 1, i - 1) = SubSeq(b, 1, i - 1)

\* getFirstElement finds the first element of that name in the order of the document,
\* at any depth, and finds one whenever there is one.
FirstInDocumentOrder ==
  \A mark \in Marks :
    LET found == getFirstElement(mark, RootElement)
        marked == {path \in Elements(m_xml.node, <<>>) : NodeAt(path).value = mark}
    IN  IF marked = {} THEN found = NullElement
        ELSE found \in marked /\ \A path \in marked \ {found} : Before(found, path)
=============================================================================
