-------------------------------- MODULE CXML --------------------------------
(***************************************************************************)
(* CXML (xml/src/XML.cpp): the one document of the program, with a pointer *)
(* to the element that was read last, and the file that it is loaded from  *)
(* and saved to.                                                           *)
(*                                                                         *)
(* Elements are named by their paths, the numbers of the children on the   *)
(* way to them; the path of the document, <<>>, is the null pointer.       *)
(* Reading through a null pointer or one that was never set, or giving a   *)
(* null pointer to a string, ends the program, as a failed assertion does. *)
(***************************************************************************)
EXTENDS XmlText

CONSTANTS Absent      (* the file does not exist                             *)

VARIABLES m_xml,      (* the document and its error flag                     *)
          pElement,   (* the path, and whether it can be followed            *)
          file,
          aborted

vars == <<m_xml, pElement, file, aborted>>

NullElement == <<>>

Wild == [valid |-> FALSE, path |-> NullElement]
To(path) == [valid |-> TRUE, path |-> path]

\* The constructor leaves pElement as the memory was.
Init == /\ m_xml = [node |-> Document(<<>>), error |-> FALSE]
        /\ pElement = Wild
        /\ aborted = FALSE

-----------------------------------------------------------------------------
(***************************************************************************)
(* Finding elements                                                        *)
(***************************************************************************)
NodeAt(path) == FoldLeft(LAMBDA n, i : n.children[i], m_xml.node, path)

\* The first element among the children of path from number i on that Accepts.
ElementFrom(path, i, Accepts(_)) ==
  LET children == NodeAt(path).children
      found == {j \in i..Len(children) : children[j].type = "element" /\ Accepts(children[j])}
  IN  IF found = {} THEN NullElement ELSE Append(path, Min(found))

FirstChildElement(path) == ElementFrom(path, 1, LAMBDA n : TRUE)
NextSiblingElement(path) == ElementFrom(Front(path), Last(path) + 1, LAMBDA n : TRUE)

\* Mutant: no element after the next one is looked at.
NextSiblingElementOnly(path, mark) ==
  LET next == NextSiblingElement(path)
  IN  IF next # NullElement /\ NodeAt(next).value = mark THEN next ELSE NullElement

NextSiblingElementOf(path, mark) ==
  ElementFrom(Front(path), Last(path) + 1, LAMBDA n : n.value = mark)
RootElement == FirstChildElement(<<>>)

RECURSIVE getFirstElement(_, _), inChildren(_, _)

\* Mutant: the search does not go below the children.
getFirstElementShallow(mark, path) ==
  LET below == IF path = NullElement THEN NullElement
               ELSE ElementFrom(path, 1, LAMBDA n : n.value = mark)
  IN  IF path = NullElement THEN NullElement
      ELSE IF NodeAt(path).value = mark THEN path
      ELSE IF below # NullElement THEN below
      ELSE getFirstElement(mark, NextSiblingElement(path))

\* The element, one below it, or one after it.
getFirstElement(mark, path) ==
  IF path = NullElement THEN NullElement
  ELSE IF NodeAt(path).value = mark THEN path
  ELSE IF inChildren(mark, FirstChildElement(path)) # NullElement
  THEN inChildren(mark, FirstChildElement(path))
  ELSE getFirstElement(mark, NextSiblingElement(path))

inChildren(mark, path) ==
  IF path = NullElement THEN NullElement
  ELSE IF NodeAt(path).value = mark THEN path
  ELSE IF getFirstElement(mark, path) # NullElement THEN getFirstElement(mark, path)
  ELSE inChildren(mark, NextSiblingElement(path))

\* The text of an element is its first child.
HasText(path) == LET children == NodeAt(path).children IN children # <<>> /\ IsText(children[1])
GetText(path) == NodeAt(path).children[1].value

-----------------------------------------------------------------------------
(***************************************************************************)
(* Loading and saving                                                      *)
(***************************************************************************)
\* The document after LoadFile; a file that cannot be opened leaves it as it is.
LoadFile(f) == IF f = Absent THEN Parsed(0, m_xml.node, TRUE, FALSE)
               ELSE IF f = <<>> THEN Parsed(0, Document(<<>>), TRUE, FALSE)
               ELSE ParseDocument(f, Document(<<>>))

Holds(r) == /\ m_xml' = [node |-> r.node, error |-> r.error]
            /\ aborted' = r.failed

\* The elements are deleted, and pElement is left as it is.
ParseXmlFile(f) == /\ ~ aborted /\ Holds(LoadFile(f))
                   /\ pElement' = IF f = Absent THEN pElement ELSE Wild
                   /\ UNCHANGED file

\* What is parsed is added to the document.
ParseXmlStr(s) == /\ ~ aborted /\ s # <<>>
                  /\ Holds(ParseDocument(s, m_xml.node))
                  /\ UNCHANGED <<pElement, file>>

Clear == /\ ~ aborted
         /\ m_xml' = [m_xml EXCEPT !.node = Document(<<>>)]
         /\ pElement' = Wild
         /\ UNCHANGED <<file, aborted>>

saveFile == /\ ~ aborted
            /\ file' = FilePrint(m_xml.node)
            /\ UNCHANGED <<m_xml, pElement, aborted>>

getXmlStr == Visit(m_xml.node)

-----------------------------------------------------------------------------
(***************************************************************************)
(* Reading                                                                 *)
(***************************************************************************)
\* pElement is at the element that was found; its text is copied.
Reads(path) == /\ pElement' = To(path)
               /\ aborted' = (path # NullElement /\ ~ HasText(path))
               /\ UNCHANGED <<m_xml, file>>

getFirstElementValue(mark) ==
  /\ ~ aborted /\ mark # <<>>
  /\ LET path == getFirstElement(mark, RootElement)
     IN  IF path = NullElement THEN UNCHANGED vars ELSE Reads(path)

Points == pElement.valid /\ pElement.path # NullElement
Following(mark) == NextSiblingElementOf(pElement.path, mark)

getNextElementValue(mark) ==
  /\ ~ aborted
  /\ IF Points THEN Reads(Following(mark))
     ELSE aborted' = TRUE /\ UNCHANGED <<m_xml, pElement, file>>

\* The text that the two copy to their caller; none without an element.
TextOf(path) == IF path = NullElement \/ ~ HasText(path) THEN <<>> ELSE GetText(path)
FirstValue(mark) == TextOf(getFirstElement(mark, RootElement))
NextValue(mark) == IF Points THEN TextOf(Following(mark)) ELSE <<>>

\* The value of an attribute of the element read last.
getElementAttributeValue(name) ==
  /\ ~ aborted
  /\ aborted' = ~ Points
  /\ UNCHANGED <<m_xml, pElement, file>>

-----------------------------------------------------------------------------
(***************************************************************************)
(* Building                                                                *)
(***************************************************************************)
\* The document n with child linked at the end of the children of path.
RECURSIVE Linked(_, _, _)
Linked(n, path, child) ==
  IF path = <<>> THEN [n EXCEPT !.children = Append(@, child)]
  ELSE [n EXCEPT !.children[Head(path)] = Linked(@, Tail(path), child)]

RECURSIVE WithAttribute(_, _, _)
WithAttribute(n, path, a) ==
  IF path # <<>> THEN [n EXCEPT !.children[Head(path)] = WithAttribute(@, Tail(path), a)]
  ELSE LET i == SelectInSeq(n.attributes, LAMBDA b : b.name = a.name)
       IN  [n EXCEPT !.attributes = IF i = 0 THEN Append(@, a) ELSE ReplaceAt(@, i, a)]

Builds(n) == /\ ~ aborted
             /\ m_xml' = [m_xml EXCEPT !.node = n]
             /\ UNCHANGED <<pElement, file, aborted>>

addXmlRootElement(mark) == Builds(Linked(m_xml.node, <<>>, Node("element", mark, <<>>, <<>>)))
addXmlChildElement(path, mark) == Builds(Linked(m_xml.node, path, Node("element", mark, <<>>, <<>>)))
addElementValue(path, v) == Builds(Linked(m_xml.node, path, Node("text", v, <<>>, <<>>)))
addXmlComment(path, v) == Builds(Linked(m_xml.node, path, Node("comment", v, <<>>, <<>>)))
addXmlAttribute(path, name, v) ==
  Builds(WithAttribute(m_xml.node, path, [name |-> name, value |-> v]))
addXmlDeclaration(given) == Builds(Linked(m_xml.node, <<>>, Declaration(given)))
=============================================================================
