------------------------------- MODULE XmlText -------------------------------
(***************************************************************************)
(* TinyXML's parser and printers (xml/src/tinyxmlparser.cpp, tinyxml.cpp)  *)
(* as functions from texts to nodes and back.                              *)
(*                                                                         *)
(* A text is a sequence of symbols: punctuation, the blank, words, the     *)
(* five entities, and what follows the ampersand of a character reference. *)
(* A word is the unit of names and values.  Positions are pointers: 0 is   *)
(* null, and the one after the last symbol is at the terminating zero.  Of *)
(* an error only that there is one is kept, of white space only that it is *)
(* there, of the character references one, hexadecimal and complete;       *)
(* encodings are left out.                                                 *)
(***************************************************************************)
EXTENDS Naturals, Sequences, SequencesExt

CONSTANTS Words       (* they begin with a letter, as names must             *)

Specials == <<"&", "<", ">", "\"", "'">>
Entities == <<"&amp;", "&lt;", "&gt;", "&quot;", "&apos;">>

\* A symbol of a text as a value has it.  An ampersand that begins no entity is
\* lost: GetEntity leaves its length at zero.
Decoded(s) == IF Contains(Entities, s) THEN <<Specials[SelectInSeq(Entities, LAMBDA e : e = s)]>>
              ELSE IF s = "&" THEN <<>> ELSE <<s>>

\* What is between the '&' and the ';' of the reference, with the ';', and its character.
Hexadecimal == "#x61;"
Referenced == "a"
IsReference(s, i) == i \in 1..(Len(s) - 1) /\ s[i] = "&" /\ s[i + 1] = Hexadecimal

\* What the symbol of a text at i adds to a value.
DecodedAt(s, i) == IF IsReference(s, i) THEN <<Referenced>>
                   ELSE IF IsReference(s, i - 1) THEN <<>> ELSE Decoded(s[i])

\* A symbol of a value as a text has it.  A reference is passed through unchanged.
Encoded(s) == IF Contains(Specials, s) THEN Entities[SelectInSeq(Specials, LAMBDA c : c = s)] ELSE s
EncodeString(v) == [i \in 1..Len(v) |-> IF IsReference(v, i) THEN v[i] ELSE Encoded(v[i])]

\* What is copied as it is has an entity as an ampersand and a name.
EntityNames == <<"amp;", "lt;", "gt;", "quot;", "apos;">>
Copied(v) ==
  FlattenSeq([i \in 1..Len(v) |->
                IF Contains(Entities, v[i])
                THEN <<"&", EntityNames[SelectInSeq(Entities, LAMBDA e : e = v[i])]>>
                ELSE <<v[i]>>])

-----------------------------------------------------------------------------
(***************************************************************************)
(* Reading                                                                 *)
(***************************************************************************)
At(t, p) == IF p \in 1..Len(t) THEN t[p] ELSE ""
Ended(t, p) == At(t, p) = ""
StringEqual(t, p, s) == p + Len(s) <= Len(t) + 1 /\ SubSeq(t, p, p + Len(s) - 1) = s

\* The first position from p on where Stop is true, or the end.
Until(t, p, Stop(_)) ==
  CHOOSE q \in p..(Len(t) + 1) : /\ q = Len(t) + 1 \/ Stop(q)
                                 /\ \A r \in p..(q - 1) : ~ Stop(r)

SkipWhiteSpace(t, p) == IF Ended(t, p) THEN 0 ELSE Until(t, p, LAMBDA q : t[q] # " ")

\* Names begin with a letter; the position is null if there is none.
NameEnd(t, p) == IF At(t, p) \in Words
                 THEN Until(t, p, LAMBDA q : t[q] \notin Words \cup {"-"}) ELSE 0
Name(t, p) == SubSeq(t, p, NameEnd(t, p) - 1)

AllDecoded(s) == FlattenSeq([i \in 1..Len(s) |-> DecodedAt(s, i)])

\* The same with white space condensed: none at the ends, one blank between words.
Condensed(s) ==
  FoldLeft(LAMBDA acc, i : IF s[i] = " " THEN [acc EXCEPT !.white = TRUE]
                           ELSE [text |-> acc.text \o (IF acc.white THEN <<" ">> ELSE <<>>) \o DecodedAt(s, i),
                                 white |-> FALSE],
           [text |-> <<>>, white |-> FALSE], [i \in 1..Len(s) |-> i]).text

\* The text from p to the end tag; the position after that, null if nothing follows.
ReadText(t, p, trim, end) ==
  LET start == IF trim THEN SkipWhiteSpace(t, p) ELSE p
      stop == Until(t, start, LAMBDA q : StringEqual(t, q, end))
      raw == SubSeq(t, start, stop - 1)
  IN  IF Ended(t, start) THEN [p |-> 0, text |-> <<>>]
      ELSE [p |-> IF Ended(t, stop) \/ Ended(t, stop + Len(end)) THEN 0 ELSE stop + Len(end),
            text |-> IF trim THEN Condensed(raw) ELSE AllDecoded(raw)]

Node(type, value, attributes, children) ==
  [type |-> type, value |-> value, attributes |-> attributes, children |-> children]

\* A parsed node, the position after it, whether an error was set, and whether an
\* assertion failed on the way.
Parsed(p, node, error, failed) == [p |-> p, node |-> node, error |-> error, failed |-> failed]

Cdata == <<"<", "!", "[", "CDATA", "[">>

ParseText(t, p) ==
  IF StringEqual(t, p, Cdata)
  THEN LET start == p + Len(Cdata)
           stop == Until(t, start, LAMBDA q : StringEqual(t, q, <<"]", "]", ">">>))
       IN  Parsed(ReadText(t, stop, FALSE, <<"]", "]", ">">>).p,
                  Node("cdata", SubSeq(t, start, stop - 1), <<>>, <<>>), FALSE, FALSE)
  ELSE LET r == ReadText(t, p, TRUE, <<"<">>)
       IN  Parsed(IF r.p = 0 THEN 0 ELSE r.p - 1, Node("text", r.text, <<>>, <<>>), FALSE, FALSE)

Blank(v) == \A i \in 1..Len(v) : v[i] = " "

\* A comment that does not end is no error.
ParseComment(t, p) ==
  LET stop == Until(t, p + 4, LAMBDA q : StringEqual(t, q, <<"-", "-", ">">>))
  IN  Parsed(IF Ended(t, stop) THEN stop ELSE stop + 3,
             Node("comment", SubSeq(t, p + 4, stop - 1), <<>>, <<>>), FALSE, FALSE)

ParseUnknown(t, p) ==
  LET stop == Until(t, p + 1, LAMBDA q : t[q] = ">")
  IN  Parsed(IF Ended(t, stop) THEN stop ELSE stop + 1,
             Node("unknown", SubSeq(t, p + 1, stop - 1), <<>>, <<>>), FALSE, FALSE)

-----------------------------------------------------------------------------
NoAttribute == [p |-> 0, name |-> <<>>, value |-> <<>>]

\* Name, '=' and a value, in quotes or not.
ParseAttribute(t, q) ==
  LET p == SkipWhiteSpace(t, q)
      equals == SkipWhiteSpace(t, NameEnd(t, p))
      start == SkipWhiteSpace(t, equals + 1)
      quoted == ReadText(t, start + 1, FALSE, <<At(t, start)>>)
      stop == Until(t, start, LAMBDA i : t[i] \in {" ", "/", ">", "\"", "'"})
  IN  IF At(t, equals) # "=" \/ Ended(t, start) THEN NoAttribute
      ELSE IF At(t, start) \in {"\"", "'"}
      THEN [p |-> quoted.p, name |-> Name(t, p), value |-> quoted.text]
      ELSE IF At(t, stop) \in {"\"", "'"}
      THEN [NoAttribute EXCEPT !.value = SubSeq(t, start, stop - 1)]
      ELSE [p |-> stop, name |-> Name(t, p), value |-> Copied(SubSeq(t, start, stop - 1))]

DeclarationNames == <<"version", "encoding", "standalone">>

\* The attributes that are not empty, in the order in which they are printed.
Declaration(given) ==
  Node("declaration", <<>>,
       [i \in 1..Len(SelectSeq(DeclarationNames, LAMBDA w : given[w] # <<>>)) |->
          LET w == SelectSeq(DeclarationNames, LAMBDA x : given[x] # <<>>)[i]
          IN  [name |-> <<w>>, value |-> given[w]]], <<>>)

RECURSIVE DeclarationFrom(_, _, _)

\* What is no attribute is read over.  If the text ends after a blank, StringEqual is
\* called at its end and fails its assertion.
DeclarationFrom(t, p, given) ==
  LET q == SkipWhiteSpace(t, p)
      attribute == ParseAttribute(t, q)
  IN  IF Ended(t, p) THEN Parsed(0, Declaration(given), FALSE, FALSE)
      ELSE IF At(t, p) = ">" THEN Parsed(p + 1, Declaration(given), FALSE, FALSE)
      ELSE IF Ended(t, q) THEN Parsed(0, Declaration(given), FALSE, TRUE)
      ELSE IF Contains(DeclarationNames, t[q])
      THEN DeclarationFrom(t, attribute.p, [given EXCEPT ![t[q]] = attribute.value])
      ELSE DeclarationFrom(t, Until(t, q, LAMBDA i : t[i] \in {">", " "}), given)

ParseDeclaration(t, p) ==
  DeclarationFrom(t, p + 3, [w \in {DeclarationNames[i] : i \in 1..3} |-> <<>>])

-----------------------------------------------------------------------------
RECURSIVE ParseTag(_, _, _), ReadValue(_, _), Parse(_, _)

\* Mutant: the element is given up and no error is set.
FailedQuietly(element) == Parsed(0, element, FALSE, FALSE)

\* A tag that cannot be read is an error, and nothing after it is read.
Failed(element) == Parsed(0, element, TRUE, FALSE)

\* The end tag of the element is at p.
Ends(t, p, element) == StringEqual(t, p, <<"<", "/">> \o element.value)

\* The content is followed by the end tag of the element.
CloseElement(t, content, element) ==
  LET close == SkipWhiteSpace(t, content.p + 2 + Len(element.value))
  IN  IF Ended(t, content.p) \/ ~ Ends(t, content.p, element) \/ At(t, close) # ">"
      THEN [content EXCEPT !.p = 0, !.error = TRUE]
      ELSE [content EXCEPT !.p = close + 1]

\* The attribute is the last of the element.
WithAttributeRead(element, attribute) ==
  [element EXCEPT !.attributes = Append(@, [name |-> attribute.name, value |-> attribute.value])]

\* An attribute that cannot be read, or is there already, is an error.
TakeAttribute(t, element, attribute) ==
  IF Ended(t, attribute.p) \/ \E i \in DOMAIN element.attributes : element.attributes[i].name = attribute.name
  THEN Failed(element)
  ELSE ParseTag(t, attribute.p, WithAttributeRead(element, attribute))

\* The attributes and what follows them: the content and the end tag after '>'.
ParseTag(t, p, element) ==
  LET q == SkipWhiteSpace(t, p)
  IN  IF At(t, q) = "/"
      THEN IF At(t, q + 1) = ">" THEN Parsed(q + 2, element, FALSE, FALSE) ELSE Failed(element)
      ELSE IF At(t, q) = ">"
      THEN CloseElement(t, ReadValue(t, Parsed(q + 1, element, FALSE, FALSE)), element)
      ELSE IF Ended(t, q) THEN Failed(element)
      ELSE TakeAttribute(t, element, ParseAttribute(t, q))

ParseElement(t, p) ==
  LET element == Node("element", Name(t, p + 1), <<>>, <<>>)
  IN  IF Ended(t, NameEnd(t, p + 1)) THEN Failed(element) ELSE ParseTag(t, NameEnd(t, p + 1), element)

\* The child is linked at the end, unless it is a blank text.
WithChild(so_far, child) ==
  [so_far EXCEPT !.node.children = IF child.node.type = "text" /\ Blank(child.node.value)
                                   THEN @ ELSE Append(@, child.node),
                 !.p = child.p, !.error = @ \/ child.error, !.failed = @ \/ child.failed]

\* The texts and nodes from so_far.p up to an end tag become children of the node.
ReadValue(t, so_far) ==
  LET q == SkipWhiteSpace(t, so_far.p)
  IN  IF Ended(t, q) THEN [so_far EXCEPT !.p = q, !.error = @ \/ q = 0]
      ELSE IF StringEqual(t, q, <<"<", "/">>) THEN [so_far EXCEPT !.p = q]
      ELSE ReadValue(t, WithChild(so_far, IF At(t, q) = "<" THEN Parse(t, q) ELSE ParseText(t, q)))

\* Identify says what begins at p, where there is a '<', and its Parse reads it.
Parse(t, p) ==
  IF StringEqual(t, p, <<"<", "?", "xml">>) THEN ParseDeclaration(t, p)
  ELSE IF StringEqual(t, p, <<"<", "!", "-", "-">>) THEN ParseComment(t, p)
  ELSE IF StringEqual(t, p, Cdata) THEN ParseText(t, p)
  ELSE IF At(t, p + 1) \in Words THEN ParseElement(t, p)
  ELSE ParseUnknown(t, p)

RECURSIVE ParseNodes(_, _)

\* The nodes of a document, up to something that is no node.
ParseNodes(t, so_far) ==
  LET q == SkipWhiteSpace(t, so_far.p)
  IN  IF At(t, q) # "<" THEN [so_far EXCEPT !.p = q]
      ELSE ParseNodes(t, WithChild(so_far, Parse(t, q)))

Document(children) == Node("document", <<>>, <<>>, children)

\* A document without a node is an error.
OrEmpty(r) == [r EXCEPT !.error = @ \/ r.node.children = <<>>]

\* TiXmlDocument::Parse adds to the document that is there.
ParseDocument(t, document) == OrEmpty(ParseNodes(t, Parsed(1, document, t = <<>>, FALSE)))

-----------------------------------------------------------------------------
(***************************************************************************)
(* Printing                                                                *)
(***************************************************************************)
Quote(v) == IF Contains(v, "\"") THEN "'" ELSE "\""

\* Mutant: the value is written as it is.
PrintAttributeRaw(a) == a.name \o <<"=", Quote(a.value)>> \o a.value \o <<Quote(a.value)>>

PrintAttribute(a) == a.name \o <<"=", Quote(a.value)>> \o EncodeString(a.value) \o <<Quote(a.value)>>

PrintAttributes(list) == FlattenSeq([i \in 1..Len(list) |-> <<" ">> \o PrintAttribute(list[i])])

\* A declaration's values are written as they are.
PrintDeclaration(n) ==
  <<"<", "?", "xml", " ">>
  \o FlattenSeq([i \in 1..Len(n.attributes) |->
                   n.attributes[i].name \o <<"=", "\"">> \o n.attributes[i].value \o <<"\"", " ">>])
  \o <<"?", ">">>

Leaf(n) == CASE n.type = "comment" -> <<"<", "!", "-", "-">> \o n.value \o <<"-", "-", ">">>
             [] n.type = "unknown" -> <<"<">> \o n.value \o <<">">>
             [] n.type = "declaration" -> PrintDeclaration(n)
             [] n.type = "cdata" -> Cdata \o n.value \o <<"]", "]", ">">>
             [] n.type = "text" -> EncodeString(n.value)

IsText(n) == n.type \in {"text", "cdata"}
StartTag(n) == <<"<">> \o n.value \o PrintAttributes(n.attributes)
EndTag(n) == <<"<", "/">> \o n.value \o <<">">>
Simple(n) == Len(n.children) = 1 /\ IsText(n.children[1])

RECURSIVE FilePrint(_), Visit(_)

\* To a file: a line for each child that is no text.
FilePrint(n) ==
  IF n.type = "document"
  THEN FlattenSeq([i \in 1..Len(n.children) |-> FilePrint(n.children[i]) \o <<" ">>])
  ELSE IF n.type = "cdata" THEN <<" ">> \o Leaf(n) \o <<" ">>
  ELSE IF n.type # "element" THEN Leaf(n)
  ELSE IF n.children = <<>> THEN StartTag(n) \o <<" ", "/", ">">>
  ELSE IF Simple(n) THEN StartTag(n) \o <<">">> \o FilePrint(n.children[1]) \o EndTag(n)
  ELSE StartTag(n) \o <<">">>
       \o FlattenSeq([i \in 1..Len(n.children) |->
                        (IF IsText(n.children[i]) THEN <<>> ELSE <<" ">>) \o FilePrint(n.children[i])])
       \o <<" ">> \o EndTag(n)

\* To a string, with TiXmlPrinter: a line for each child, but for a single text.
Visit(n) ==
  LET children == FlattenSeq([i \in 1..Len(n.children) |-> Visit(n.children[i])])
  IN  IF n.type = "document" THEN children
      ELSE IF n.type # "element" THEN <<" ">> \o Leaf(n) \o <<" ">>
      ELSE <<" ">> \o StartTag(n)
           \o (IF n.children = <<>> THEN <<" ", "/", ">">>
               ELSE IF Simple(n) /\ n.children[1].type = "text"
               THEN <<">">> \o Leaf(n.children[1]) \o EndTag(n)
               ELSE <<">", " ">> \o children \o <<" ">> \o EndTag(n))
           \o <<" ">>
=============================================================================
