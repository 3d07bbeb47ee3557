----------------------------- MODULE MCXmlFiles -----------------------------
(***************************************************************************)
(* Files of XML for TLC: two names, and values with nothing to encode,     *)
(* with something, and with a character reference.                         *)
(***************************************************************************)
EXTENDS XmlFiles

MarksValue == {<<"a">>, <<"b">>}
ContentsValue == {<<"a">>, <<"<", " ", "&">>, <<"&", "#x61;">>}
=============================================================================
