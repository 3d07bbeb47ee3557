----------------------------- MODULE MCXmlTree -----------------------------
(***************************************************************************)
(* The document object model for TLC: the addresses are interchangeable.   *)
(***************************************************************************)
EXTENDS XmlTree, TLC

Symmetry == Permutations(Nodes)

\* Bound: only elements without an attribute have a value other than "a".
FewLabels == \A n \in Nodes : node[n].type = "text" \/ node[n].attributes # <<>> => node[n].value = "a"
=============================================================================
