------------------------------ MODULE Selection ------------------------------
(***************************************************************************)
(* The members of a set in a sequence, in the order of the sequence.       *)
(***************************************************************************)
EXTENDS Integers, Sequences

Selected(s, S) ==
  LET upTo[i \in 0..Len(s)] == IF i = 0 THEN <<>>
                               ELSE IF s[i] \in S THEN Append(upTo[i - 1], s[i])
                               ELSE upTo[i - 1]
  IN  upTo[Len(s)]
=============================================================================
