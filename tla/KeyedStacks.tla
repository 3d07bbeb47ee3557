----------------------------- MODULE KeyedStacks -----------------------------
(***************************************************************************)
(* What the plain hash table promises: whatever shares a bucket, the       *)
(* elements of one reference (a key, or a correlation id) form a list of   *)
(* their own, to which an element is added at the front or at the back and *)
(* from which lookups and removals take the front.                         *)
(***************************************************************************)
EXTENDS Selection, Functions

CONSTANTS References, Elements, Nobody

VARIABLES of,      (* the elements of each reference, first found first      *)
          result   (* what the last operation returned                       *)

vars == <<of, result>>

Init == of = [r \in References |-> <<>>] /\ result = "none"

Free(e) == \A r \in References : e \notin Range(of[r])

First(r) == IF of[r] = <<>> THEN Nobody ELSE of[r][1]

\* A new element gets one or more references, and is put in front of the elements
\* of each of them, or after them.
Put(e) == /\ Free(e)
          /\ DOMAIN of' = References
          /\ \/ \A r \in References : of'[r] \in {of[r], <<e>> \o of[r]}
             \/ \A r \in References : of'[r] \in {of[r], Append(of[r], e)}

Add(e) == result' = "added" /\ Put(e)

\* An addition that insists on being the only element of a reference.
AddUnique(e) == result' = "unique" /\ Put(e) /\ \E r \in References : of[r] = <<>> /\ of'[r] = <<e>>

Refuse(r) == result' = "duplicate" /\ of[r] # <<>> /\ UNCHANGED of

Fetch(r) == result' = First(r) /\ UNCHANGED of

Remove(r) == /\ result' = First(r)
             /\ of' = [s \in References |-> Selected(of[s], Elements \ {First(r)})]

\* The elements are iterated over.
Look == result' = "none" /\ UNCHANGED of

Next == \/ Look
        \/ \E e \in Elements : Add(e) \/ AddUnique(e)
        \/ \E r \in References : Refuse(r) \/ Fetch(r) \/ Remove(r)

Spec == Init /\ [][Next]_vars
=============================================================================
