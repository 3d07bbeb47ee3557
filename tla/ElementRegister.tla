-------------------------- MODULE ElementRegister --------------------------
(***************************************************************************)
(* What the thread-safe hash promises to threads that fetch elements: the  *)
(* operations are atomic, an element that somebody has fetched stays, and  *)
(* two threads never have exclusive access to one element.                 *)
(***************************************************************************)
CONSTANTS Holders, Elements, Nobody

VARIABLES entries,  (* the elements in the table                             *)
          fetched,  (* the element each thread has fetched, or Nobody        *)
          locked    (* the one it has fetched exclusively, or Nobody         *)

vars == <<entries, fetched, locked>>

Init == /\ entries = {}
        /\ fetched = [h \in Holders |-> Nobody]
        /\ locked  = [h \in Holders |-> Nobody]

Add(e) == /\ e \notin entries
          /\ entries' = entries \cup {e}
          /\ UNCHANGED <<fetched, locked>>

Remove(e) == /\ e \in entries
             /\ \A h \in Holders : fetched[h] # e /\ locked[h] # e
             /\ entries' = entries \ {e}
             /\ UNCHANGED <<fetched, locked>>

\* A thread that has an element exclusively keeps the others from fetching it.
Unlocked(e) == \A h \in Holders : locked[h] # e

Fetch(h, e) == /\ e \in entries /\ fetched[h] = Nobody /\ Unlocked(e)
               /\ fetched' = [fetched EXCEPT ![h] = e]
               /\ UNCHANGED <<entries, locked>>

Release(h) == /\ fetched[h] # Nobody /\ Unlocked(fetched[h])
              /\ fetched' = [fetched EXCEPT ![h] = Nobody]
              /\ UNCHANGED <<entries, locked>>

FetchExclusively(h, e) == /\ e \in entries /\ locked[h] = Nobody /\ Unlocked(e)
                          /\ locked' = [locked EXCEPT ![h] = e]
                          /\ UNCHANGED <<entries, fetched>>

ReleaseExclusively(h) == /\ locked[h] # Nobody
                         /\ locked' = [locked EXCEPT ![h] = Nobody]
                         /\ UNCHANGED <<entries, fetched>>

\* The table is emptied, and may be used again.
Clear == /\ \A h \in Holders : fetched[h] = Nobody /\ locked[h] = Nobody
         /\ entries' = {}
         /\ UNCHANGED <<fetched, locked>>

Next == \/ \E e \in Elements : \/ Add(e) \/ Remove(e)
                               \/ \E h \in Holders : Fetch(h, e) \/ FetchExclusively(h, e)
        \/ \E h \in Holders : Release(h) \/ ReleaseExclusively(h)
        \/ Clear

Spec == Init /\ [][Next]_vars
=============================================================================
