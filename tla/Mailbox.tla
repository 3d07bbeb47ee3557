------------------------------ MODULE Mailbox ------------------------------
(***************************************************************************)
(* What the message queue promises to its users, with no mutex, condition  *)
(* variable or order: a message that was put is pending until one reader   *)
(* gets it, and that reader alone has it until it lets go of it.           *)
(***************************************************************************)
CONSTANTS Readers, Values, Nothing

VARIABLES pending,  (* messages put and not yet given to a reader            *)
          held      (* the message each reader has, or Nothing               *)

vars == <<pending, held>>

Init == /\ pending = {}
        /\ held = [r \in Readers |-> Nothing]

Put(v) == /\ v \notin pending
          /\ \A r \in Readers : held[r] # v
          /\ pending' = pending \cup {v}
          /\ UNCHANGED held

Get(r, v) == /\ held[r] = Nothing
             /\ v \in pending
             /\ pending' = pending \ {v}
             /\ held' = [held EXCEPT ![r] = v]

Release(r) == /\ held[r] # Nothing
              /\ held' = [held EXCEPT ![r] = Nothing]
              /\ UNCHANGED pending

Next == \/ \E v \in Values : Put(v)
        \/ \E r \in Readers : Release(r) \/ \E v \in Values : Get(r, v)

Spec == Init /\ [][Next]_vars
=============================================================================
