----------------------------- MODULE Deadlines -----------------------------
(***************************************************************************)
(* What the expire timer promises: time passes in rounds, in which every   *)
(* timer that is set either loses one interval or, with no time left,      *)
(* expires: once, and never after it was cleared.                          *)
(***************************************************************************)
EXTENDS Integers

CONSTANTS Names, Interval, Off

VARIABLES left,   (* the time left of each timer, or Off                     *)
          done    (* the timers that this round has been to                  *)

vars == <<left, done>>

Init == left = [k \in Names |-> Off] /\ done = {}

\* The timer gets any time.
SetTo(k) == left'[k] \in Int /\ left' = [left EXCEPT ![k] = left'[k]]

Set(k) == left[k] = Off /\ SetTo(k) /\ UNCHANGED done

\* Between two rounds.
Reset(k) == left[k] # Off /\ done = {} /\ SetTo(k) /\ UNCHANGED done

Clear(k) == /\ left[k] # Off /\ done = {}
            /\ left' = [left EXCEPT ![k] = Off]
            /\ UNCHANGED done

Tick(k) == /\ left[k] # Off /\ k \notin done /\ left[k] > 0
           /\ left' = [left EXCEPT ![k] = @ - Interval]
           /\ done' = done \cup {k}

Expire(k) == /\ left[k] # Off /\ k \notin done /\ left[k] <= 0
             /\ left' = [left EXCEPT ![k] = Off]
             /\ UNCHANGED done

EndRound == /\ \A k \in Names : left[k] # Off => k \in done
            /\ done' = {}
            /\ UNCHANGED left

Next == \/ \E k \in Names : \/ Set(k) \/ Reset(k) \/ Clear(k)
                            \/ Tick(k) \/ Expire(k)
        \/ EndRound

Spec == Init /\ [][Next]_vars
=============================================================================
