----------------------------- MODULE ExpireTimer -----------------------------
(***************************************************************************)
(* Sdf_Timer (common/src/sdfexpiretimer.cpp): a table of timers under a    *)
(* mutex, a thread that counts them down, and callers that start, update   *)
(* and stop them.                                                          *)
(*                                                                         *)
(* The timer thread keeps the mutex while it goes through the table, one   *)
(* step per timer, for it calls the functions of the user there.  They     *)
(* must not call the timer again: the mutex is not recursive.  A method    *)
(* does everything under the mutex in one step, and startTime reads the    *)
(* element once more after it.  Null arguments are refused at once.        *)
(***************************************************************************)
EXTENDS Integers, FiniteSets

CONSTANTS Callers,
          Timers,       (* threads that run() creates; one is meant          *)
          Elements,     (* addresses of S_TimeElement; a bound               *)
          LastKey,      (* the keys are 1..LastKey, in the order of the map  *)
          interval,
          Times,        (* the times that callers give                       *)
          MaxUpdates,   (* a bound                                           *)
          None

Keys == 1..LastKey
End  == LastKey + 1

ASSUME TimerAssumption ==
  /\ LastKey \in Nat \ {0} /\ interval \in Nat \ {0}
  /\ Times \subseteq Int /\ MaxUpdates \in Nat
  /\ None \notin Elements \cup Timers /\ None \notin Int
  /\ Callers \cap Timers = {}

VARIABLES m_pExpTimerTabl,   (* the element of each key, or None             *)
          expireTime,        (* of the elements                              *)
          allocated,         (* the elements that are not freed              *)
          m_ExpTimerMutex,   (* held across steps by timer threads only      *)
          pc, it,            (* of the timer threads                         *)
          call,              (* what the callers do                          *)
          updates

table == <<m_pExpTimerTabl, expireTime, allocated>>
vars == <<table, m_ExpTimerMutex, pc, it, call, updates>>

NoCall == [op |-> "none", key |-> 0, element |-> None, time |-> 0]

Init == /\ m_pExpTimerTabl = [k \in Keys |-> None]
        /\ expireTime = [e \in Elements |-> 0]
        /\ allocated = {}
        /\ m_ExpTimerMutex = None
        /\ pc = [t \in Timers |-> "none"]
        /\ it = End
        /\ call = [c \in Callers |-> NoCall]
        /\ updates = 0

Started(k) == m_pExpTimerTabl[k] # None

-----------------------------------------------------------------------------
(***************************************************************************)
(* The timer thread                                                        *)
(***************************************************************************)
run(t) == /\ pc[t] = "none"
          /\ pc' = [pc EXCEPT ![t] = "lock"]
          /\ UNCHANGED <<table, m_ExpTimerMutex, it, call, updates>>

\* The map's first key after k, or its end.
Follows(k, j, tabl) == /\ j \in (k + 1)..End
                       /\ j # End => tabl[j] # None
                       /\ \A i \in (k + 1)..(j - 1) : tabl[i] = None

TimerLock(t) == /\ pc[t] = "lock" /\ m_ExpTimerMutex = None
                /\ m_ExpTimerMutex' = t
                /\ \E j \in 1..End : Follows(0, j, m_pExpTimerTabl) /\ it' = j
                /\ pc' = [pc EXCEPT ![t] = "sweep"]
                /\ UNCHANGED <<table, call, updates>>

Current == m_pExpTimerTabl[it]

\* Mutant: the iterator goes on after the element was erased and skips one.
TimeoutSkips(t) == /\ pc[t] = "sweep" /\ it # End /\ 0 >= expireTime[Current]
                   /\ allocated' = allocated \ {Current}
                   /\ m_pExpTimerTabl' = [m_pExpTimerTabl EXCEPT ![it] = None]
                   /\ \E j, l \in 1..End : /\ Follows(it, j, m_pExpTimerTabl)
                                           /\ IF j = End THEN l = End
                                              ELSE Follows(j, l, m_pExpTimerTabl)
                                           /\ it' = l
                   /\ UNCHANGED <<expireTime, m_ExpTimerMutex, pc, call, updates>>

\* Mutant: the element stays in the table.
TimeoutKeeps(t) == /\ pc[t] = "sweep" /\ it # End /\ 0 >= expireTime[Current]
                   /\ allocated' = allocated \ {Current}
                   /\ \E j \in 1..End : Follows(it, j, m_pExpTimerTabl) /\ it' = j
                   /\ UNCHANGED <<m_pExpTimerTabl, expireTime, m_ExpTimerMutex, pc, call, updates>>

\* timeoutFun gets the data, removeFun frees the element, and it leaves the table.
Timeout(t) == /\ pc[t] = "sweep" /\ it # End /\ 0 >= expireTime[Current]
              /\ allocated' = allocated \ {Current}
              /\ m_pExpTimerTabl' = [m_pExpTimerTabl EXCEPT ![it] = None]
              /\ \E j \in 1..End : Follows(it, j, m_pExpTimerTabl) /\ it' = j
              /\ UNCHANGED <<expireTime, m_ExpTimerMutex, pc, call, updates>>

\* Mutant: time does not pass.
CountDownNot(t) == /\ pc[t] = "sweep" /\ it # End /\ 0 < expireTime[Current]
                   /\ \E j \in 1..End : Follows(it, j, m_pExpTimerTabl) /\ it' = j
                   /\ UNCHANGED <<table, m_ExpTimerMutex, pc, call, updates>>

CountDown(t) == /\ pc[t] = "sweep" /\ it # End /\ 0 < expireTime[Current]
                /\ expireTime' = [expireTime EXCEPT ![Current] = @ - interval]
                /\ \E j \in 1..End : Follows(it, j, m_pExpTimerTabl) /\ it' = j
                /\ UNCHANGED <<m_pExpTimerTabl, allocated, m_ExpTimerMutex, pc, call, updates>>

TimerUnlock(t) == /\ pc[t] = "sweep" /\ it = End
                  /\ m_ExpTimerMutex' = None
                  /\ pc' = [pc EXCEPT ![t] = "lock"]
                  /\ UNCHANGED <<table, it, call, updates>>

TimerStep(t) == TimerLock(t) \/ Timeout(t) \/ CountDown(t) \/ TimerUnlock(t)

-----------------------------------------------------------------------------
(***************************************************************************)
(* The callers                                                             *)
(***************************************************************************)
\* A caller makes an element and hands it over with startTime.
BeginStart(c, e, k, time) ==
  /\ call[c] = NoCall /\ e \notin allocated
  /\ allocated' = allocated \cup {e}
  /\ expireTime' = [expireTime EXCEPT ![e] = time]
  /\ call' = [call EXCEPT ![c] = [op |-> "start", key |-> k, element |-> e, time |-> 0]]
  /\ UNCHANGED <<m_pExpTimerTabl, m_ExpTimerMutex, pc, it, updates>>

\* Bound: MaxUpdates.
BeginUpdate(c, k, time) ==
  /\ call[c] = NoCall /\ updates < MaxUpdates
  /\ updates' = updates + 1
  /\ call' = [call EXCEPT ![c] = [op |-> "update", key |-> k, element |-> None, time |-> time]]
  /\ UNCHANGED <<table, m_ExpTimerMutex, pc, it>>

BeginStop(c, k) ==
  /\ call[c] = NoCall
  /\ call' = [call EXCEPT ![c] = [op |-> "stop", key |-> k, element |-> None, time |-> 0]]
  /\ UNCHANGED <<table, m_ExpTimerMutex, pc, it, updates>>

\* A caller that has found the mutex free is in the method op.
Entered(c, op) == /\ call[c].op = op /\ m_ExpTimerMutex = None
                  /\ UNCHANGED <<m_ExpTimerMutex, pc, it, updates>>

Return(c) == call' = [call EXCEPT ![c] = NoCall]

\* The key is taken: the element remains the caller's, which frees it.
startTimeFails(c) == /\ Entered(c, "start") /\ Started(call[c].key)
                     /\ allocated' = allocated \ {call[c].element}
                     /\ UNCHANGED <<m_pExpTimerTabl, expireTime>>
                     /\ Return(c)

\* From here on the element is the table's.
startTime(c) == /\ Entered(c, "start") /\ ~ Started(call[c].key)
                /\ m_pExpTimerTabl' = [m_pExpTimerTabl EXCEPT ![call[c].key] = call[c].element]
                /\ call' = [call EXCEPT ![c] = [NoCall EXCEPT !.op = "log"]]
                /\ UNCHANGED <<expireTime, allocated>>

\* The log line reads the element's time, after the unlock; the element may be gone,
\* and the address in use again.  What it reads is written to the log only.
startTimeLog(c) == /\ call[c].op = "log"
                   /\ Return(c)
                   /\ UNCHANGED <<table, m_ExpTimerMutex, pc, it, updates>>

updateTime(c) ==
  /\ Entered(c, "update")
  /\ expireTime' = IF Started(call[c].key)
                   THEN [expireTime EXCEPT ![m_pExpTimerTabl[call[c].key]] = call[c].time]
                   ELSE expireTime
  /\ UNCHANGED <<m_pExpTimerTabl, allocated>>
  /\ Return(c)

stopTime(c) ==
  /\ Entered(c, "stop")
  /\ allocated' = allocated \ {m_pExpTimerTabl[call[c].key]}
  /\ m_pExpTimerTabl' = [m_pExpTimerTabl EXCEPT ![call[c].key] = None]
  /\ UNCHANGED expireTime
  /\ Return(c)

Caller(c) == \/ \E k \in Keys : \/ \E time \in Times : \/ \E e \in Elements : BeginStart(c, e, k, time)
                                                       \/ BeginUpdate(c, k, time)
                                \/ BeginStop(c, k)
             \/ startTimeFails(c) \/ startTime(c) \/ startTimeLog(c) \/ updateTime(c) \/ stopTime(c)

Next == (\E t \in Timers : run(t) \/ TimerStep(t)) \/ (\E c \in Callers : Caller(c))

\* A timer thread that can go on does; nothing is assumed of the callers.
Fairness == WF_vars(\E t \in Timers : TimerStep(t))

Safety == Init /\ [][Next]_vars
Spec   == Safety /\ Fairness
-----------------------------------------------------------------------------
TypeOK == /\ m_pExpTimerTabl \in [Keys -> Elements \cup {None}]
          /\ expireTime \in [Elements -> Int]
          /\ allocated \in SUBSET Elements
          /\ m_ExpTimerMutex \in Timers \cup {None}
          /\ pc \in [Timers -> {"none", "lock", "sweep"}]
          /\ it \in 1..End
          /\ call \in [Callers -> [op : {"none", "start", "log", "update", "stop"},
                                   key : Keys \cup {0}, element : Elements \cup {None}, time : Int]]
          /\ updates \in 0..MaxUpdates

\* The mutex is held by the thread that goes through the table; between rounds the
\* iterator is at the end, and in a round it stands on an element.
OneSweeper ==
  /\ \A t \in Timers : pc[t] = "sweep" <=> m_ExpTimerMutex = t
  /\ m_ExpTimerMutex = None => it = End
  /\ it # End => Started(it)

\* Every element in the table is allocated, is there under one key, and is not also
\* a caller's; what a caller is about to start is its own.  So an element is freed
\* once, by the timeout, by stopTime, or by the caller whose startTime failed.
ElementsOwned ==
  /\ \A k \in Keys : Started(k) => m_pExpTimerTabl[k] \in allocated
  /\ \A j, k \in Keys : Started(j) /\ m_pExpTimerTabl[j] = m_pExpTimerTabl[k] => j = k
  /\ \A c \in Callers : call[c].op \in {"start", "update", "stop"} => call[c].key \in Keys
  /\ \A c \in Callers : call[c].op = "start" =>
       /\ call[c].element \in allocated
       /\ \A k \in Keys : m_pExpTimerTabl[k] # call[c].element
       /\ \A d \in Callers \ {c} : call[d].op = "start" => call[d].element # call[c].element

\* Nothing leaks: an allocated element is in the table or about to be started.
NothingLeaks ==
  \A e \in allocated : \/ \E k \in Keys : m_pExpTimerTabl[k] = e
                       \/ \E c \in Callers : call[c].op = "start" /\ call[c].element = e

TimersAreSound == TypeOK /\ OneSweeper /\ ElementsOwned /\ NothingLeaks

\* The timers expire as their deadlines say: an interval is taken off once per round,
\* the timeout is called in the first round that finds no time left, once, and not
\* after stopTime has returned or updateTime has given the timer more time.
D == INSTANCE Deadlines
       WITH Names <- Keys, Interval <- interval, Off <- None,
            left <- [k \in Keys |-> IF Started(k) THEN expireTime[m_pExpTimerTabl[k]] ELSE None],
            done <- {k \in Keys : Started(k) /\ m_ExpTimerMutex # None /\ k < it}

ImplementsDeadlines == D!Spec

\* With a timer thread every timer ends, when it expires or before, for as long as
\* nobody gives it more time again and again.
TimersExpire ==
  \A k \in Keys : (Started(k) /\ \E t \in Timers : pc[t] # "none") ~> ~ Started(k)
=============================================================================
