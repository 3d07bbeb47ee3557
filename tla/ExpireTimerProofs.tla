-------------------------- MODULE ExpireTimerProofs --------------------------
(***************************************************************************)
(* Proofs about the expire timer, for any number of callers, timer threads,*)
(* keys and elements: its invariant, which is inductive as it stands, and  *)
(* that it implements the deadlines.                                       *)
(***************************************************************************)
EXTENDS ExpireTimer, TLAPS

LEMMA KeysAreBeforeEnd ==
  /\ Keys \subseteq Nat /\ End \in Nat /\ End \notin Keys
  /\ 1..End = Keys \cup {End}
  /\ \A k \in Keys : k < End
BY TimerAssumption DEF Keys, End

LEMMA InitSound == Init => TimersAreSound
<1> SUFFICES ASSUME Init PROVE TimersAreSound
  OBVIOUS
<1> USE TimerAssumption, KeysAreBeforeEnd DEF Init, NoCall
<1>1. TypeOK
  BY DEF TypeOK
<1>2. OneSweeper
  BY DEF OneSweeper
<1>3. ElementsOwned /\ NothingLeaks
  BY DEF ElementsOwned, NothingLeaks, Started
<1> QED BY <1>1, <1>2, <1>3 DEF TimersAreSound

-----------------------------------------------------------------------------
(***************************************************************************)
(* The timer thread                                                        *)
(***************************************************************************)
LEMMA RunSound ==
  ASSUME TimersAreSound, NEW t \in Timers, run(t)
  PROVE  TimersAreSound'
<1> USE DEF TimersAreSound, run, table
<1>1. TypeOK'
  BY DEF TypeOK
<1>2. OneSweeper'
  BY DEF OneSweeper, TypeOK, Started
<1>3. ElementsOwned' /\ NothingLeaks'
  BY DEF ElementsOwned, NothingLeaks, Started
<1> QED BY <1>1, <1>2, <1>3

LEMMA LockSound ==
  ASSUME TimersAreSound, NEW t \in Timers, TimerLock(t)
  PROVE  TimersAreSound'
<1> USE TimerAssumption, KeysAreBeforeEnd DEF TimersAreSound, TimerLock, table
<1>1. TypeOK'
  BY DEF TypeOK
<1>2. OneSweeper'
  BY DEF OneSweeper, TypeOK, Started, Follows
<1>3. ElementsOwned' /\ NothingLeaks'
  BY DEF ElementsOwned, NothingLeaks, Started
<1> QED BY <1>1, <1>2, <1>3

LEMMA TimeoutSound ==
  ASSUME TimersAreSound, NEW t \in Timers, Timeout(t)
  PROVE  TimersAreSound'
<1> USE TimerAssumption, KeysAreBeforeEnd DEF TimersAreSound, Timeout
<1>1. it \in Keys /\ Started(it) /\ Current \in Elements
  BY DEF TypeOK, OneSweeper, Started, Current
<1>2. TypeOK'
  BY DEF TypeOK
<1>3. OneSweeper'
  BY <1>1 DEF OneSweeper, TypeOK, Started, Follows
<1>4. \A k \in Keys : m_pExpTimerTabl'[k] = IF k = it THEN None ELSE m_pExpTimerTabl[k]
  BY DEF TypeOK
<1>5. \A k \in Keys : k # it /\ Started(k) => m_pExpTimerTabl[k] # Current
  BY <1>1 DEF ElementsOwned, Current, Started
<1>6. \A c \in Callers : call[c].op = "start" => call[c].element # Current
  BY <1>1 DEF ElementsOwned, Current
<1>7. ElementsOwned'
  <2>1. \A k \in Keys : Started(k)' => m_pExpTimerTabl'[k] \in allocated'
    BY <1>4, <1>5 DEF ElementsOwned, Started
  <2>2. \A j, k \in Keys : Started(j)' /\ m_pExpTimerTabl'[j] = m_pExpTimerTabl'[k] => j = k
    BY <1>4 DEF ElementsOwned, Started
  <2>3. \A c \in Callers : call[c].op = "start" =>
          /\ call[c].element \in allocated'
          /\ \A k \in Keys : m_pExpTimerTabl'[k] # call[c].element
    <3> SUFFICES ASSUME NEW c \in Callers, call[c].op = "start"
                 PROVE  /\ call[c].element \in allocated'
                        /\ \A k \in Keys : m_pExpTimerTabl'[k] # call[c].element
      OBVIOUS
    <3>1. call[c].element \in allocated /\ call[c].element # None
      BY DEF ElementsOwned, TypeOK
    <3> QED BY <1>4, <1>6, <3>1 DEF ElementsOwned
  <2> QED BY <2>1, <2>2, <2>3 DEF ElementsOwned
<1>8. NothingLeaks'
  BY <1>1, <1>4 DEF NothingLeaks, Current
<1> QED BY <1>2, <1>3, <1>7, <1>8

LEMMA CountDownSound ==
  ASSUME TimersAreSound, NEW t \in Timers, CountDown(t)
  PROVE  TimersAreSound'
<1> USE TimerAssumption, KeysAreBeforeEnd DEF TimersAreSound, CountDown
<1>1. it \in Keys /\ Current \in Elements
  BY DEF TypeOK, OneSweeper, Started, Current
<1>2. TypeOK'
  BY <1>1 DEF TypeOK
<1>3. OneSweeper'
  BY <1>1 DEF OneSweeper, TypeOK, Started, Follows
<1>4. ElementsOwned' /\ NothingLeaks'
  BY DEF ElementsOwned, NothingLeaks, Started
<1> QED BY <1>2, <1>3, <1>4

LEMMA UnlockSound ==
  ASSUME TimersAreSound, NEW t \in Timers, TimerUnlock(t)
  PROVE  TimersAreSound'
<1> USE TimerAssumption DEF TimersAreSound, TimerUnlock, table
<1>1. TypeOK'
  BY DEF TypeOK
<1>2. OneSweeper'
  BY DEF OneSweeper, TypeOK, Started
<1>3. ElementsOwned' /\ NothingLeaks'
  BY DEF ElementsOwned, NothingLeaks, Started
<1> QED BY <1>1, <1>2, <1>3

-----------------------------------------------------------------------------
(***************************************************************************)
(* The callers                                                             *)
(***************************************************************************)
LEMMA BeginStartSound ==
  ASSUME TimersAreSound, NEW c \in Callers, NEW e \in Elements, NEW k \in Keys,
         NEW time \in Times, BeginStart(c, e, k, time)
  PROVE  TimersAreSound'
<1> USE TimerAssumption DEF TimersAreSound, BeginStart
<1>1. TypeOK'
  BY DEF TypeOK
<1>2. OneSweeper'
  BY DEF OneSweeper, Started
<1>3. \A d \in Callers : call'[d] = IF d = c THEN [op |-> "start", key |-> k, element |-> e, time |-> 0]
                                    ELSE call[d]
  BY DEF TypeOK
<1>4. \A j \in Keys : m_pExpTimerTabl[j] # e
  BY DEF ElementsOwned, Started, TypeOK
<1>5. \A d \in Callers : call[d].op = "start" => call[d].element # e
  BY DEF ElementsOwned
<1>6. ElementsOwned'
  BY <1>3, <1>4, <1>5 DEF ElementsOwned, Started, NoCall
<1>7. NothingLeaks'
  BY <1>3 DEF NothingLeaks, NoCall
<1> QED BY <1>1, <1>2, <1>6, <1>7

\* A call is begun, or ends, that has no element.
LEMMA CallSound ==
  ASSUME TimersAreSound, UNCHANGED <<table, m_ExpTimerMutex, pc, it>>, TypeOK',
         NEW c \in Callers, call[c].op # "start",
         \A d \in Callers \ {c} : call'[d] = call[d],
         call'[c].op # "start", call'[c].op \in {"update", "stop"} => call'[c].key \in Keys
  PROVE  TimersAreSound'
<1> USE DEF TimersAreSound, table
<1>1. OneSweeper'
  BY DEF OneSweeper, Started
<1>2. ElementsOwned' /\ NothingLeaks'
  BY DEF ElementsOwned, NothingLeaks, Started
<1> QED BY <1>1, <1>2

LEMMA BeginUpdateSound ==
  ASSUME TimersAreSound, NEW c \in Callers, NEW k \in Keys, NEW time \in Times,
         BeginUpdate(c, k, time)
  PROVE  TimersAreSound'
<1> USE TimerAssumption DEF BeginUpdate, NoCall, table
<1>1. TypeOK'
  BY DEF TypeOK, TimersAreSound
<1>2. /\ \A d \in Callers \ {c} : call'[d] = call[d]
      /\ call'[c].op = "update" /\ call'[c].key \in Keys
  BY DEF TypeOK, TimersAreSound
<1> QED BY <1>1, <1>2, CallSound

LEMMA BeginStopSound ==
  ASSUME TimersAreSound, NEW c \in Callers, NEW k \in Keys, BeginStop(c, k)
  PROVE  TimersAreSound'
<1> USE TimerAssumption DEF BeginStop, NoCall, table
<1>1. TypeOK'
  BY DEF TypeOK, TimersAreSound
<1>2. /\ \A d \in Callers \ {c} : call'[d] = call[d]
      /\ call'[c].op = "stop" /\ call'[c].key \in Keys
  BY DEF TypeOK, TimersAreSound
<1> QED BY <1>1, <1>2, CallSound

LEMMA LogSound ==
  ASSUME TimersAreSound, NEW c \in Callers, startTimeLog(c)
  PROVE  TimersAreSound'
<1> USE TimerAssumption DEF startTimeLog, Return, NoCall, table
<1>1. TypeOK'
  BY DEF TypeOK, TimersAreSound
<1>2. /\ \A d \in Callers \ {c} : call'[d] = call[d]
      /\ call'[c].op = "none"
  BY DEF TypeOK, TimersAreSound
<1> QED BY <1>1, <1>2, CallSound

LEMMA StartFailsSound ==
  ASSUME TimersAreSound, NEW c \in Callers, startTimeFails(c)
  PROVE  TimersAreSound'
<1> USE TimerAssumption DEF TimersAreSound, startTimeFails, Entered, Return, NoCall
<1>1. TypeOK'
  BY DEF TypeOK
<1>2. OneSweeper'
  BY DEF OneSweeper, Started
<1>3. \A d \in Callers : call'[d] = IF d = c THEN NoCall ELSE call[d]
  BY DEF TypeOK
<1>4. ElementsOwned'
  BY <1>3 DEF ElementsOwned, Started
<1>5. NothingLeaks'
  BY <1>3 DEF NothingLeaks
<1> QED BY <1>1, <1>2, <1>4, <1>5

LEMMA StartSound ==
  ASSUME TimersAreSound, NEW c \in Callers, startTime(c)
  PROVE  TimersAreSound'
<1> USE TimerAssumption DEF TimersAreSound, startTime, Entered, NoCall
<1> DEFINE k == call[c].key
           e == call[c].element
<1>1. k \in Keys /\ e \in Elements /\ e \in allocated
  BY DEF ElementsOwned, TypeOK
<1>2. TypeOK'
  BY <1>1 DEF TypeOK
<1>3. /\ \A d \in Callers : call'[d] = IF d = c THEN [NoCall EXCEPT !.op = "log"] ELSE call[d]
      /\ \A j \in Keys : m_pExpTimerTabl'[j] = IF j = k THEN e ELSE m_pExpTimerTabl[j]
  BY <1>1 DEF TypeOK
<1>4. OneSweeper'
  BY KeysAreBeforeEnd DEF OneSweeper, Started
<1>5. ElementsOwned'
  BY <1>1, <1>3 DEF ElementsOwned, Started
<1>6. NothingLeaks'
  BY <1>1, <1>3 DEF NothingLeaks, Started, TypeOK
<1> QED BY <1>2, <1>4, <1>5, <1>6

LEMMA UpdateSound ==
  ASSUME TimersAreSound, NEW c \in Callers, updateTime(c)
  PROVE  TimersAreSound'
<1> USE TimerAssumption DEF TimersAreSound, updateTime, Entered, Return, NoCall
<1>1. call[c].key \in Keys
  BY DEF ElementsOwned
<1>2. TypeOK'
  BY <1>1 DEF TypeOK, Started
<1>3. \A d \in Callers : call'[d] = IF d = c THEN NoCall ELSE call[d]
  BY DEF TypeOK
<1>4. OneSweeper'
  BY DEF OneSweeper, Started
<1>5. ElementsOwned' /\ NothingLeaks'
  BY <1>3 DEF ElementsOwned, NothingLeaks, Started
<1> QED BY <1>2, <1>4, <1>5

LEMMA StopSound ==
  ASSUME TimersAreSound, NEW c \in Callers, stopTime(c)
  PROVE  TimersAreSound'
<1> USE TimerAssumption DEF TimersAreSound, stopTime, Entered, Return, NoCall
<1> DEFINE k == call[c].key
           e == m_pExpTimerTabl[k]
<1>1. k \in Keys /\ e \in Elements \cup {None}
  BY DEF ElementsOwned, TypeOK
<1>2. TypeOK'
  BY <1>1 DEF TypeOK
<1>3. /\ \A d \in Callers : call'[d] = IF d = c THEN NoCall ELSE call[d]
      /\ \A j \in Keys : m_pExpTimerTabl'[j] = IF j = k THEN None ELSE m_pExpTimerTabl[j]
  BY <1>1 DEF TypeOK
<1>4. OneSweeper'
  BY KeysAreBeforeEnd DEF OneSweeper, Started
<1>5. ElementsOwned'
  <2>1. \A j \in Keys : j # k /\ Started(j) => m_pExpTimerTabl[j] # e
    BY <1>1 DEF ElementsOwned, Started
  <2>2. \A d \in Callers : call[d].op = "start" => call[d].element # e
    BY <1>1 DEF ElementsOwned
  <2>3. \A d \in Callers : call[d].op = "start" =>
          /\ call[d].element \in allocated'
          /\ \A j \in Keys : m_pExpTimerTabl'[j] # call[d].element
    <3> SUFFICES ASSUME NEW d \in Callers, call[d].op = "start"
                 PROVE  /\ call[d].element \in allocated'
                        /\ \A j \in Keys : m_pExpTimerTabl'[j] # call[d].element
      OBVIOUS
    <3>1. call[d].element \in allocated /\ call[d].element # None
      BY DEF ElementsOwned, TypeOK
    <3> QED BY <1>3, <2>2, <3>1 DEF ElementsOwned
  <2>4. \A j \in Keys : Started(j)' => m_pExpTimerTabl'[j] \in allocated'
    BY <1>3, <2>1 DEF ElementsOwned, Started
  <2>5. \A i, j \in Keys : Started(i)' /\ m_pExpTimerTabl'[i] = m_pExpTimerTabl'[j] => i = j
    BY <1>3 DEF ElementsOwned, Started
  <2> QED BY <1>3, <2>3, <2>4, <2>5 DEF ElementsOwned
<1>6. NothingLeaks'
  BY <1>1, <1>3 DEF NothingLeaks
<1> QED BY <1>2, <1>4, <1>5, <1>6

-----------------------------------------------------------------------------
LEMMA NextSound == TimersAreSound /\ [Next]_vars => TimersAreSound'
<1> SUFFICES ASSUME TimersAreSound, [Next]_vars PROVE TimersAreSound'
  OBVIOUS
<1>1. ASSUME NEW t \in Timers, run(t) \/ TimerStep(t) PROVE TimersAreSound'
  BY <1>1, RunSound, LockSound, TimeoutSound, CountDownSound, UnlockSound DEF TimerStep
<1>2. ASSUME NEW c \in Callers, Caller(c) PROVE TimersAreSound'
  BY <1>2, BeginStartSound, BeginUpdateSound, BeginStopSound, StartFailsSound, StartSound,
     LogSound, UpdateSound, StopSound DEF Caller
<1>3. CASE UNCHANGED vars
  BY <1>3 DEF vars, table, TimersAreSound, TypeOK, OneSweeper, ElementsOwned, NothingLeaks, Started
<1> QED BY <1>1, <1>2, <1>3 DEF Next

\* An element is owned by the table or by one caller, freed once and never lost, and
\* the timer thread alone goes through the table: whatever is started, updated and
\* stopped meanwhile.
THEOREM TimersSound == Safety => []TimersAreSound
BY InitSound, NextSound, PTL DEF Safety

-----------------------------------------------------------------------------
(***************************************************************************)
(* The deadlines                                                           *)
(***************************************************************************)
Left == [k \in Keys |-> IF Started(k) THEN expireTime[m_pExpTimerTabl[k]] ELSE None]
Done == {k \in Keys : Started(k) /\ m_ExpTimerMutex # None /\ k < it}

\* The time left of a timer is a number; a timer that is not started has none.
LEMMA LeftIsTime ==
  ASSUME TypeOK
  PROVE  \A k \in Keys : IF Started(k) THEN Left[k] \in Int /\ Left[k] # None ELSE Left[k] = None
BY TimerAssumption DEF TypeOK, Started, Left

\* What the callers do outside the table is no step of the deadlines, and the
\* steps that need the mutex are between two rounds.
LEMMA OutsideStutters ==
  ASSUME TimersAreSound,
         \/ \E t \in Timers : run(t)
         \/ \E c \in Callers :
              \/ startTimeFails(c) \/ startTimeLog(c)
              \/ \E k \in Keys : \/ \E time \in Times : BeginUpdate(c, k, time)
                               \/ BeginStop(c, k)
              \/ \E e \in Elements, k \in Keys, time \in Times : BeginStart(c, e, k, time)
  PROVE  Left' = Left /\ Done' = Done
<1>1. /\ m_pExpTimerTabl' = m_pExpTimerTabl /\ m_ExpTimerMutex' = m_ExpTimerMutex /\ it' = it
      /\ \A k \in Keys : Started(k) => expireTime'[m_pExpTimerTabl[k]] = expireTime[m_pExpTimerTabl[k]]
  BY DEF run, startTimeFails, startTimeLog, BeginUpdate, BeginStop, BeginStart, Entered, table,
         TimersAreSound, TypeOK, ElementsOwned
<1> QED BY <1>1 DEF Left, Done, Started

\* In a round the mutex is held and the iterator stands on a timer or at the end.
LEMMA InRound ==
  ASSUME TimersAreSound, NEW t \in Timers, pc[t] = "sweep"
  PROVE  /\ m_ExpTimerMutex # None
         /\ it # End => /\ it \in Keys /\ Started(it) /\ Current \in Elements
                        /\ Left[it] = expireTime[Current] /\ Left[it] \in Int
                        /\ Left[it] # None /\ it \notin Done
         /\ Done = {k \in Keys : Started(k) /\ k < it}
<1> USE TimerAssumption, KeysAreBeforeEnd DEF TimersAreSound
<1>1. m_ExpTimerMutex # None
  BY DEF OneSweeper
<1>2. Done = {k \in Keys : Started(k) /\ k < it}
  BY <1>1 DEF Done
<1>3. ASSUME it # End
      PROVE  /\ it \in Keys /\ Started(it) /\ Current \in Elements
             /\ Left[it] = expireTime[Current] /\ Left[it] \in Int
             /\ Left[it] # None /\ it \notin Done
  <2>1. it \in Keys /\ Started(it)
    BY <1>3 DEF OneSweeper, TypeOK
  <2>2. Current \in Elements /\ Left[it] = expireTime[Current]
    BY <2>1 DEF TypeOK, Started, Current, Left
  <2>3. Left[it] \in Int /\ Left[it] # None
    BY <2>2 DEF TypeOK
  <2>4. it \notin Done
    BY <1>2, <2>1
  <2> QED BY <2>1, <2>2, <2>3, <2>4
<1> QED BY <1>1, <1>2, <1>3

\* A key gets an element, or None, and the elements keep their times.
LEMMA TableChanges ==
  ASSUME NEW k \in Keys, NEW e, expireTime' = expireTime,
         \A j \in Keys : m_pExpTimerTabl'[j] = IF j = k THEN e ELSE m_pExpTimerTabl[j]
  PROVE  Left' = [Left EXCEPT ![k] = IF e = None THEN None ELSE expireTime[e]]
<1>1. \A j \in Keys : Left'[j] = IF j = k THEN (IF e = None THEN None ELSE expireTime[e])
                                         ELSE Left[j]
  BY DEF Left, Started
<1>2. Left' = [j \in Keys |-> Left'[j]] /\ Left = [j \in Keys |-> Left[j]]
  BY DEF Left
<1>3. [Left EXCEPT ![k] = IF e = None THEN None ELSE expireTime[e]]
        = [j \in Keys |-> IF j = k THEN (IF e = None THEN None ELSE expireTime[e]) ELSE Left[j]]
  BY DEF Left
<1> QED BY <1>1, <1>2, <1>3

LEMMA TimeoutExpires ==
  ASSUME TimersAreSound, NEW t \in Timers, Timeout(t)
  PROVE  [D!Next]_(D!vars)
<1> USE TimerAssumption, KeysAreBeforeEnd DEF TimersAreSound
<1>1. pc[t] = "sweep" /\ it # End /\ 0 >= expireTime[Current]
  BY DEF Timeout
<1>2. /\ it \in Keys /\ Started(it) /\ Left[it] # None /\ Left[it] <= 0 /\ it \notin Done
      /\ Done = {k \in Keys : Started(k) /\ k < it} /\ m_ExpTimerMutex # None
  BY <1>1, InRound, Z3
<1>3. \A k \in Keys : m_pExpTimerTabl'[k] = IF k = it THEN None ELSE m_pExpTimerTabl[k]
  BY DEF Timeout, TypeOK
<1>4. Left' = [Left EXCEPT ![it] = None]
  BY <1>2, <1>3, TableChanges DEF Timeout
<1>5. Done' = Done
  <2>1. \A k \in Keys : Started(k)' <=> Started(k) /\ k # it
    BY <1>2, <1>3 DEF Started
  <2>2. \A k \in Keys : Started(k) /\ k # it => (k < it' <=> k < it)
    BY <1>2 DEF Timeout, Follows, Started
  <2>3. Done' = {k \in Keys : Started(k)' /\ k < it'}
    BY <1>2 DEF Timeout, Done
  <2> QED BY <1>2, <2>1, <2>2, <2>3
<1>6. PICK k \in Keys : k = it
  BY <1>2
<1>7. D!Expire(k)
  BY <1>2, <1>4, <1>5, <1>6 DEF D!Expire, Left, Done
<1> QED BY <1>6, <1>7 DEF D!Next

LEMMA CountDownTicks ==
  ASSUME TimersAreSound, NEW t \in Timers, CountDown(t)
  PROVE  [D!Next]_(D!vars)
<1> USE TimerAssumption, KeysAreBeforeEnd DEF TimersAreSound
<1>1. pc[t] = "sweep" /\ it # End /\ 0 < expireTime[Current]
  BY DEF CountDown
<1>2. /\ it \in Keys /\ Started(it) /\ Left[it] # None /\ Left[it] > 0 /\ it \notin Done
      /\ Left[it] = expireTime[Current]
      /\ Done = {k \in Keys : Started(k) /\ k < it} /\ m_ExpTimerMutex # None
  BY <1>1, InRound, Z3
<1>3. \A k \in Keys : Started(k) /\ k # it => /\ m_pExpTimerTabl[k] # Current
                                             /\ m_pExpTimerTabl[k] \in Elements
  BY <1>2 DEF ElementsOwned, Current, Started, TypeOK
<1>4. Left' = [Left EXCEPT ![it] = @ - interval]
  <2>1. Current \in Elements /\ expireTime' = [expireTime EXCEPT ![Current] = @ - interval]
    BY <1>1, InRound DEF CountDown
  <2>2. expireTime'[Current] = Left[it] - interval
    BY <1>2, <2>1 DEF TypeOK
  <2>3. \A k \in Keys : Started(k) /\ k # it =>
          expireTime'[m_pExpTimerTabl[k]] = expireTime[m_pExpTimerTabl[k]]
    BY <1>3, <2>1 DEF TypeOK
  <2>4. m_pExpTimerTabl' = m_pExpTimerTabl /\ Current = m_pExpTimerTabl[it]
    BY DEF CountDown, Current
  <2> QED BY <1>2, <2>2, <2>3, <2>4 DEF Left, Started
<1>5. Done' = Done \cup {it}
  <2>1. \A k \in Keys : Started(k)' <=> Started(k)
    BY DEF CountDown, Started
  <2>2. \A k \in Keys : Started(k) => (k < it' <=> k < it \/ k = it)
    BY <1>2 DEF CountDown, Follows, Started
  <2>3. Done' = {k \in Keys : Started(k)' /\ k < it'}
    BY <1>2 DEF CountDown, Done
  <2> QED BY <1>2, <2>1, <2>2, <2>3
<1>6. PICK k \in Keys : k = it
  BY <1>2
<1>7. D!Tick(k)
  BY <1>2, <1>4, <1>5, <1>6 DEF D!Tick, Left, Done
<1> QED BY <1>6, <1>7 DEF D!Next

LEMMA RoundsImplement ==
  ASSUME TimersAreSound, NEW t \in Timers, TimerStep(t)
  PROVE  [D!Next]_(D!vars)
<1> USE TimerAssumption, KeysAreBeforeEnd
<1>1. CASE TimerLock(t)
  <2>1. Left' = Left
    BY <1>1 DEF TimerLock, table, Left, Started
  <2>2. Done = {} /\ Done' = {}
    BY <1>1 DEF TimerLock, table, Done, Started, Follows
  <2> QED BY <2>1, <2>2 DEF D!vars, Left, Done
<1>2. CASE TimerUnlock(t)
  <2>1. Left' = Left
    BY <1>2 DEF TimerUnlock, table, Left, Started
  <2>2. pc[t] = "sweep" /\ it = End
    BY <1>2 DEF TimerUnlock
  <2>3. Done = {k \in Keys : Started(k)} /\ Done' = {}
    BY <1>2, <2>2, InRound DEF TimerUnlock, Done
  <2>4. \A k \in Keys : Left[k] # None => k \in Done
    BY <2>3 DEF Left
  <2>5. D!EndRound
    BY <2>1, <2>3, <2>4 DEF D!EndRound, Left, Done
  <2> QED BY <2>5 DEF D!Next
<1> QED BY <1>1, <1>2, TimeoutExpires, CountDownTicks DEF TimerStep

LEMMA CallersImplement ==
  ASSUME TimersAreSound, NEW c \in Callers, startTime(c) \/ updateTime(c) \/ stopTime(c)
  PROVE  [D!Next]_(D!vars)
<1> USE TimerAssumption DEF TimersAreSound, Entered
<1>1. PICK k \in Keys : k = call[c].key
  BY DEF startTime, updateTime, stopTime, ElementsOwned
<1> DEFINE e == m_pExpTimerTabl[k]
<1>2. Done = {} /\ Done' = {}
  BY DEF startTime, updateTime, stopTime, Done
<1>3. IF Started(k) THEN Left[k] # None ELSE Left[k] = None
  BY <1>1, LeftIsTime
<1>4. CASE startTime(c)
  <2> DEFINE x == call[c].element
  <2>1. ~ Started(k) /\ x \in Elements /\ x # None
    BY <1>1, <1>4 DEF startTime, TypeOK, ElementsOwned
  <2>2. \A j \in Keys : m_pExpTimerTabl'[j] = IF j = k THEN x ELSE m_pExpTimerTabl[j]
    BY <1>1, <1>4 DEF startTime, TypeOK
  <2>3. Left' = [Left EXCEPT ![k] = expireTime[x]]
    BY <1>1, <1>4, <2>1, <2>2, TableChanges DEF startTime
  <2>4. Left'[k] = expireTime[x] /\ expireTime[x] \in Int
    BY <1>1, <2>1, <2>3 DEF TypeOK, Left
  <2>5. D!Set(k)
    BY <1>2, <1>3, <2>1, <2>3, <2>4 DEF D!Set, D!SetTo, Left, Done
  <2> QED BY <1>1, <2>5 DEF D!Next
<1>5. CASE updateTime(c) /\ Started(k)
  <2>1. /\ e \in Elements /\ m_pExpTimerTabl' = m_pExpTimerTabl
        /\ expireTime' = [expireTime EXCEPT ![e] = call[c].time]
    BY <1>1, <1>5 DEF updateTime, TypeOK, Started
  <2>2. \A j \in Keys : Started(j) /\ j # k => m_pExpTimerTabl[j] # e
    BY <1>1 DEF ElementsOwned, Started
  <2>3. expireTime'[e] = call[c].time /\ call[c].time \in Int
    BY <2>1 DEF TypeOK
  <2>4. \A j \in Keys : Started(j) /\ j # k =>
          expireTime'[m_pExpTimerTabl[j]] = expireTime[m_pExpTimerTabl[j]]
    BY <2>1, <2>2 DEF TypeOK
  <2>5. Left' = [Left EXCEPT ![k] = call[c].time]
    BY <1>1, <1>5, <2>1, <2>3, <2>4 DEF Left, Started
  <2>6. Left'[k] = call[c].time
    BY <1>1, <2>5 DEF Left
  <2>7. D!Reset(k)
    BY <1>2, <1>3, <1>5, <2>3, <2>5, <2>6 DEF D!Reset, D!SetTo, Left, Done
  <2> QED BY <1>1, <2>7 DEF D!Next
<1>6. CASE updateTime(c) /\ ~ Started(k)
  <2>1. Left' = Left
    BY <1>1, <1>6 DEF updateTime, Left, Started
  <2> QED BY <1>2, <2>1 DEF D!vars, Left, Done
<1>7. CASE stopTime(c)
  <2>1. \A j \in Keys : m_pExpTimerTabl'[j] = IF j = k THEN None ELSE m_pExpTimerTabl[j]
    BY <1>1, <1>7 DEF stopTime, TypeOK
  <2>2. Left' = [Left EXCEPT ![k] = None]
    BY <1>1, <1>7, <2>1, TableChanges DEF stopTime
  <2>3. CASE Started(k)
    <3>1. D!Clear(k)
      BY <1>2, <1>3, <2>2, <2>3 DEF D!Clear, Left, Done
    <3> QED BY <1>1, <3>1 DEF D!Next
  <2>4. CASE ~ Started(k)
    <3>1. Left' = Left
      BY <1>1, <1>3, <2>2, <2>4 DEF Left
    <3> QED BY <1>2, <3>1 DEF D!vars, Left, Done
  <2> QED BY <2>3, <2>4
<1> QED BY <1>4, <1>5, <1>6, <1>7

LEMMA StepImplements ==
  ASSUME TimersAreSound, [Next]_vars
  PROVE  [D!Next]_(D!vars)
<1>1. ASSUME Left' = Left, Done' = Done PROVE [D!Next]_(D!vars)
  BY <1>1 DEF D!vars, Left, Done
<1>2. ASSUME NEW t \in Timers, run(t) \/ TimerStep(t) PROVE [D!Next]_(D!vars)
  BY <1>1, <1>2, OutsideStutters, RoundsImplement
<1>3. ASSUME NEW c \in Callers, Caller(c) PROVE [D!Next]_(D!vars)
  <2>1. CASE startTime(c) \/ updateTime(c) \/ stopTime(c)
    BY <2>1, CallersImplement
  <2>2. CASE \/ startTimeFails(c) \/ startTimeLog(c)
             \/ \E k \in Keys : \/ \E time \in Times : BeginUpdate(c, k, time)
                              \/ BeginStop(c, k)
             \/ \E e \in Elements, k \in Keys, time \in Times : BeginStart(c, e, k, time)
    BY <1>1, <2>2, OutsideStutters
  <2> QED BY <1>3, <2>1, <2>2 DEF Caller
<1>4. ASSUME UNCHANGED vars PROVE [D!Next]_(D!vars)
  <2>1. Left' = Left /\ Done' = Done
    BY <1>4 DEF vars, table, Left, Done, Started
  <2> QED BY <1>1, <2>1
<1> QED BY <1>2, <1>3, <1>4 DEF Next

\* The timers expire by their deadlines, in every behaviour: an interval is taken off
\* once per round, and the timeout is called once, in the first round that finds no
\* time left, never after stopTime, whatever the callers do between the rounds.
THEOREM DeadlinesImplemented == Safety => ImplementsDeadlines
<1>1. Init => D!Init
  BY TimerAssumption DEF Init, D!Init, Started
<1>2. TimersAreSound /\ [Next]_vars => [D!Next]_(D!vars)
  BY StepImplements
<1> QED BY <1>1, <1>2, TimersSound, PTL DEF Safety, ImplementsDeadlines, D!Spec
=============================================================================
