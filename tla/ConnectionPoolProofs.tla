------------------------ MODULE ConnectionPoolProofs ------------------------
(***************************************************************************)
(* Proofs about ConnectionPool.tla, for any users, connections, sizes of   *)
(* the pool, uses of a connection and queries that throw.                  *)
(***************************************************************************)
EXTENDS ConnectionPool, ListLemmas

UserPlaces == {"idle", "wait", "woken", "take", "recreate", "using", "put", "enqueue",
               "test", "post"}
MainPlaces == {"init", "create", "put", "enqueue", "test", "post", "failed", "up", "lock", "stopping",
               "stopped"}
Putting == {"put", "enqueue", "test", "post"}
Stopping == {"lock", "stopping", "stopped"}

\* The main thread does not query, the others do not run the pool.
WhereThreadsAre == /\ pc[Main] \in MainPlaces
                   /\ \A t \in Users : pc[t] \in UserPlaces

\* A thread has a connection from the time it was given one until PutMsg has returned
\* for the last time; only one that is put back twice is already in the queue when
\* PutMsg is called for it again.
WhatThreadsHave ==
  \A t \in Threads :
    /\ puts[t] > 0 <=> pc[t] \in Putting
    /\ pc[t] \in Putting \cup {"using"} => conn[t] \in Connections
    /\ puts[t] = 2 => t # Main /\ conn[t] \in twice

\* Where main is says how many connections it has created, and whether it stops the pool.
WhereMainIs ==
  /\ m_stop <=> pc[Main] \in Stopping
  /\ ~ m_initialized => pc[Main] \in {"init", "stopped"}
  /\ pc[Main] = "init" => ~ m_initialized /\ live = {} /\ i = 0 /\ \A t \in Users : pc[t] = "idle"
  /\ pc[Main] # "init" => m_num <= nConnNum
  /\ pc[Main] = "create" => m_num = i
  /\ pc[Main] \in Putting => m_num = i - 1
  /\ pc[Main] \in {"lock", "stopping"} => i <= m_num
  /\ pc[Main] = "stopped" => i = m_num

At(places) == {t \in Threads : pc[t] \in places}

\* The connections of the count are those that exist, and those being replaced; main has
\* still to count one that it is putting, and those that Stop has terminated were counted.
LiveAreCounted ==
  twice = {} /\ pc[Main] # "init" =>
    Cardinality(live) + Cardinality(At({"recreate"})) + (IF m_stop THEN i ELSE 0)
      = m_num + (IF pc[Main] \in Putting THEN 1 ELSE 0)

\* The inductive invariant.
IInv == /\ TypeOK
        /\ WhereThreadsAre
        /\ WhatThreadsHave
        /\ WhereMainIs
        /\ SemaphoreCounts
        /\ SingleUse
        /\ LiveAreCounted

-----------------------------------------------------------------------------
\* A thread that goes to another place changes the counts of the places it leaves and
\* comes to.
LEMMA Moves ==
  ASSUME TypeOK, NEW t \in Threads, NEW x, Goto(t, x), NEW P
  PROVE  /\ Cardinality(At(P)) \in Nat
         /\ Cardinality(At(P)') \in Nat
         /\ Cardinality(At(P)') = Cardinality(At(P)) + (IF x \in P THEN 1 ELSE 0)
                                                    - (IF pc[t] \in P THEN 1 ELSE 0)
<1>1. IsFiniteSet(Threads)
  BY PoolAssumption, FS_AddElement DEF Threads
<1>2. pc \in [Threads -> Places] /\ pc' = [pc EXCEPT ![t] = x]
  BY DEF TypeOK, Goto
<1>3. /\ At(P) \subseteq Threads /\ At(P)' \subseteq Threads
      /\ \A u \in Threads \ {t} : u \in At(P) <=> u \in At(P)'
      /\ t \in At(P) <=> pc[t] \in P
      /\ t \in At(P)' <=> x \in P
  BY <1>2 DEF At
<1> HIDE DEF At
<1> QED BY <1>1, <1>2, <1>3, OneMoves

\* SemaphoreCounts in terms of At.
LEMMA Counts ==
  /\ SemaphoreCounts <=> (~ m_stop => Len(m_queue) = m_sem + Cardinality(At({"test", "post"}))
                                                          + Cardinality(At({"woken", "take"})))
  /\ SemaphoreCounts' <=> (~ m_stop' => Len(m_queue') = m_sem' + Cardinality(At({"test", "post"})')
                                                             + Cardinality(At({"woken", "take"})'))
BY DEF SemaphoreCounts, At

LEMMA AtCounts == \A P : Cardinality(At(P)) \in Nat
<1>1. IsFiniteSet(Threads)
  BY PoolAssumption, FS_AddElement DEF Threads
<1>2. \A P : At(P) \subseteq Threads
  BY DEF At
<1> QED BY <1>1, <1>2, FS_Subset, FS_CardinalityType

LEMMA LiveFinite == TypeOK => IsFiniteSet(live) /\ Cardinality(live) \in Nat
BY PoolAssumption, FS_Subset, FS_CardinalityType DEF TypeOK

LEMMA InitIInv == Init => IInv
<1> SUFFICES ASSUME Init PROVE IInv
  OBVIOUS
<1> USE PoolAssumption DEF Init, Threads
<1>1. TypeOK
  <2>1. pc \in [Threads -> Places] /\ conn \in [Threads -> Connections \cup {NULL}]
    BY DEF Places
  <2>2. nCount \in [Connections -> 0..(MAXCOUNT + 1)] /\ puts \in [Threads -> 0..2]
    OBVIOUS
  <2>3. m_queue \in Seq(Connections) /\ m_num \in 0..nConnNum \cup {10} /\ i \in 0..nConnNum
    OBVIOUS
  <2> QED BY <2>1, <2>2, <2>3 DEF TypeOK
<1>2. WhereThreadsAre /\ WhatThreadsHave /\ WhereMainIs
  BY DEF WhereThreadsAre, WhatThreadsHave, WhereMainIs, UserPlaces, MainPlaces, Putting, Stopping
<1>3. SemaphoreCounts
  <2>1. At({"test", "post"}) = {} /\ At({"woken", "take"}) = {}
    BY DEF At
  <2>2. Cardinality({}) = 0
    BY FS_EmptySet
  <2>3. Cardinality(At({"test", "post"})) = 0 /\ Cardinality(At({"woken", "take"})) = 0
    BY <2>1, <2>2
  <2> QED BY <2>3, Counts
<1>4. SingleUse /\ LiveAreCounted
  BY DEF SingleUse, LiveAreCounted, Range
<1> QED BY <1>1, <1>2, <1>3, <1>4 DEF IInv

-----------------------------------------------------------------------------
(***************************************************************************)
(* Steps that move no connection                                           *)
(***************************************************************************)
\* Main's steps around the creation of the connections and before the loop of Stop.
LEMMA MainIInv ==
  ASSUME IInv, InitPool \/ CreateFails \/ Created \/ Stop \/ StopLock \/ Stopped
  PROVE  IInv'
<1> USE PoolAssumption DEF IInv, shared, flags, local
<1>1. UNCHANGED <<m_queue, m_sem, live, nCount, conn, puts, twice>>
  BY DEF InitPool, CreateFails, Created, Stop, StopLock, Stopped
<1>2. PICK x \in MainPlaces \ Putting : /\ pc' = [pc EXCEPT ![Main] = x]
                                       /\ pc[Main] \in MainPlaces \ Putting
  BY DEF InitPool, CreateFails, Created, Stop, StopLock, Stopped, Goto, MainPlaces, Putting
<1>3. TypeOK'
  <2>1. pc' \in [Threads -> Places]
    BY <1>2 DEF TypeOK, Places, MainPlaces, Threads
  <2>2. /\ m_lock' \in Threads \cup {NULL}
        /\ m_stop' \in BOOLEAN /\ m_initialized' \in BOOLEAN
    BY DEF TypeOK, Threads, InitPool, CreateFails, Created, Stop, StopLock, Stopped
  <2>3. m_num' \in 0..nConnNum \cup {10}
    BY DEF TypeOK, InitPool, CreateFails, Created, Stop, StopLock, Stopped
  <2>4. i' \in 0..nConnNum
    BY DEF TypeOK, InitPool, CreateFails, Created, Stop, StopLock, Stopped
  <2> QED BY <1>1, <2>1, <2>2, <2>3, <2>4 DEF TypeOK
<1>4. WhereThreadsAre' /\ WhatThreadsHave'
  BY <1>1, <1>2 DEF TypeOK, WhereThreadsAre, WhatThreadsHave, UserPlaces, MainPlaces, Threads, Putting
<1>5. WhereMainIs'
  <2> USE <1>1, <1>2 DEF WhereMainIs, TypeOK, Threads, Stopping, Putting, Goto
  <2>1. CASE InitPool
    BY <2>1 DEF InitPool
  <2>2. CASE CreateFails \/ Created
    BY <2>2 DEF CreateFails, Created
  <2>3. CASE Stop
    BY <2>3 DEF Stop
  <2>4. CASE StopLock
    BY <2>4 DEF StopLock
  <2>5. CASE Stopped
    BY <2>5 DEF Stopped
  <2> QED BY <2>1, <2>2, <2>3, <2>4, <2>5
<1>6. /\ At({"test", "post"})' = At({"test", "post"})
      /\ At({"woken", "take"})' = At({"woken", "take"})
      /\ At({"recreate"})' = At({"recreate"})
  BY <1>2 DEF At, TypeOK, Threads, MainPlaces, Putting
<1>7. SemaphoreCounts'
  <2>1. m_stop => m_stop'
    BY DEF InitPool, CreateFails, Created, Stop, StopLock, Stopped
  <2> QED BY <1>1, <1>6, <2>1, Counts DEF TypeOK
<1>8. SingleUse'
  BY <1>1, <1>2 DEF SingleUse, TypeOK, Threads, MainPlaces, Putting
<1>9. LiveAreCounted'
  <2>1. CASE InitPool
    <3>1. At({"recreate"}) = {} /\ live = {}
      BY <2>1 DEF At, Threads, WhereMainIs, InitPool
    <3>2. ~ m_stop' /\ m_num' = 0 /\ pc'[Main] \notin Putting
      BY <2>1 DEF InitPool, WhereMainIs, Stopping, TypeOK, Threads, Goto, Putting
    <3>3. Cardinality(live') = 0 /\ Cardinality(At({"recreate"})') = 0
      BY <1>1, <1>6, <3>1, FS_EmptySet
    <3> QED BY <3>2, <3>3 DEF LiveAreCounted
  <2>2. CASE ~ InitPool
    <3>1. pc[Main] # "init" /\ m_num' = m_num
      BY <2>2 DEF CreateFails, Created, Stop, StopLock, Stopped
    <3>2. (IF m_stop' THEN i' ELSE 0) = (IF m_stop THEN i ELSE 0)
      BY <2>2 DEF CreateFails, Created, Stop, StopLock, Stopped, WhereMainIs, Stopping
    <3>3. pc[Main] \notin Putting /\ pc'[Main] \notin Putting
      BY <1>2 DEF TypeOK, Threads
    <3> QED BY <1>1, <1>6, <3>1, <3>2, <3>3 DEF LiveAreCounted
  <2> QED BY <2>1, <2>2
<1> QED BY <1>3, <1>4, <1>5, <1>7, <1>8, <1>9

\* The steps of a user that give it no connection and take none from it.
LEMMA UserIInv ==
  ASSUME IInv, NEW t \in Threads,
         GetConnection(t) \/ SemWait(t) \/ TestStop(t) \/ TakeNothing(t) \/ Query(t)
  PROVE  IInv'
<1> USE PoolAssumption DEF IInv, shared, flags, local
<1> DEFINE Quiet == GetConnection(t) \/ SemWait(t) \/ TestStop(t) \/ TakeNothing(t)
<1>1. CASE Quiet
  <2>1. UNCHANGED <<m_queue, m_lock, m_stop, m_initialized, m_num, live, nCount, conn, puts, i, twice>>
    BY <1>1 DEF GetConnection, SemWait, TestStop, TakeNothing
  <2>2. t \in Users /\ t # Main
    BY <1>1 DEF GetConnection, SemWait, TestStop, TakeNothing, WhereThreadsAre, MainPlaces, Threads
  <2>3. PICK x \in UserPlaces \ (Putting \cup {"using", "recreate"}) :
             /\ Goto(t, x)
             /\ pc[t] \in UserPlaces \ (Putting \cup {"using", "recreate"})
    BY <1>1 DEF GetConnection, SemWait, TestStop, TakeNothing, UserPlaces, Putting, Goto
  <2>4. m_sem' \in Nat
    BY <1>1 DEF GetConnection, SemWait, TestStop, TakeNothing, TypeOK
  <2>5. TypeOK'
    BY <2>1, <2>2, <2>3, <2>4 DEF TypeOK, Places, UserPlaces, Goto
  <2>6. WhereThreadsAre' /\ WhatThreadsHave'
    BY <2>1, <2>2, <2>3 DEF TypeOK, WhereThreadsAre, WhatThreadsHave, UserPlaces, Threads, Putting, Goto
  <2>7. WhereMainIs'
    <3>1. pc[Main] # "init"
      BY <1>1, <2>2 DEF WhereMainIs, GetConnection, SemWait, TestStop, TakeNothing
    <3> QED BY <2>1, <2>2, <2>3, <3>1 DEF WhereMainIs, TypeOK, Goto, Threads
  <2>8. /\ Cardinality(At({"test", "post"})') = Cardinality(At({"test", "post"}))
        /\ Cardinality(At({"recreate"})') = Cardinality(At({"recreate"}))
    <3>1. At({"test", "post"})' = At({"test", "post"}) /\ At({"recreate"})' = At({"recreate"})
      BY <2>3 DEF At, TypeOK, Goto, UserPlaces, Putting
    <3> QED BY <3>1
  <2>9. SemaphoreCounts'
    <3> DEFINE between == Cardinality(At({"woken", "take"}))
    <3>1. CASE GetConnection(t)
      <4>1. At({"woken", "take"})' = At({"woken", "take"})
        BY <3>1 DEF GetConnection, Goto, At, TypeOK
      <4> QED BY <2>1, <2>8, <3>1, <4>1, Counts DEF GetConnection
    <3>2. CASE SemWait(t)
      <4>1. between \in Nat /\ between' = between + 1
        BY <3>2, Moves DEF SemWait
      <4>2. Cardinality(At({"test", "post"})) \in Nat /\ m_sem \in Nat /\ m_sem' = m_sem - 1
        BY <2>3, <3>2, Moves DEF SemWait, TypeOK
      <4> HIDE DEF between
      <4> QED BY <2>1, <2>8, <4>1, <4>2, Counts DEF between
    <3>3. CASE TestStop(t)
      <4>1. ~ m_stop => At({"woken", "take"})' = At({"woken", "take"})
        BY <3>3 DEF TestStop, Goto, At, TypeOK
      <4> QED BY <2>1, <2>8, <3>3, <4>1, Counts DEF TestStop
    <3>4. CASE TakeNothing(t)
      <4>1. between \in Nat /\ between' = between - 1 /\ between' \in Nat
        BY <3>4, Moves DEF TakeNothing
      <4>2. Cardinality(At({"test", "post"})) \in Nat
        BY <2>3, Moves
      <4>3. Len(m_queue) = 0
        BY <3>4 DEF TakeNothing
      <4> HIDE DEF between
      <4>4. m_stop
        BY <4>1, <4>2, <4>3, Counts DEF TypeOK, between
      <4> QED BY <2>1, <4>4, Counts
    <3> QED BY <1>1, <3>1, <3>2, <3>3, <3>4
  <2>10. SingleUse'
    BY <2>1, <2>3 DEF SingleUse, TypeOK, Goto, UserPlaces, Putting
  <2>11. LiveAreCounted'
    BY <2>1, <2>2, <2>3, <2>8 DEF LiveAreCounted, TypeOK, Goto, Threads
  <2> QED BY <2>5, <2>6, <2>7, <2>9, <2>10, <2>11
<1>2. CASE Query(t)
  <2> USE DEF Query, LoadCSCF_RDConfigData, Add_CDR_RecordDetailInfo, Add_CDR_RecordInfo,
              Get_CDR_RateInfo, ReleasedOnce, QueryThrows, Goto
  <2>1. /\ UNCHANGED <<m_queue, m_sem, m_lock, m_stop, m_initialized, m_num, live, nCount, conn, i>>
        /\ pc[t] = "using" /\ pc' = [pc EXCEPT ![t] = "put"]
    BY <1>2
  <2>2. \/ twice' = twice /\ puts' = [puts EXCEPT ![t] = 1]
        \/ twice' = twice \cup {conn[t]} /\ puts' = [puts EXCEPT ![t] = 2]
    BY <1>2
  <2>3. t \in Users /\ t # Main /\ conn[t] \in Connections
    BY <2>1 DEF WhereThreadsAre, MainPlaces, Threads, WhatThreadsHave
  <2> HIDE DEF Query
  <2>4. TypeOK'
    BY <2>1, <2>2, <2>3, SMTT(30) DEF TypeOK, Places
  <2>5. WhereThreadsAre' /\ WhatThreadsHave'
    BY <2>1, <2>2, <2>3 DEF TypeOK, WhereThreadsAre, WhatThreadsHave, UserPlaces, Threads, Putting
  <2>6. WhereMainIs'
    BY <2>1, <2>3 DEF WhereMainIs, TypeOK, Threads
  <2>7. /\ At({"test", "post"})' = At({"test", "post"})
        /\ At({"woken", "take"})' = At({"woken", "take"})
        /\ At({"recreate"})' = At({"recreate"})
    BY <2>1 DEF At, TypeOK
  <2>8. SemaphoreCounts'
    BY <2>1, <2>7, Counts
  <2>9. SingleUse'
    BY <2>1, <2>2 DEF SingleUse, TypeOK
  <2>10. LiveAreCounted'
    BY <2>1, <2>2, <2>3, <2>7 DEF LiveAreCounted, TypeOK, Threads
  <2> QED BY <2>4, <2>5, <2>6, <2>8, <2>9, <2>10
<1> QED BY <1>1, <1>2

-----------------------------------------------------------------------------
(***************************************************************************)
(* Steps that move a connection                                            *)
(***************************************************************************)
\* A new connection is at an address that nobody has, nor the queue.
LEMMA UnusedIsNew ==
  ASSUME NEW c \in Unused
  PROVE  c \in Connections \ live /\ c \notin Range(m_queue) /\ \A t \in Threads : conn[t] # c
BY DEF Unused

\* CreateConnectionPool creates a connection for the queue.
LEMMA CreateIInv ==
  ASSUME IInv, NEW c \in Connections, CreateConnection(c)
  PROVE  IInv'
<1> USE PoolAssumption, UnusedIsNew DEF IInv, CreateConnection, New, Goto, shared, flags
<1>1. Main \in Threads /\ pc' = [pc EXCEPT ![Main] = "put"] /\ pc[Main] = "create"
  BY DEF Threads
<1>2. TypeOK'
  BY <1>1 DEF TypeOK, Places
<1>3. WhereThreadsAre' /\ WhatThreadsHave'
  BY <1>1 DEF TypeOK, WhereThreadsAre, WhatThreadsHave, UserPlaces, MainPlaces, Threads, Putting
<1>4. WhereMainIs'
  BY <1>1 DEF TypeOK, WhereMainIs, Stopping, Putting
<1>5. /\ At({"test", "post"})' = At({"test", "post"})
      /\ At({"woken", "take"})' = At({"woken", "take"})
      /\ At({"recreate"})' = At({"recreate"})
  BY <1>1 DEF At, TypeOK
<1>6. SemaphoreCounts'
  BY <1>5, Counts
<1>7. SingleUse'
  BY <1>1 DEF SingleUse, TypeOK
<1>8. LiveAreCounted'
  <2>1. Cardinality(live') = Cardinality(live) + 1 /\ Cardinality(live) \in Nat
    BY LiveFinite, FS_AddElement
  <2>2. pc[Main] # "init" /\ pc[Main] \notin Putting /\ pc'[Main] \in Putting
    BY <1>1 DEF TypeOK, Putting
  <2>3. Cardinality(At({"recreate"})) \in Nat
    BY AtCounts
  <2>4. ~ m_stop /\ m_num \in Nat /\ UNCHANGED <<m_stop, m_num, twice>>
    BY <1>1 DEF WhereMainIs, Stopping, TypeOK
  <2> HIDE DEF CreateConnection, New, Goto
  <2> QED BY <1>5, <2>1, <2>2, <2>3, <2>4 DEF LiveAreCounted
<1> QED BY <1>2, <1>3, <1>4, <1>6, <1>7, <1>8

\* ReCreateConnection gives the user a new one.
LEMMA ReCreateIInv ==
  ASSUME IInv, NEW t \in Threads, NEW c \in Connections, ReCreateConnection(t, c)
  PROVE  IInv'
<1> USE PoolAssumption, UnusedIsNew DEF IInv, ReCreateConnection, New, Goto, flags
<1>1. t \in Users /\ t # Main /\ Goto(t, "using")
  BY DEF WhereThreadsAre, MainPlaces, Threads
<1>2. TypeOK'
  BY DEF TypeOK, Places
<1>3. WhereThreadsAre' /\ WhatThreadsHave'
  BY <1>1 DEF TypeOK, WhereThreadsAre, WhatThreadsHave, UserPlaces, Threads, Putting
<1>4. WhereMainIs'
  BY <1>1 DEF TypeOK, WhereMainIs, Threads
<1>5. At({"test", "post"})' = At({"test", "post"}) /\ At({"woken", "take"})' = At({"woken", "take"})
  BY DEF At, TypeOK
<1>6. SemaphoreCounts'
  BY <1>5, Counts
<1>7. SingleUse'
  BY DEF SingleUse, TypeOK
<1>8. LiveAreCounted'
  <2>1. Cardinality(live') = Cardinality(live) + 1 /\ Cardinality(live) \in Nat
    BY LiveFinite, FS_AddElement
  <2>2. /\ Cardinality(At({"recreate"})) \in Nat
        /\ Cardinality(At({"recreate"})') = Cardinality(At({"recreate"})) - 1
    <3> HIDE DEF Goto
    <3> QED BY <1>1, Moves DEF ReCreateConnection
  <2>3. pc'[Main] = pc[Main] /\ m_num \in Nat /\ i \in Nat
    BY <1>1 DEF TypeOK, Threads
  <2> QED BY <2>1, <2>2, <2>3 DEF LiveAreCounted
<1> QED BY <1>2, <1>3, <1>4, <1>6, <1>7, <1>8

\* The queue without its head, with what SingleUse says of the head.
LEMMA HeadIsLeft ==
  ASSUME TypeOK, SingleUse, m_queue # <<>>, m_queue' = Tail(m_queue)
  PROVE  LET c == Head(m_queue)
         IN  /\ m_queue' \in Seq(Connections) /\ c \in Connections
             /\ Len(m_queue') = Len(m_queue) - 1
             /\ Range(m_queue') \subseteq Range(m_queue)
             /\ \A j, k \in 1..Len(m_queue') : (j # k /\ m_queue'[j] \notin twice) => m_queue'[j] # m_queue'[k]
             /\ c \notin twice =>
                  /\ c \in live /\ c \notin Range(m_queue')
                  /\ \A t \in Threads : pc[t] \in {"using", "put", "enqueue"} => conn[t] # c
<1> DEFINE c == Head(m_queue)
<1> USE DEF TypeOK
<1>1. /\ m_queue' \in Seq(Connections) /\ c \in Connections /\ c = m_queue[1]
      /\ Len(m_queue) \in Nat \ {0} /\ Len(m_queue') = Len(m_queue) - 1
      /\ \A j \in 1..Len(m_queue') : m_queue'[j] = m_queue[j + 1] /\ j + 1 \in 1..Len(m_queue)
      /\ Range(m_queue') \subseteq Range(m_queue) /\ c \in Range(m_queue)
  BY PopFront
<1> HIDE DEF c
<1>2. \A j, k \in 1..Len(m_queue') : (j # k /\ m_queue'[j] \notin twice) => m_queue'[j] # m_queue'[k]
  BY <1>1 DEF SingleUse
<1>3. ASSUME c \notin twice
      PROVE  /\ c \in live /\ c \notin Range(m_queue')
             /\ \A t \in Threads : pc[t] \in {"using", "put", "enqueue"} => conn[t] # c
  <2>1. c \in live
    BY <1>1, <1>3 DEF SingleUse
  <2>2. ASSUME c \in Range(m_queue') PROVE FALSE
    <3>1. PICK k \in 1..Len(m_queue') : m_queue'[k] = c
      BY <1>1, <2>2 DEF Range
    <3>2. m_queue[k + 1] = m_queue[1] /\ k + 1 \in 1..Len(m_queue) /\ 1 \in 1..Len(m_queue) /\ k + 1 # 1
      BY <1>1, <3>1
    <3> QED BY <1>1, <1>3, <3>2 DEF SingleUse
  <2>3. ASSUME NEW t \in Threads, pc[t] \in {"using", "put", "enqueue"}, conn[t] = c PROVE FALSE
    BY <1>1, <1>3, <2>3 DEF SingleUse
  <2> QED BY <2>1, <2>2, <2>3
<1> QED BY <1>1, <1>2, <1>3 DEF c

\* A user takes the first connection of the queue.
LEMMA TakeIInv ==
  ASSUME IInv, NEW t \in Threads, Take(t)
  PROVE  IInv'
<1> USE PoolAssumption DEF IInv, Take, Goto, flags
<1> DEFINE c == Head(m_queue)
<1>1. t \in Users /\ t # Main /\ Goto(t, "using") /\ pc[t] = "take"
  BY DEF WhereThreadsAre, MainPlaces, Threads
<1>2. /\ m_queue' \in Seq(Connections) /\ c \in Connections
      /\ Len(m_queue') = Len(m_queue) - 1
      /\ Range(m_queue') \subseteq Range(m_queue)
      /\ \A j, k \in 1..Len(m_queue') : (j # k /\ m_queue'[j] \notin twice) => m_queue'[j] # m_queue'[k]
      /\ c \notin twice => /\ c \in live /\ c \notin Range(m_queue')
                          /\ \A u \in Threads : pc[u] \in {"using", "put", "enqueue"} => conn[u] # c
  BY HeadIsLeft
<1>3. /\ nCount' = [nCount EXCEPT ![c] = @ + 1] /\ nCount[c] <= MAXCOUNT
      /\ conn' = [conn EXCEPT ![t] = c]
  OBVIOUS
<1> HIDE DEF c
<1>4. TypeOK'
  BY <1>1, <1>2, <1>3 DEF TypeOK, Places
<1>5. WhereThreadsAre' /\ WhatThreadsHave'
  BY <1>1, <1>2, <1>3 DEF TypeOK, WhereThreadsAre, WhatThreadsHave, UserPlaces, Threads, Putting
<1>6. WhereMainIs'
  BY <1>1 DEF TypeOK, WhereMainIs, Threads
<1>7. At({"test", "post"})' = At({"test", "post"}) /\ At({"recreate"})' = At({"recreate"})
  BY DEF At, TypeOK
<1>8. SemaphoreCounts'
  <2>1. /\ Cardinality(At({"woken", "take"})) \in Nat
        /\ Cardinality(At({"woken", "take"})') = Cardinality(At({"woken", "take"})) - 1
    <3> HIDE DEF Goto
    <3> QED BY <1>1, Moves
  <2>2. Cardinality(At({"test", "post"})) \in Nat /\ m_sem \in Nat /\ Len(m_queue) \in Nat
    BY AtCounts DEF TypeOK
  <2> QED BY <1>2, <1>7, <2>1, <2>2, Counts
<1>9. SingleUse'
  BY <1>1, <1>2, <1>3 DEF SingleUse, TypeOK
<1>10. LiveAreCounted'
  BY <1>1, <1>7 DEF LiveAreCounted, TypeOK, Threads
<1> QED BY <1>4, <1>5, <1>6, <1>8, <1>9, <1>10

\* A user takes it to have it replaced.
LEMMA TakeWornIInv ==
  ASSUME IInv, NEW t \in Threads, TakeWorn(t)
  PROVE  IInv'
<1> USE PoolAssumption DEF IInv, TakeWorn, Goto, flags, local
<1> DEFINE c == Head(m_queue)
<1>1. t \in Users /\ t # Main /\ Goto(t, "recreate") /\ pc[t] = "take"
  BY DEF WhereThreadsAre, MainPlaces, Threads
<1>2. /\ m_queue' \in Seq(Connections) /\ c \in Connections
      /\ Len(m_queue') = Len(m_queue) - 1
      /\ Range(m_queue') \subseteq Range(m_queue)
      /\ \A j, k \in 1..Len(m_queue') : (j # k /\ m_queue'[j] \notin twice) => m_queue'[j] # m_queue'[k]
      /\ c \notin twice => /\ c \in live /\ c \notin Range(m_queue')
                          /\ \A u \in Threads : pc[u] \in {"using", "put", "enqueue"} => conn[u] # c
  BY HeadIsLeft
<1>3. live' = live \ {c}
  OBVIOUS
<1> HIDE DEF c
<1>4. TypeOK'
  BY <1>1, <1>2, <1>3 DEF TypeOK, Places
<1>5. WhereThreadsAre' /\ WhatThreadsHave'
  BY <1>1 DEF TypeOK, WhereThreadsAre, WhatThreadsHave, UserPlaces, Threads, Putting
<1>6. WhereMainIs'
  BY <1>1, <1>3 DEF TypeOK, WhereMainIs, Threads
<1>7. At({"test", "post"})' = At({"test", "post"})
  BY DEF At, TypeOK
<1>8. SemaphoreCounts'
  <2>1. /\ Cardinality(At({"woken", "take"})) \in Nat
        /\ Cardinality(At({"woken", "take"})') = Cardinality(At({"woken", "take"})) - 1
    <3> HIDE DEF Goto
    <3> QED BY <1>1, Moves
  <2>2. Cardinality(At({"test", "post"})) \in Nat /\ m_sem \in Nat /\ Len(m_queue) \in Nat
    BY AtCounts DEF TypeOK
  <2> QED BY <1>2, <1>7, <2>1, <2>2, Counts
<1>9. SingleUse'
  BY <1>1, <1>2, <1>3 DEF SingleUse, TypeOK
<1>10. LiveAreCounted'
  <2>1. /\ Cardinality(At({"recreate"})) \in Nat
        /\ Cardinality(At({"recreate"})') = Cardinality(At({"recreate"})) + 1
    <3> HIDE DEF Goto
    <3> QED BY <1>1, Moves
  <2>2. Cardinality(live) \in Nat /\ (twice = {} => Cardinality(live') = Cardinality(live) - 1)
    BY <1>2, <1>3, LiveFinite, FS_RemoveElement, ZenonT(30)
  <2>3. pc'[Main] = pc[Main] /\ m_num \in Nat /\ i \in Nat
    BY <1>1 DEF TypeOK, Threads
  <2> QED BY <2>1, <2>2, <2>3 DEF LiveAreCounted
<1> QED BY <1>4, <1>5, <1>6, <1>8, <1>9, <1>10

\* Stop terminates it.
LEMMA TerminateIInv ==
  ASSUME IInv, Terminate
  PROVE  IInv'
<1> USE PoolAssumption DEF IInv, Terminate, flags
<1> DEFINE c == Head(m_queue)
<1>1. Main \in Threads /\ m_stop
  BY DEF Threads, WhereMainIs, Stopping
<1>2. /\ m_queue' \in Seq(Connections) /\ c \in Connections
      /\ Range(m_queue') \subseteq Range(m_queue)
      /\ \A j, k \in 1..Len(m_queue') : (j # k /\ m_queue'[j] \notin twice) => m_queue'[j] # m_queue'[k]
      /\ c \notin twice => /\ c \in live /\ c \notin Range(m_queue')
                          /\ \A u \in Threads : pc[u] \in {"using", "put", "enqueue"} => conn[u] # c
  BY HeadIsLeft
<1>3. live' = live \ {c}
  OBVIOUS
<1> HIDE DEF c
<1>4. TypeOK'
  BY <1>2, <1>3 DEF TypeOK, WhereMainIs
<1>5. WhereThreadsAre' /\ WhatThreadsHave'
  BY DEF WhereThreadsAre, WhatThreadsHave
<1>6. WhereMainIs'
  BY DEF TypeOK, WhereMainIs
<1>7. SemaphoreCounts'
  BY <1>1 DEF SemaphoreCounts
<1>8. SingleUse'
  BY <1>2, <1>3 DEF SingleUse
<1>9. LiveAreCounted'
  <2>1. At({"recreate"})' = At({"recreate"}) /\ Cardinality(At({"recreate"})) \in Nat
    BY AtCounts DEF At
  <2>2. Cardinality(live) \in Nat /\ (twice = {} => Cardinality(live') = Cardinality(live) - 1)
    BY <1>2, <1>3, LiveFinite, FS_RemoveElement
  <2>3. m_num \in Nat /\ i \in Nat /\ pc[Main] \notin Putting
    BY DEF TypeOK, Putting
  <2> QED BY <1>1, <2>1, <2>2, <2>3 DEF LiveAreCounted
<1> QED BY <1>4, <1>5, <1>6, <1>7, <1>8, <1>9

\* PutMsg appends the connection to the queue.
LEMMA PutQueueIInv ==
  ASSUME IInv, NEW t \in Threads, PutQueue(t)
  PROVE  IInv'
<1> USE PoolAssumption DEF IInv, PutQueue, flags, local
<1> DEFINE c == conn[t]
           q == Append(m_queue, c)
<1>1. Goto(t, "test") /\ pc[t] = "enqueue" /\ pc' = [pc EXCEPT ![t] = "test"]
  BY DEF Goto
<1>2. c \in Connections
  BY DEF WhatThreadsHave, Putting
<1>3. /\ q \in Seq(Connections)
      /\ Len(q) = Len(m_queue) + 1 /\ Len(m_queue) \in Nat
      /\ Range(q) = Range(m_queue) \cup {c}
      /\ \A k \in 1..Len(q) : (k = Len(q) /\ q[k] = c) \/ (k \in 1..Len(m_queue) /\ q[k] = m_queue[k])
  <2>1. q \in Seq(Connections) /\ Len(q) = Len(m_queue) + 1 /\ Range(q) = Range(m_queue) \cup {c}
    BY <1>2, PushBack DEF TypeOK
  <2>2. Len(m_queue) \in Nat /\ q[Len(m_queue) + 1] = c /\ \A k \in 1..Len(m_queue) : q[k] = m_queue[k]
    BY <1>2 DEF TypeOK
  <2> HIDE DEF q, c
  <2> QED BY <2>1, <2>2
<1>4. m_queue' = q
  OBVIOUS
<1> HIDE DEF q
<1>5. TypeOK'
  BY <1>1, <1>3, <1>4 DEF TypeOK, Places
<1>6. WhereThreadsAre' /\ WhatThreadsHave'
  BY <1>1 DEF TypeOK, WhereThreadsAre, WhatThreadsHave, UserPlaces, MainPlaces, Threads, Putting
<1>7. WhereMainIs'
  BY <1>1 DEF TypeOK, WhereMainIs, Threads, Stopping, Putting
<1>8. At({"woken", "take"})' = At({"woken", "take"}) /\ At({"recreate"})' = At({"recreate"})
  BY <1>1 DEF At, TypeOK
<1>9. SemaphoreCounts'
  <2>1. Cardinality(At({"test", "post"})') = Cardinality(At({"test", "post"})) + 1
    <3> HIDE DEF PutQueue, IInv
    <3>1. TypeOK
      BY DEF IInv
    <3> QED BY <1>1, <3>1, Moves
  <2>2. /\ Cardinality(At({"test", "post"})) \in Nat /\ Cardinality(At({"woken", "take"})) \in Nat
        /\ m_sem \in Nat
    BY AtCounts DEF TypeOK
  <2> QED BY <1>3, <1>4, <1>8, <2>1, <2>2, Counts
<1>10. SingleUse'
  <2>1. c \notin twice => /\ c \in live /\ c \notin Range(m_queue)
                       /\ \A u \in Threads \ {t} : pc[u] \in {"using", "put", "enqueue"} => conn[u] # c
    BY <1>1 DEF SingleUse
  <2>2. \A k \in 1..Len(m_queue) : m_queue[k] \in Range(m_queue)
    BY DEF Range, TypeOK
  <2> HIDE DEF c
  <2>3. \A j, k \in 1..Len(q) : (j # k /\ q[j] \notin twice) => q[j] # q[k]
    BY <1>3, <2>1, <2>2 DEF SingleUse
  <2>4. \A u \in Threads : pc'[u] \in {"using", "put", "enqueue"} => u # t /\ pc[u] \in {"using", "put", "enqueue"}
    BY <1>1 DEF TypeOK
  <2>5. Range(q) \ twice \subseteq live
    BY <1>3, <2>1 DEF SingleUse
  <2>6. \A u \in Threads : (pc'[u] \in {"using", "put", "enqueue"} /\ conn[u] \notin twice) =>
           /\ conn[u] \in live \ Range(q)
           /\ \A v \in Threads \ {u} : pc'[v] \in {"using", "put", "enqueue"} => conn[v] # conn[u]
    BY <1>1, <1>3, <2>1, <2>4 DEF SingleUse, c
  <2> QED BY <1>4, <2>3, <2>5, <2>6 DEF SingleUse
<1>11. LiveAreCounted'
  BY <1>1, <1>8 DEF LiveAreCounted, TypeOK, Threads, Putting
<1> QED BY <1>5, <1>6, <1>7, <1>9, <1>10, <1>11

\* It returns, once it has posted the semaphore or found the pool being stopped, or at
\* once if the pool has been stopped.
LEMMA PutReturnsIInv ==
  ASSUME IInv, NEW t \in Threads,
         PutPost(t) \/ (PutTest(t) /\ m_stop) \/ (PutMsg(t) /\ ~ m_initialized)
  PROVE  IInv'
<1> USE PoolAssumption DEF IInv, Goto
<1> DEFINE again == puts[t] > 1
           place == IF again THEN "put" ELSE IF t = Main THEN "create" ELSE "idle"
<1>0. ASSUME PutMsg(t), ~ m_initialized PROVE m_stop
  BY <1>0 DEF WhereMainIs, Stopping, PutMsg, Threads
<1>1. /\ pc[t] \in Putting /\ pc' = [pc EXCEPT ![t] = place]
      /\ puts' = [puts EXCEPT ![t] = @ - 1]
      /\ conn' = [conn EXCEPT ![t] = IF again THEN @ ELSE NULL]
      /\ m_num' = IF t = Main THEN m_num + 1 ELSE m_num
      /\ UNCHANGED <<m_queue, m_lock, m_stop, m_initialized, live, nCount, i, twice>>
  BY DEF PutPost, PutTest, PutMsg, PutReturns, Putting, shared
<1>2. m_sem' \in Nat /\ ((m_sem' = m_sem + 1 /\ pc[t] = "post") \/ m_stop)
  BY <1>0 DEF PutPost, PutTest, PutMsg, shared, TypeOK
<1>3. puts[t] \in 1..2 /\ (again => t # Main /\ conn[t] \in twice)
  BY <1>1 DEF TypeOK, WhatThreadsHave, Putting
<1>4. t = Main => m_num = i - 1
  BY <1>1 DEF WhereMainIs, Putting
<1> HIDE DEF again
<1>5. TypeOK'
  <2>1. m_num' \in 0..nConnNum \cup {10}
    BY <1>1, <1>4 DEF TypeOK
  <2> QED BY <1>1, <1>2, <1>3, <2>1 DEF TypeOK, Places, again
<1>6. WhereThreadsAre'
  BY <1>1, <1>3 DEF TypeOK, WhereThreadsAre, UserPlaces, MainPlaces, Threads
<1>7. WhatThreadsHave'
  BY <1>1, <1>3 DEF TypeOK, WhatThreadsHave, Putting, again
<1>8. WhereMainIs'
  <2>1. CASE t = Main
    BY <1>1, <1>3, <1>4, <2>1 DEF TypeOK, WhereMainIs, Stopping, Putting
  <2>2. CASE t # Main
    <3>1. pc[Main] # "init"
      BY <1>1, <2>2 DEF WhereMainIs, Putting, Threads
    <3>2. pc'[Main] = pc[Main] /\ m_num' = m_num
      BY <1>1, <2>2 DEF TypeOK, Threads
    <3> QED BY <1>1, <3>1, <3>2 DEF WhereMainIs
  <2> QED BY <2>1, <2>2
<1>9. At({"woken", "take"})' = At({"woken", "take"}) /\ At({"recreate"})' = At({"recreate"})
  BY <1>1 DEF At, TypeOK, Putting
<1>10. SemaphoreCounts'
  <2>1. CASE m_stop
    BY <1>1, <2>1, Counts
  <2>2. CASE ~ m_stop
    <3>1. Cardinality(At({"test", "post"})') = Cardinality(At({"test", "post"})) - 1
      <4>1. Goto(t, place) /\ pc[t] = "post"
        BY <1>1, <1>2, <2>2
      <4> HIDE DEF Goto
      <4> QED BY <4>1, Moves
    <3>2. /\ Cardinality(At({"test", "post"})) \in Nat /\ Cardinality(At({"woken", "take"})) \in Nat
          /\ m_sem \in Nat /\ Len(m_queue) \in Nat
      BY AtCounts DEF TypeOK
    <3> QED BY <1>1, <1>2, <1>9, <2>2, <3>1, <3>2, Counts
  <2> QED BY <2>1, <2>2
<1>11. SingleUse'
  <2>1. ASSUME NEW u \in Threads, pc'[u] \in {"using", "put", "enqueue"}
        PROVE  conn'[u] = conn[u] /\ (pc[u] \in {"using", "put", "enqueue"} \/ conn[u] \in twice)
    BY <1>1, <1>3, <2>1 DEF TypeOK
  <2>2. UNCHANGED <<m_queue, live, twice>>
    BY <1>1
  <2> QED BY <2>1, <2>2 DEF SingleUse
<1>12. LiveAreCounted'
  <2>1. CASE t = Main
    <3>1. ~ m_stop /\ pc[Main] \in Putting /\ pc'[Main] = "create" /\ m_num' = m_num + 1 /\ m_num \in Nat
      BY <1>1, <1>3, <2>1 DEF TypeOK, WhereMainIs, Stopping, Putting
    <3> QED BY <1>1, <1>9, <3>1 DEF LiveAreCounted, Putting
  <2>2. CASE t # Main
    BY <1>1, <1>9, <2>2 DEF LiveAreCounted, TypeOK, Threads
  <2> QED BY <2>1, <2>2
<1> QED BY <1>5, <1>6, <1>7, <1>8, <1>10, <1>11, <1>12

\* It goes on to the queue, or to post the semaphore.
LEMMA PutGoesOnIInv ==
  ASSUME IInv, NEW t \in Threads, (PutTest(t) /\ ~ m_stop) \/ (PutMsg(t) /\ m_initialized)
  PROVE  IInv'
<1> USE PoolAssumption DEF IInv
<1>1. PICK x \in {"post", "enqueue"} :
        /\ pc[t] = (IF x = "post" THEN "test" ELSE "put") /\ pc' = [pc EXCEPT ![t] = x]
        /\ UNCHANGED <<m_queue, m_sem, m_lock, flags, live, nCount, conn, puts, i, twice>>
  BY DEF PutTest, PutMsg, Goto, shared, flags
<1> USE DEF flags
<1>2. TypeOK'
  BY <1>1 DEF TypeOK, Places
<1>3. WhereThreadsAre' /\ WhatThreadsHave'
  BY <1>1 DEF TypeOK, WhereThreadsAre, WhatThreadsHave, UserPlaces, MainPlaces, Threads, Putting
<1>4. WhereMainIs'
  BY <1>1 DEF TypeOK, WhereMainIs, Threads, Stopping, Putting
<1>5. /\ At({"test", "post"})' = At({"test", "post"})
      /\ At({"woken", "take"})' = At({"woken", "take"})
      /\ At({"recreate"})' = At({"recreate"})
  BY <1>1 DEF At, TypeOK
<1>6. SemaphoreCounts'
  BY <1>1, <1>5, Counts
<1>7. SingleUse'
  BY <1>1 DEF SingleUse, TypeOK
<1>8. LiveAreCounted'
  BY <1>1, <1>5 DEF LiveAreCounted, TypeOK, Threads, Putting
<1> QED BY <1>2, <1>3, <1>4, <1>6, <1>7, <1>8

-----------------------------------------------------------------------------
LEMMA StutterIInv == IInv /\ UNCHANGED vars => IInv'
BY DEF IInv, TypeOK, WhereThreadsAre, WhatThreadsHave, WhereMainIs, SemaphoreCounts, SingleUse,
       LiveAreCounted, At, vars, shared, flags, local

LEMMA NextIInv == IInv /\ [Next]_vars => IInv'
<1> SUFFICES ASSUME IInv, [Next]_vars PROVE IInv'
  OBVIOUS
<1>1. CASE MainStep
  BY <1>1, MainIInv, CreateIInv DEF MainStep
<1>2. CASE Stop \/ StopLock \/ Terminate \/ Stopped
  BY <1>2, MainIInv, TerminateIInv
<1>3. ASSUME NEW t \in Threads, GetConnection(t) \/ Step(t) \/ Contend(t) PROVE IInv'
  BY <1>3, UserIInv, PutQueueIInv, PutReturnsIInv, PutGoesOnIInv, TakeIInv, TakeWornIInv, ReCreateIInv
     DEF Step, Contend
<1> QED BY <1>1, <1>2, <1>3, StutterIInv DEF Next

\* The state of the pool is always one that its code can be understood in.
THEOREM Invariance == Safety => []IInv
BY InitIInv, NextIInv, PTL DEF Safety

\* Until the pool is stopped, the semaphore and the threads between the semaphore and the
\* queue account for every connection of the queue: sem_post and the append of PutMsg are
\* two steps, as are sem_wait and the pop of GetConnection.
THEOREM SemaphoreSound == Safety => []PoolIsSound
<1>1. IInv => PoolIsSound
  BY DEF IInv, PoolIsSound
<1> QED BY Invariance, <1>1, PTL

\* A connection that was not released twice is used by one thread at a time and exists while
\* it is used; when Stop returns, none is left behind.
THEOREM ConnectionsExclusive == Safety => []ConnectionsAreExclusive
<1>1. IInv => ConnectionsAreExclusive
  <2> SUFFICES ASSUME IInv PROVE StopTerminatesAll
    BY DEF IInv, ConnectionsAreExclusive
  <2> SUFFICES ASSUME pc[Main] = "stopped", twice = {} PROVE live = {}
    BY DEF StopTerminatesAll
  <2>1. m_stop /\ i = m_num /\ i \in Nat
    BY PoolAssumption DEF IInv, WhereMainIs, Stopping, TypeOK
  <2>2. Cardinality(live) + Cardinality(At({"recreate"})) + i = m_num
    BY <2>1 DEF IInv, LiveAreCounted, Putting
  <2>3. Cardinality(At({"recreate"})) \in Nat /\ Cardinality(live) \in Nat /\ IsFiniteSet(live)
    BY AtCounts, LiveFinite DEF IInv
  <2>4. Cardinality(live) = 0
    BY <2>1, <2>2, <2>3
  <2> QED BY <2>3, <2>4, FS_EmptySet
<1> QED BY Invariance, <1>1, PTL

\* A thread that the semaphore lets through finds a connection, whoever takes, releases or
\* replaces one between its sem_wait and its pop.
THEOREM WokenAreServed == Safety => NotEmptyHanded
<1>1. ASSUME IInv, [Next]_vars, NEW t \in Users, pc[t] \in {"woken", "take"}, pc'[t] = "idle"
      PROVE  m_stop
  <2> USE PoolAssumption, <1>1 DEF IInv
  <2>1. t \in Threads /\ t # Main /\ pc \in [Threads -> Places]
    BY DEF Threads, TypeOK
  <2>2. CASE TestStop(t)
    BY <2>1, <2>2 DEF TestStop, Goto
  <2>3. CASE TakeNothing(t)
    <3>1. t \in At({"woken", "take"})
      BY <2>1 DEF At
    <3>2. Cardinality(At({"woken", "take"})) # 0
      <4>1. IsFiniteSet(At({"woken", "take"}))
        BY PoolAssumption, FS_AddElement, FS_Subset DEF Threads, At
      <4> QED BY <3>1, <4>1, FS_EmptySet
    <3>3. /\ Cardinality(At({"woken", "take"})) \in Nat /\ Cardinality(At({"test", "post"})) \in Nat
          /\ m_sem \in Nat /\ Len(m_queue) = 0
      BY <2>3, AtCounts DEF TypeOK, TakeNothing
    <3> QED BY <3>2, <3>3, Counts
  <2>4. CASE ~ TestStop(t) /\ ~ TakeNothing(t)
    <3>1. ASSUME NEW u \in Threads, GetConnection(u) \/ Step(u) \/ Contend(u) PROVE FALSE
      <4>1. pc'[t] = pc[t] \/ u = t
        BY <2>1, <3>1 DEF GetConnection, Step, Contend, PutMsg, PutTest, PutPost, PutReturns, TestStop, Query,
           LoadCSCF_RDConfigData, Add_CDR_RecordDetailInfo, Add_CDR_RecordInfo, Get_CDR_RateInfo,
           ReleasedOnce, QueryThrows, PutQueue, SemWait, Take, TakeWorn, TakeNothing,
           ReCreateConnection, Goto
      <4>2. u # t
        BY <2>1, <2>4, <3>1 DEF GetConnection, Step, Contend, PutMsg, PutTest, PutPost, Query,
           LoadCSCF_RDConfigData, Add_CDR_RecordDetailInfo, Add_CDR_RecordInfo, Get_CDR_RateInfo,
           ReleasedOnce, QueryThrows, PutQueue, SemWait, Take, TakeWorn, ReCreateConnection, Goto
      <4> QED BY <4>1, <4>2
    <3>2. ASSUME MainStep \/ Stop \/ StopLock \/ Terminate \/ Stopped PROVE FALSE
      BY <2>1, <3>2 DEF MainStep, InitPool, CreateConnection, CreateFails, Created, Stop, StopLock,
         Terminate, Stopped, Goto
    <3>3. vars' # vars
      BY DEF vars
    <3> QED BY <3>1, <3>2, <3>3 DEF Next
  <2> QED BY <2>2, <2>3, <2>4
<1>2. IInv /\ [Next]_vars =>
        [\A t \in Users : (pc[t] \in {"woken", "take"} /\ pc'[t] = "idle") => m_stop]_vars
  BY <1>1
<1> QED BY Invariance, <1>2, PTL DEF Safety, NotEmptyHanded
=============================================================================
