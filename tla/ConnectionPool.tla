--------------------------- MODULE ConnectionPool ---------------------------
(***************************************************************************)
(* CdbConncetPool (DB_interface/src/DbConnectPool.cpp): database           *)
(* connections in a queue (SafeQueue, DB_interface/h/threadUtil.h) guarded *)
(* by m_lock and counted by the semaphore m_sem, between the threads that  *)
(* query the database (DB_interface/src/Sdfdb.cpp).                        *)
(*                                                                         *)
(* One thread, Main, initializes the pool, creates the connections and, as *)
(* the process ends, runs the destructor, which calls Stop().  The others  *)
(* go through GetConnection, a query and ReleaseConnection again and again.*)
(***************************************************************************)
EXTENDS Integers, Sequences, FiniteSets, Functions

CONSTANTS Users, Main,
          Connections,   (* addresses of Connection objects; a bound         *)
          nConnNum,      (* the argument of CreateConnectionPool             *)
          MAXCOUNT,      (* uses after which a connection is replaced        *)
          MaxErrors,     (* bound: queries that throw in a behaviour         *)
          NULL

ASSUME PoolAssumption ==
  /\ IsFiniteSet(Users) /\ IsFiniteSet(Connections)
  /\ Main \notin Users
  /\ NULL \notin Users \cup {Main} \cup Connections
  /\ nConnNum \in Nat /\ MAXCOUNT \in Nat /\ MaxErrors \in Nat

Threads == Users \cup {Main}

VARIABLES m_queue, m_sem,
          m_lock,         (* the owner of the mutex, or NULL                 *)
          m_stop, m_initialized, m_num,
          live,           (* the Connection objects that exist               *)
          nCount,         (* their member                                    *)
          pc,             (* where each thread is                            *)
          conn,           (* the connection each thread has                  *)
          puts,           (* how often the thread has still to put it back   *)
          i,              (* the loop counter of CreateConnectionPool, Stop  *)
          twice           (* the connections that were put back twice        *)

shared == <<m_queue, m_sem, m_lock>>
flags  == <<m_stop, m_initialized, m_num>>
local  == <<conn, puts, i>>
vars   == <<shared, flags, live, nCount, pc, local, twice>>

Init == /\ m_queue = <<>> /\ m_sem = 0 /\ m_lock = NULL
        /\ m_stop = FALSE /\ m_initialized = FALSE
        /\ m_num = 10
        /\ live = {}
        /\ nCount = [c \in Connections |-> 0]
        /\ pc = [t \in Threads |-> IF t = Main THEN "init" ELSE "idle"]
        /\ conn = [t \in Threads |-> NULL]
        /\ puts = [t \in Threads |-> 0]
        /\ i = 0
        /\ twice = {}

Goto(t, place) == pc' = [pc EXCEPT ![t] = place]

\* What new may return: an address that nothing refers to.
Unused == Connections \ (live \cup Range(m_queue) \cup {conn[t] : t \in Threads})

-----------------------------------------------------------------------------
(***************************************************************************)
(* Init() and CreateConnectionPool()                                       *)
(***************************************************************************)
InitPool == /\ pc[Main] = "init"
            /\ m_initialized' = TRUE
            /\ m_num' = 0
            /\ Goto(Main, "create")
            /\ UNCHANGED <<shared, m_stop, live, nCount, local, twice>>

New(t, c) == /\ c \in Unused
             /\ live' = live \cup {c}
             /\ nCount' = [nCount EXCEPT ![c] = 0]
             /\ conn' = [conn EXCEPT ![t] = c]

CreateConnection(c) == /\ pc[Main] = "create"
                       /\ i < nConnNum
                       /\ New(Main, c)
                       /\ puts' = [puts EXCEPT ![Main] = 1]
                       /\ i' = i + 1
                       /\ Goto(Main, "put")
                       /\ UNCHANGED <<shared, flags, twice>>

\* The database refuses: the connections created so far stay in the queue.
CreateFails == /\ pc[Main] = "create"
               /\ i < nConnNum
               /\ Goto(Main, "failed")
               /\ UNCHANGED <<shared, flags, live, nCount, local, twice>>

Created == /\ pc[Main] = "create"
           /\ i = nConnNum
           /\ Goto(Main, "up")
           /\ UNCHANGED <<shared, flags, live, nCount, local, twice>>

-----------------------------------------------------------------------------
(***************************************************************************)
(* PutMsg(), also called by ReleaseConnection()                            *)
(***************************************************************************)
\* PutMsg returns to CreateConnectionPool, or to the user of the connection.
PutReturns(t) ==
  LET again == puts[t] > 1
  IN  /\ puts' = [puts EXCEPT ![t] = @ - 1]
      /\ conn' = [conn EXCEPT ![t] = IF again THEN @ ELSE NULL]
      /\ m_num' = IF t = Main THEN m_num + 1 ELSE m_num
      /\ Goto(t, IF again THEN "put" ELSE IF t = Main THEN "create" ELSE "idle")

\* A pool that has been stopped takes no connection back.
PutMsg(t) == /\ pc[t] = "put"
             /\ IF ~m_initialized THEN PutReturns(t)
                ELSE Goto(t, "enqueue") /\ UNCHANGED <<puts, conn, m_num>>
             /\ UNCHANGED <<shared, m_stop, m_initialized, live, nCount, i, twice>>

PutQueue(t) == /\ pc[t] = "enqueue"
               /\ m_lock = NULL
               /\ m_queue' = Append(m_queue, conn[t])
               /\ Goto(t, "test")
               /\ UNCHANGED <<m_sem, m_lock, flags, live, nCount, local, twice>>

\* The semaphore is posted unless the pool is being stopped.
PutTest(t) == /\ pc[t] = "test"
              /\ IF m_stop THEN PutReturns(t)
                 ELSE Goto(t, "post") /\ UNCHANGED <<puts, conn, m_num>>
              /\ UNCHANGED <<shared, m_stop, m_initialized, live, nCount, i, twice>>

\* Mutant: only the first connection is signalled.
PutPostOnce(t) == /\ pc[t] = "post"
                  /\ m_sem' = IF Len(m_queue) = 1 THEN m_sem + 1 ELSE m_sem
                  /\ PutReturns(t)
                  /\ UNCHANGED <<m_queue, m_lock, m_stop, m_initialized, live, nCount, i, twice>>

\* Mutant: the semaphore is posted a second time.
PutPostTwice(t) == /\ pc[t] = "post"
                   /\ m_sem' = m_sem + 2
                   /\ PutReturns(t)
                   /\ UNCHANGED <<m_queue, m_lock, m_stop, m_initialized, live, nCount, i, twice>>

PutPost(t) == /\ pc[t] = "post"
              /\ m_sem' = m_sem + 1
              /\ PutReturns(t)
              /\ UNCHANGED <<m_queue, m_lock, m_stop, m_initialized, live, nCount, i, twice>>

-----------------------------------------------------------------------------
(***************************************************************************)
(* GetConnection()                                                         *)
(***************************************************************************)
\* Nobody asks for a connection before Init() has initialized the semaphore.
GetConnection(t) == /\ t \in Users /\ pc[t] = "idle"
                    /\ m_initialized
                    /\ Goto(t, "wait")
                    /\ UNCHANGED <<shared, flags, live, nCount, local, twice>>

SemWait(t) == /\ pc[t] = "wait"
              /\ m_sem > 0
              /\ m_sem' = m_sem - 1
              /\ Goto(t, "woken")
              /\ UNCHANGED <<m_queue, m_lock, flags, live, nCount, local, twice>>

\* NULL is returned when the pool is being stopped.
TestStop(t) == /\ pc[t] = "woken"
               /\ Goto(t, IF m_stop THEN "idle" ELSE "take")
               /\ UNCHANGED <<shared, flags, live, nCount, local, twice>>

\* Mutant: the old connection stays in the queue while it is replaced.
TakeWornKeeps(t) == LET c == Head(m_queue)
                    IN  /\ pc[t] = "take" /\ m_lock = NULL
                        /\ m_queue # <<>> /\ nCount[c] > MAXCOUNT
                        /\ m_lock' = t
                        /\ live' = live \ {c}
                        /\ Goto(t, "recreate")
                        /\ UNCHANGED <<m_queue, m_sem, flags, nCount, local, twice>>

\* A connection that was used too often is terminated, with the mutex held ...
TakeWorn(t) == LET c == Head(m_queue)
               IN  /\ pc[t] = "take" /\ m_lock = NULL
                   /\ m_queue # <<>> /\ nCount[c] > MAXCOUNT
                   /\ m_queue' = Tail(m_queue)
                   /\ m_lock' = t
                   /\ live' = live \ {c}
                   /\ Goto(t, "recreate")
                   /\ UNCHANGED <<m_sem, flags, nCount, local, twice>>

\* Mutant: the mutex stays locked.
ReCreateLocked(t, c) == /\ pc[t] = "recreate"
                        /\ New(t, c)
                        /\ Goto(t, "using")
                        /\ UNCHANGED <<shared, flags, puts, i, twice>>

\* ... and replaced, at the first attempt that succeeds.
ReCreateConnection(t, c) == /\ pc[t] = "recreate"
                            /\ New(t, c)
                            /\ m_lock' = NULL
                            /\ Goto(t, "using")
                            /\ UNCHANGED <<m_queue, m_sem, flags, puts, i, twice>>

Take(t) == LET c == Head(m_queue)
           IN  /\ pc[t] = "take" /\ m_lock = NULL
               /\ m_queue # <<>> /\ nCount[c] <= MAXCOUNT
               /\ m_queue' = Tail(m_queue)
               /\ nCount' = [nCount EXCEPT ![c] = @ + 1]
               /\ conn' = [conn EXCEPT ![t] = c]
               /\ Goto(t, "using")
               /\ UNCHANGED <<m_sem, m_lock, flags, live, puts, i, twice>>

\* The queue is empty after all: NULL is returned.
TakeNothing(t) == /\ pc[t] = "take" /\ m_lock = NULL
                  /\ m_queue = <<>>
                  /\ Goto(t, "idle")
                  /\ UNCHANGED <<shared, flags, live, nCount, local, twice>>

-----------------------------------------------------------------------------
(***************************************************************************)
(* The queries (CDR_DBInfoManager): what each does with its connection.    *)
(***************************************************************************)
ReleasedOnce(t) == /\ pc[t] = "using"
                   /\ puts' = [puts EXCEPT ![t] = 1]
                   /\ Goto(t, "put")
                   /\ UNCHANGED <<shared, flags, live, nCount, conn, i, twice>>

\* These three release it once, in the handler of an exception or at the end.
LoadCSCF_RDConfigData(t) == ReleasedOnce(t)
Add_CDR_RecordDetailInfo(t) == ReleasedOnce(t)
Add_CDR_RecordInfo(t) == ReleasedOnce(t)

\* When the query of Get_CDR_RateInfo throws, the connection is released in the handler,
\* and once more behind it.
QueryThrows(t) == /\ pc[t] = "using"
                  /\ Cardinality(twice) < MaxErrors
                  /\ puts' = [puts EXCEPT ![t] = 2]
                  /\ twice' = twice \cup {conn[t]}
                  /\ Goto(t, "put")
                  /\ UNCHANGED <<shared, flags, live, nCount, conn, i>>

Get_CDR_RateInfo(t) == ReleasedOnce(t) \/ QueryThrows(t)

Query(t) == \/ LoadCSCF_RDConfigData(t) \/ Add_CDR_RecordDetailInfo(t)
            \/ Add_CDR_RecordInfo(t) \/ Get_CDR_RateInfo(t)

-----------------------------------------------------------------------------
(***************************************************************************)
(* Stop(), called by the destructor                                        *)
(***************************************************************************)
Stop == /\ pc[Main] \in {"up", "failed"}
        /\ m_stop' = TRUE
        /\ i' = 0
        /\ Goto(Main, "lock")
        /\ UNCHANGED <<shared, m_initialized, m_num, live, nCount, conn, puts, twice>>

StopLock == /\ pc[Main] = "lock"
            /\ m_lock = NULL
            /\ m_lock' = Main
            /\ Goto(Main, "stopping")
            /\ UNCHANGED <<m_queue, m_sem, flags, live, nCount, local, twice>>

\* One turn of the loop.  While the queue is empty it sleeps and tries again,
\* with the mutex held: that turn changes nothing and is not a step.
Terminate == /\ pc[Main] = "stopping"
             /\ i < m_num
             /\ m_queue # <<>>
             /\ m_queue' = Tail(m_queue)
             /\ live' = live \ {Head(m_queue)}
             /\ i' = i + 1
             /\ UNCHANGED <<m_sem, m_lock, flags, nCount, pc, conn, puts, twice>>

Stopped == /\ pc[Main] = "stopping"
           /\ i = m_num
           /\ m_lock' = NULL
           /\ m_initialized' = FALSE
           /\ Goto(Main, "stopped")
           /\ UNCHANGED <<m_queue, m_sem, m_stop, m_num, live, nCount, local, twice>>

-----------------------------------------------------------------------------
MainStep == InitPool \/ (\E c \in Connections : CreateConnection(c)) \/ CreateFails \/ Created

Step(t) == PutMsg(t) \/ PutTest(t) \/ PutPost(t) \/ TestStop(t) \/ Query(t)

\* The steps that need the mutex, a signal or the database.
Contend(t) == \/ PutQueue(t) \/ SemWait(t) \/ Take(t) \/ TakeWorn(t) \/ TakeNothing(t)
              \/ \E c \in Connections : ReCreateConnection(t, c)

Next == \/ MainStep
        \/ Stop \/ StopLock \/ Terminate \/ Stopped
        \/ \E t \in Threads : GetConnection(t) \/ Step(t) \/ Contend(t)

Safety == Init /\ [][Next]_vars

\* Threads run on; one that tries again and again gets the mutex, a signal of
\* the semaphore and, in ReCreateConnection, the database.  Nothing makes the
\* process end.
Spec == Safety /\ WF_vars(MainStep)
               /\ \A t \in Threads : WF_vars(Step(t)) /\ SF_vars(Contend(t))

-----------------------------------------------------------------------------
Places == {"idle", "wait", "woken", "take", "recreate", "using", "put", "enqueue", "test", "post",
           "init", "create", "failed", "up", "lock", "stopping", "stopped"}

TypeOK == /\ m_queue \in Seq(Connections)
          /\ m_sem \in Nat
          /\ m_lock \in Threads \cup {NULL}
          /\ m_stop \in BOOLEAN /\ m_initialized \in BOOLEAN
          /\ m_num \in 0..nConnNum \cup {10}   \* 10 until Init()
          /\ live \subseteq Connections /\ twice \subseteq Connections
          /\ nCount \in [Connections -> 0..(MAXCOUNT + 1)]
          /\ pc \in [Threads -> Places]
          /\ conn \in [Threads -> Connections \cup {NULL}]
          /\ puts \in [Threads -> 0..2]
          /\ i \in 0..nConnNum

\* Until the pool is stopped the semaphore counts the queue: less the signals
\* still to be given, and those taken by threads that have yet to take the
\* connection.
SemaphoreCounts ==
  LET at(places) == Cardinality({t \in Threads : pc[t] \in places})
  IN  ~m_stop => Len(m_queue) = m_sem + at({"test", "post"}) + at({"woken", "take"})

PoolIsSound == TypeOK /\ SemaphoreCounts

\* GetConnection returns NULL only when the pool is being stopped: a thread that
\* was let through by the semaphore finds a connection, whoever else takes,
\* releases or replaces one in between.
NotEmptyHanded ==
  [][\A t \in Users : (pc[t] \in {"woken", "take"} /\ pc'[t] = "idle") => m_stop]_vars

\* A connection is in the queue once or with one thread, and exists; so no two
\* threads use one at a time and none is used after it was terminated.  The
\* connections that Get_CDR_RateInfo has released twice are the exception.
SingleUse ==
  LET using == {t \in Threads : pc[t] \in {"using", "put", "enqueue"}}
  IN  /\ \A j, k \in 1..Len(m_queue) : (j # k /\ m_queue[j] \notin twice) => m_queue[j] # m_queue[k]
      /\ Range(m_queue) \ twice \subseteq live
      /\ \A t \in using : conn[t] \notin twice =>
           /\ conn[t] \in live \ Range(m_queue)
           /\ \A u \in using \ {t} : conn[u] # conn[t]

\* When Stop() returns every connection has been terminated, unless one was
\* released twice (it then stands for another in the count).
StopTerminatesAll == (pc[Main] = "stopped" /\ twice = {}) => live = {}

\* No connection is used by two threads, after it was terminated, or left behind.
ConnectionsAreExclusive == SingleUse /\ StopTerminatesAll

\* A thread that asks for a connection gets one, unless none could be created
\* or the pool is being stopped.  A connection being replaced holds everybody
\* up until the database is back.
GetReturns == \A t \in Users :
  pc[t] = "wait" ~> \/ pc[t] = "using"
                    \/ m_stop
                    \/ pc[Main] = "failed" /\ m_num = 0
=============================================================================
