-------------------------- MODULE ThreadPoolProofs --------------------------
(***************************************************************************)
(* Proofs about MessageQueue.tla and ThreadPool.tla, for any threads,      *)
(* messages, arguments and sequence of calls: first the queue, under its   *)
(* own specification Safety, then the pool that uses it, under PoolSafety. *)
(***************************************************************************)
EXTENDS ThreadPool, ListLemmas, FiniteSetTheorems

(***************************************************************************)
(* The message queue                                                       *)
(***************************************************************************)
\* Outside of post() and performTask a thread has no message in its hands.
EmptyHands == \A t \in Threads : pc[t] \notin {"insert", "taken", "busy"} => msg[t] = NULL

\* Nobody inserted the poster's message while the poster held the lock.
InsertFresh == \A p \in Posters : pc[p] = "insert" => msg[p] \in Messages \ Range(queue)

\* The inductive invariant: the lock orders the accesses to the list, so what
\* a thread saw under the lock is still so when it acts on it.
IInv == /\ TypeOK
        /\ MutexIsSound
        /\ EmptyHands
        /\ NoNullTask
        /\ InsertFresh
        /\ NeverPopEmpty
        /\ SingleOwner

-----------------------------------------------------------------------------
\* The initial state satisfies the inductive invariant.
LEMMA InitIInv == Init => IInv
BY ThreadsAssumption DEF Init, IInv, TypeOK, MutexIsSound, EmptyHands, NoNullTask, InsertFresh, NeverPopEmpty,
   SingleOwner, Threads, PosterStates, WorkerStates, Holding, Range

USE DEF PosterStates, WorkerStates, Holding, Threads

\* post() preserves the inductive invariant.
LEMMA PostIInv ==
  ASSUME IInv, NEW p \in Posters,
         \/ \E m \in Messages : PostLock(p, m)
         \/ PostStep(p)
  PROVE  IInv'
<1> USE ThreadsAssumption DEF IInv
<1>1. ASSUME NEW m \in Messages, PostLock(p, m) PROVE IInv'
  <2> USE <1>1 DEF PostLock, Lock, Goto
  <2>1. TypeOK' BY DEF TypeOK
  <2>2. MutexIsSound' BY DEF TypeOK, MutexIsSound
  <2>3. EmptyHands' BY DEF TypeOK, EmptyHands
  <2>4. NoNullTask' BY DEF TypeOK, NoNullTask, EmptyHands
  <2>5. InsertFresh' BY DEF TypeOK, InsertFresh, MutexIsSound, Fresh
  <2>6. NeverPopEmpty' BY DEF TypeOK, NeverPopEmpty, MutexIsSound
  <2>7. SingleOwner' BY DEF TypeOK, SingleOwner, Fresh
  <2> QED BY <2>1, <2>2, <2>3, <2>4, <2>5, <2>6, <2>7
<1>2. CASE PostInsert(p)
  <2> DEFINE m == msg[p]
  <2>0. m \in Messages /\ m \notin Range(queue) /\ lock = p
    BY <1>2 DEF PostInsert, InsertFresh, MutexIsSound
  <2>1. queue' = <<m>> \o queue \/ queue' = Append(queue, m)
    BY <1>2 DEF PostInsert
  <2>2. queue \in Seq(Messages) /\ \A i, j \in 1..Len(queue) : i # j => queue[i] # queue[j]
    BY DEF TypeOK, SingleOwner
  <2>3. /\ queue' \in Seq(Messages)
        /\ Len(queue') = Len(queue) + 1
        /\ Range(queue') = Range(queue) \cup {m}
        /\ \A i, j \in 1..Len(queue') : i # j => queue'[i] # queue'[j]
    <3>1. CASE queue' = <<m>> \o queue
      BY <2>0, <2>2, <3>1, PushFront
    <3>2. CASE queue' = Append(queue, m)
      BY <2>0, <2>2, <3>2, PushBack
    <3> QED BY <2>1, <3>1, <3>2
  <2> USE <1>2 DEF PostInsert, Goto
  <2>4. TypeOK' BY <2>3 DEF TypeOK
  <2>5. MutexIsSound' BY DEF TypeOK, MutexIsSound
  <2>6. EmptyHands' BY DEF TypeOK, EmptyHands
  <2>7. NoNullTask' BY DEF TypeOK, NoNullTask
  <2>8. InsertFresh' BY <2>0 DEF TypeOK, InsertFresh, MutexIsSound
  <2>9. NeverPopEmpty' BY <2>0 DEF TypeOK, NeverPopEmpty, MutexIsSound
  <2>10. SingleOwner' BY <2>0, <2>3 DEF TypeOK, SingleOwner
  <2> QED BY <2>4, <2>5, <2>6, <2>7, <2>8, <2>9, <2>10
<1>3. CASE PostUnlock(p)
  <2> USE <1>3 DEF PostUnlock, Unlock, Goto
  <2>1. TypeOK' BY DEF TypeOK
  <2>2. MutexIsSound' BY DEF TypeOK, MutexIsSound
  <2>3. EmptyHands' BY DEF TypeOK, EmptyHands
  <2>4. NoNullTask' BY DEF TypeOK, NoNullTask, EmptyHands
  <2>5. InsertFresh' BY DEF TypeOK, InsertFresh, MutexIsSound, Fresh
  <2>6. NeverPopEmpty' BY DEF TypeOK, NeverPopEmpty, MutexIsSound
  <2>7. SingleOwner' BY DEF TypeOK, SingleOwner, Fresh
  <2> QED BY <2>1, <2>2, <2>3, <2>4, <2>5, <2>6, <2>7
<1>4. CASE PostSignal(p)
  <2> USE <1>4 DEF PostSignal, Goto
  <2>1. TypeOK' BY DEF TypeOK
  <2>2. MutexIsSound' BY DEF TypeOK, MutexIsSound
  <2>3. EmptyHands' BY DEF TypeOK, EmptyHands
  <2>4. NoNullTask' BY DEF TypeOK, NoNullTask, EmptyHands
  <2>5. InsertFresh' BY DEF TypeOK, InsertFresh, MutexIsSound, Fresh
  <2>6. NeverPopEmpty' BY DEF TypeOK, NeverPopEmpty, MutexIsSound
  <2>7. SingleOwner' BY DEF TypeOK, SingleOwner, Fresh
  <2> QED BY <2>1, <2>2, <2>3, <2>4, <2>5, <2>6, <2>7
<1> QED BY <1>1, <1>2, <1>3, <1>4 DEF PostStep

\* read(), the loop of startWorker and cancellation preserve it.
LEMMA WorkerIInv ==
  ASSUME IInv, NEW w \in Workers,
         Acquire(w) \/ WorkerStep(w) \/ CancelPoint(w) \/ SpuriousWakeup(w)
  PROVE  IInv'
<1> USE ThreadsAssumption DEF IInv
<1>1. CASE ReadTake(w)
  <2> DEFINE m == queue[Len(queue)]
             rest == SubSeq(queue, 1, Len(queue) - 1)
  <2>0. queue # <<>> /\ lock = w /\ msg[w] = NULL
    BY <1>1 DEF ReadTake, NeverPopEmpty, MutexIsSound, EmptyHands
  <2>1. queue \in Seq(Messages) /\ \A i, j \in 1..Len(queue) : i # j => queue[i] # queue[j]
    BY DEF TypeOK, SingleOwner
  <2>2. /\ rest \in Seq(Messages)
        /\ Len(rest) = Len(queue) - 1
        /\ m \in Messages
        /\ m \in Range(queue)
        /\ Range(rest) = Range(queue) \ {m}
        /\ \A i, j \in 1..Len(rest) : i # j => rest[i] # rest[j]
    BY <2>0, <2>1, PopBack
  <2> HIDE DEF rest
  <2>3. /\ queue' = IF m = NULL THEN queue ELSE rest
        /\ msg' = [msg EXCEPT ![w] = m]
        /\ pc[w] = "take" /\ pc' = [pc EXCEPT ![w] = "taken"]
        /\ UNCHANGED <<lock, cancelled>>
    BY <1>1 DEF ReadTake, Goto, rest
  <2>4. /\ queue' \in Seq(Messages)
        /\ Range(queue') \subseteq Range(queue)
        /\ m # NULL => m \notin Range(queue')
        /\ \A i, j \in 1..Len(queue') : i # j => queue'[i] # queue'[j]
    BY <2>1, <2>2, <2>3
  <2> HIDE DEF m
  <2>5. TypeOK' BY <2>2, <2>3, <2>4 DEF TypeOK
  <2>6. MutexIsSound' BY <2>3 DEF TypeOK, MutexIsSound
  <2>7. EmptyHands' BY <2>3 DEF TypeOK, EmptyHands
  <2>8. NoNullTask' BY <2>3 DEF TypeOK, NoNullTask
  <2>9. InsertFresh' BY <2>0, <2>3, <2>4 DEF TypeOK, InsertFresh, MutexIsSound
  <2>10. NeverPopEmpty' BY <2>0, <2>3 DEF TypeOK, NeverPopEmpty, MutexIsSound
  <2>11. SingleOwner' BY <2>0, <2>2, <2>3, <2>4 DEF TypeOK, SingleOwner
  <2> QED BY <2>5, <2>6, <2>7, <2>8, <2>9, <2>10, <2>11
<1>2. CASE ReadLock(w)
  <2> USE <1>2 DEF ReadLock, Goto, Lock
  <2>1. TypeOK' BY DEF TypeOK
  <2>2. MutexIsSound' BY DEF TypeOK, MutexIsSound
  <2>3. EmptyHands' BY DEF TypeOK, EmptyHands
  <2>4. NoNullTask' BY DEF TypeOK, NoNullTask, EmptyHands
  <2>5. InsertFresh' BY DEF TypeOK, InsertFresh, MutexIsSound, Fresh
  <2>6. NeverPopEmpty' BY DEF TypeOK, NeverPopEmpty, MutexIsSound
  <2>7. SingleOwner' BY DEF TypeOK, SingleOwner, Fresh
  <2> QED BY <2>1, <2>2, <2>3, <2>4, <2>5, <2>6, <2>7
<1>3. CASE WaitReturn(w)
  <2> USE <1>3 DEF WaitReturn, Goto, Lock
  <2>1. TypeOK' BY DEF TypeOK
  <2>2. MutexIsSound' BY DEF TypeOK, MutexIsSound
  <2>3. EmptyHands' BY DEF TypeOK, EmptyHands
  <2>4. NoNullTask' BY DEF TypeOK, NoNullTask, EmptyHands
  <2>5. InsertFresh' BY DEF TypeOK, InsertFresh, MutexIsSound, Fresh
  <2>6. NeverPopEmpty' BY DEF TypeOK, NeverPopEmpty, MutexIsSound
  <2>7. SingleOwner' BY DEF TypeOK, SingleOwner, Fresh
  <2> QED BY <2>1, <2>2, <2>3, <2>4, <2>5, <2>6, <2>7
<1>4. CASE CancelRelock(w)
  <2> USE <1>4 DEF CancelRelock, Goto, Lock
  <2>1. TypeOK' BY DEF TypeOK
  <2>2. MutexIsSound' BY DEF TypeOK, MutexIsSound
  <2>3. EmptyHands' BY DEF TypeOK, EmptyHands
  <2>4. NoNullTask' BY DEF TypeOK, NoNullTask, EmptyHands
  <2>5. InsertFresh' BY DEF TypeOK, InsertFresh, MutexIsSound, Fresh
  <2>6. NeverPopEmpty' BY DEF TypeOK, NeverPopEmpty, MutexIsSound
  <2>7. SingleOwner' BY DEF TypeOK, SingleOwner, Fresh
  <2> QED BY <2>1, <2>2, <2>3, <2>4, <2>5, <2>6, <2>7
<1>5. CASE Launch(w)
  <2> USE <1>5 DEF Launch, Goto
  <2>1. TypeOK' BY DEF TypeOK
  <2>2. MutexIsSound' BY DEF TypeOK, MutexIsSound
  <2>3. EmptyHands' BY DEF TypeOK, EmptyHands
  <2>4. NoNullTask' BY DEF TypeOK, NoNullTask, EmptyHands
  <2>5. InsertFresh' BY DEF TypeOK, InsertFresh, MutexIsSound, Fresh
  <2>6. NeverPopEmpty' BY DEF TypeOK, NeverPopEmpty, MutexIsSound
  <2>7. SingleOwner' BY DEF TypeOK, SingleOwner, Fresh
  <2> QED BY <2>1, <2>2, <2>3, <2>4, <2>5, <2>6, <2>7
<1>6. CASE ReadWait(w)
  <2> USE <1>6 DEF ReadWait, Goto, Unlock
  <2>1. TypeOK' BY DEF TypeOK
  <2>2. MutexIsSound' BY DEF TypeOK, MutexIsSound
  <2>3. EmptyHands' BY DEF TypeOK, EmptyHands
  <2>4. NoNullTask' BY DEF TypeOK, NoNullTask, EmptyHands
  <2>5. InsertFresh' BY DEF TypeOK, InsertFresh, MutexIsSound, Fresh
  <2>6. NeverPopEmpty' BY DEF TypeOK, NeverPopEmpty, MutexIsSound
  <2>7. SingleOwner' BY DEF TypeOK, SingleOwner, Fresh
  <2> QED BY <2>1, <2>2, <2>3, <2>4, <2>5, <2>6, <2>7
<1>7. CASE ReadNotEmpty(w)
  <2> USE <1>7 DEF ReadNotEmpty, Goto
  <2>1. TypeOK' BY DEF TypeOK
  <2>2. MutexIsSound' BY DEF TypeOK, MutexIsSound
  <2>3. EmptyHands' BY DEF TypeOK, EmptyHands
  <2>4. NoNullTask' BY DEF TypeOK, NoNullTask, EmptyHands
  <2>5. InsertFresh' BY DEF TypeOK, InsertFresh, MutexIsSound, Fresh
  <2>6. NeverPopEmpty' BY DEF TypeOK, NeverPopEmpty, MutexIsSound
  <2>7. SingleOwner' BY DEF TypeOK, SingleOwner, Fresh
  <2> QED BY <2>1, <2>2, <2>3, <2>4, <2>5, <2>6, <2>7
<1>8. CASE ReadUnlock(w)
  <2> USE <1>8 DEF ReadUnlock, Goto, Unlock
  <2>1. TypeOK' BY DEF TypeOK
  <2>2. MutexIsSound' BY DEF TypeOK, MutexIsSound
  <2>3. EmptyHands' BY DEF TypeOK, EmptyHands
  <2>4. NoNullTask' BY DEF TypeOK, NoNullTask, EmptyHands
  <2>5. InsertFresh' BY DEF TypeOK, InsertFresh, MutexIsSound, Fresh
  <2>6. NeverPopEmpty' BY DEF TypeOK, NeverPopEmpty, MutexIsSound
  <2>7. SingleOwner' BY DEF TypeOK, SingleOwner, Fresh
  <2> QED BY <2>1, <2>2, <2>3, <2>4, <2>5, <2>6, <2>7
<1>9. CASE TaskDone(w)
  <2> USE <1>9 DEF TaskDone, Goto
  <2>1. TypeOK' BY DEF TypeOK
  <2>2. MutexIsSound' BY DEF TypeOK, MutexIsSound
  <2>3. EmptyHands' BY DEF TypeOK, EmptyHands
  <2>4. NoNullTask' BY DEF TypeOK, NoNullTask, EmptyHands
  <2>5. InsertFresh' BY DEF TypeOK, InsertFresh, MutexIsSound, Fresh
  <2>6. NeverPopEmpty' BY DEF TypeOK, NeverPopEmpty, MutexIsSound
  <2>7. SingleOwner' BY DEF TypeOK, SingleOwner, Fresh
  <2> QED BY <2>1, <2>2, <2>3, <2>4, <2>5, <2>6, <2>7
<1>10. CASE CancelInWait(w)
  <2> USE <1>10 DEF CancelInWait, Goto
  <2>1. TypeOK' BY DEF TypeOK
  <2>2. MutexIsSound' BY DEF TypeOK, MutexIsSound
  <2>3. EmptyHands' BY DEF TypeOK, EmptyHands
  <2>4. NoNullTask' BY DEF TypeOK, NoNullTask, EmptyHands
  <2>5. InsertFresh' BY DEF TypeOK, InsertFresh, MutexIsSound, Fresh
  <2>6. NeverPopEmpty' BY DEF TypeOK, NeverPopEmpty, MutexIsSound
  <2>7. SingleOwner' BY DEF TypeOK, SingleOwner, Fresh
  <2> QED BY <2>1, <2>2, <2>3, <2>4, <2>5, <2>6, <2>7
<1>11. CASE CancelInTask(w)
  <2> USE <1>11 DEF CancelInTask, Goto
  <2>1. TypeOK' BY DEF TypeOK
  <2>2. MutexIsSound' BY DEF TypeOK, MutexIsSound
  <2>3. EmptyHands' BY DEF TypeOK, EmptyHands
  <2>4. NoNullTask' BY DEF TypeOK, NoNullTask, EmptyHands
  <2>5. InsertFresh' BY DEF TypeOK, InsertFresh, MutexIsSound, Fresh
  <2>6. NeverPopEmpty' BY DEF TypeOK, NeverPopEmpty, MutexIsSound
  <2>7. SingleOwner' BY DEF TypeOK, SingleOwner, Fresh
  <2> QED BY <2>1, <2>2, <2>3, <2>4, <2>5, <2>6, <2>7
<1>12. CASE SpuriousWakeup(w)
  <2> USE <1>12 DEF SpuriousWakeup, Goto
  <2>1. TypeOK' BY DEF TypeOK
  <2>2. MutexIsSound' BY DEF TypeOK, MutexIsSound
  <2>3. EmptyHands' BY DEF TypeOK, EmptyHands
  <2>4. NoNullTask' BY DEF TypeOK, NoNullTask, EmptyHands
  <2>5. InsertFresh' BY DEF TypeOK, InsertFresh, MutexIsSound, Fresh
  <2>6. NeverPopEmpty' BY DEF TypeOK, NeverPopEmpty, MutexIsSound
  <2>7. SingleOwner' BY DEF TypeOK, SingleOwner, Fresh
  <2> QED BY <2>1, <2>2, <2>3, <2>4, <2>5, <2>6, <2>7
<1>13. CASE HandlerTrylock(w)
  <2> USE <1>13 DEF HandlerTrylock, Goto
  <2>1. TypeOK' BY DEF TypeOK
  <2>2. MutexIsSound' BY DEF TypeOK, MutexIsSound
  <2>3. EmptyHands' BY DEF TypeOK, EmptyHands
  <2>4. NoNullTask' BY DEF TypeOK, NoNullTask, EmptyHands
  <2>5. InsertFresh' BY DEF TypeOK, InsertFresh, MutexIsSound, Fresh
  <2>6. NeverPopEmpty' BY DEF TypeOK, NeverPopEmpty, MutexIsSound
  <2>7. SingleOwner' BY DEF TypeOK, SingleOwner, Fresh
  <2> QED BY <2>1, <2>2, <2>3, <2>4, <2>5, <2>6, <2>7
<1>14. CASE HandlerUnlock(w)
  <2> USE <1>14 DEF HandlerUnlock, Goto, Unlock
  <2>1. TypeOK' BY DEF TypeOK
  <2>2. MutexIsSound' BY DEF TypeOK, MutexIsSound
  <2>3. EmptyHands' BY DEF TypeOK, EmptyHands
  <2>4. NoNullTask' BY DEF TypeOK, NoNullTask, EmptyHands
  <2>5. InsertFresh' BY DEF TypeOK, InsertFresh, MutexIsSound, Fresh
  <2>6. NeverPopEmpty' BY DEF TypeOK, NeverPopEmpty, MutexIsSound
  <2>7. SingleOwner' BY DEF TypeOK, SingleOwner, Fresh
  <2> QED BY <2>1, <2>2, <2>3, <2>4, <2>5, <2>6, <2>7
<1> QED BY <1>1, <1>2, <1>3, <1>4, <1>5, <1>6, <1>7, <1>8, <1>9, <1>10, <1>11, <1>12,
          <1>13, <1>14
      DEF Acquire, WorkerStep, CancelPoint

\* pthread_create, pthread_cancel and pthread_join preserve it.
LEMMA PoolIInv ==
  ASSUME IInv, NEW w \in Workers, Create(w) \/ Cancel(w) \/ Join(w)
  PROVE  IInv'
<1> USE ThreadsAssumption DEF IInv
<1>1. CASE Create(w)
  <2> USE <1>1 DEF Create, Goto
  <2>1. TypeOK' BY DEF TypeOK
  <2>2. MutexIsSound' BY DEF TypeOK, MutexIsSound
  <2>3. EmptyHands' BY DEF TypeOK, EmptyHands
  <2>4. NoNullTask' BY DEF TypeOK, NoNullTask, EmptyHands
  <2>5. InsertFresh' BY DEF TypeOK, InsertFresh, MutexIsSound, Fresh
  <2>6. NeverPopEmpty' BY DEF TypeOK, NeverPopEmpty, MutexIsSound
  <2>7. SingleOwner' BY DEF TypeOK, SingleOwner, Fresh
  <2> QED BY <2>1, <2>2, <2>3, <2>4, <2>5, <2>6, <2>7
<1>2. CASE Cancel(w)
  <2> USE <1>2 DEF Cancel
  <2>1. TypeOK' BY DEF TypeOK
  <2>2. MutexIsSound' BY DEF TypeOK, MutexIsSound
  <2>3. EmptyHands' BY DEF TypeOK, EmptyHands
  <2>4. NoNullTask' BY DEF TypeOK, NoNullTask, EmptyHands
  <2>5. InsertFresh' BY DEF TypeOK, InsertFresh, MutexIsSound, Fresh
  <2>6. NeverPopEmpty' BY DEF TypeOK, NeverPopEmpty, MutexIsSound
  <2>7. SingleOwner' BY DEF TypeOK, SingleOwner, Fresh
  <2> QED BY <2>1, <2>2, <2>3, <2>4, <2>5, <2>6, <2>7
<1>3. CASE Join(w)
  <2> USE <1>3 DEF Join, Goto
  <2>1. TypeOK' BY DEF TypeOK
  <2>2. MutexIsSound' BY DEF TypeOK, MutexIsSound
  <2>3. EmptyHands' BY DEF TypeOK, EmptyHands
  <2>4. NoNullTask' BY DEF TypeOK, NoNullTask, EmptyHands
  <2>5. InsertFresh' BY DEF TypeOK, InsertFresh, MutexIsSound, Fresh
  <2>6. NeverPopEmpty' BY DEF TypeOK, NeverPopEmpty, MutexIsSound
  <2>7. SingleOwner' BY DEF TypeOK, SingleOwner, Fresh
  <2> QED BY <2>1, <2>2, <2>3, <2>4, <2>5, <2>6, <2>7
<1> QED BY <1>1, <1>2, <1>3

\* Steps that change nothing the queue knows of preserve it.
LEMMA StutterIInv == IInv /\ UNCHANGED vars => IInv'
BY DEF IInv, TypeOK, MutexIsSound, EmptyHands, NoNullTask, InsertFresh, NeverPopEmpty, SingleOwner, vars

\* Every step of the queue and of its users preserves it.
LEMMA NextIInv == IInv /\ [Next]_vars => IInv'
BY PostIInv, WorkerIInv, PoolIInv, StutterIInv DEF Next, QueueNext

\* The inductive invariant holds in every behaviour.
THEOREM Invariance == Safety => []IInv
BY InitIInv, NextIInv, PTL DEF Safety

\* Every variable keeps its type.
THEOREM TypeCorrect == Safety => []TypeOK
<1>1. IInv => TypeOK BY DEF IInv
<1> QED BY Invariance, <1>1, PTL

\* read() never calls back() or pop_back() on an empty list, whatever the
\* number of readers, posters, spurious wake-ups and cancellations.
THEOREM PopsAreSafe == Safety => []NeverPopEmpty
<1>1. IInv => NeverPopEmpty BY DEF IInv
<1> QED BY Invariance, <1>1, PTL

\* performTask never gets the null pointer, although read() returns it whenever
\* a caller has posted it.
THEOREM NullIsNoTask == Safety => []NoNullTask
<1>1. IInv => NoNullTask BY DEF IInv
<1> QED BY Invariance, <1>1, PTL

\* A message buffer is never in the queue and in a thread's hands at once, nor
\* with two threads: performTask deletes each buffer it is given once.
THEOREM OwnershipIsExclusive == Safety => []SingleOwner
<1>1. IInv => SingleOwner BY DEF IInv
<1> QED BY Invariance, <1>1, PTL

\* The three together: what read() and its callers do is safe.
THEOREM QueueSafe == Safety => []QueueIsSafe
<1>1. IInv => QueueIsSafe BY DEF IInv, QueueIsSafe
<1> QED BY Invariance, <1>1, PTL

\* The mutex is with the thread that relies on it, and with nobody else: the
\* handler of a cancelled wait, whose trylock and unlock look at nothing, always
\* finds it with its own thread.
THEOREM MutexSound == Safety => []MutexIsSound
<1>1. IInv => MutexIsSound BY DEF IInv
<1> QED BY Invariance, <1>1, PTL

-----------------------------------------------------------------------------
(***************************************************************************)
(* No lost wake-up                                                         *)
(***************************************************************************)
\* The threads that attend to the queue can be counted.
LEMMA AttendingFinite ==
  /\ IsFiniteSet(Attending) /\ Cardinality(Attending) \in Nat
  /\ IsFiniteSet(Attending') /\ Cardinality(Attending') \in Nat
<1>1. IsFiniteSet(Threads)
  BY ThreadsAssumption, FS_Union
<1>2. Attending \subseteq Threads /\ Attending' \subseteq Threads
  BY DEF Attending
<1> QED BY <1>1, <1>2, FS_Subset, FS_CardinalityType

\* post() preserves it: the insertion makes the poster attend, its signal
\* hands the duty to a waiter.
LEMMA PostWakes ==
  ASSUME IInv, NoLostWakeup, NEW p \in Posters,
         \/ \E m \in Messages : PostLock(p, m)
         \/ PostStep(p)
  PROVE  NoLostWakeup'
<1> USE ThreadsAssumption, AttendingFinite
<1>1. CASE \E m \in Messages : PostLock(p, m)
  <2>1. Attending' = Attending /\ Waiting' = Waiting /\ queue' = queue
    BY <1>1 DEF PostLock, Goto, Attending, Waiting, IInv, TypeOK
  <2> QED BY <2>1 DEF NoLostWakeup
<1>2. CASE PostInsert(p)
  <2>1. Attending' = Attending \cup {p} /\ p \notin Attending /\ Waiting' = Waiting
    BY <1>2 DEF PostInsert, Goto, Attending, Waiting, IInv, TypeOK
  <2>2. Len(queue') = Len(queue) + 1 /\ Range(queue) \subseteq Range(queue')
    <3>1. msg[p] \in Messages /\ queue \in Seq(Messages)
      BY <1>2 DEF PostInsert, IInv, InsertFresh, TypeOK
    <3> QED BY <1>2, <3>1, PushBack, PushFront DEF PostInsert
  <2>3. Cardinality(Attending') = Cardinality(Attending) + 1
    BY <2>1, FS_AddElement
  <2>4. Len(queue) \in Nat
    BY DEF IInv, TypeOK
  <2> QED BY <2>1, <2>2, <2>3, <2>4 DEF NoLostWakeup
<1>3. CASE PostUnlock(p)
  <2>1. Attending' = Attending /\ Waiting' = Waiting /\ queue' = queue
    BY <1>3 DEF PostUnlock, Goto, Attending, Waiting, IInv, TypeOK
  <2> QED BY <2>1 DEF NoLostWakeup
<1>4. CASE PostSignal(p)
  <2>1. CASE \A w \in Workers : pc[w] # "waiting"
    <3>1. Waiting' = {}
      BY <1>4, <2>1 DEF PostSignal, Goto, Waiting, IInv, TypeOK
    <3> QED BY <3>1 DEF NoLostWakeup
  <2>2. CASE \E w \in Workers : pc[w] = "waiting"
    <3>1. PICK w \in Workers : /\ pc[w] = "waiting" /\ pc[p] = "signal"
                               /\ pc' = [pc EXCEPT ![p] = "idle", ![w] = "woken"]
                               /\ queue' = queue
      BY <1>4, <2>2 DEF PostSignal
    <3>2. /\ Attending' = (Attending \ {p}) \cup {w}
          /\ p \in Attending /\ w \notin Attending /\ w \in Waiting
      BY <3>1 DEF Attending, Waiting, IInv, TypeOK
    <3>3. Cardinality(Attending') = Cardinality(Attending)
      <4> DEFINE rest == Attending \ {p}
      <4>1. IsFiniteSet(rest) /\ Cardinality(rest) = Cardinality(Attending) - 1
        BY <3>2, FS_RemoveElement
      <4>2. Attending' = rest \cup {w} /\ w \notin rest
        BY <3>2
      <4> HIDE DEF rest
      <4>3. Cardinality(rest \cup {w}) = Cardinality(rest) + 1
        BY <4>1, <4>2, FS_AddElement
      <4> QED BY <4>1, <4>2, <4>3
    <3> QED BY <3>1, <3>2, <3>3 DEF NoLostWakeup
  <2> QED BY <2>1, <2>2
<1> QED BY <1>1, <1>2, <1>3, <1>4 DEF PostStep

\* The workers preserve it: one that stops attending has taken a message or
\* found none.
LEMMA WorkerWakes ==
  ASSUME IInv, NoLostWakeup, NEW w \in Workers,
         Acquire(w) \/ WorkerStep(w) \/ CancelPoint(w) \/ SpuriousWakeup(w)
  PROVE  NoLostWakeup'
<1> USE ThreadsAssumption, AttendingFinite
<1>1. CASE ReadTake(w)
  <2>1. Attending' = Attending \ {w} /\ w \in Attending /\ Waiting' = Waiting
    BY <1>1 DEF ReadTake, Goto, Attending, Waiting, IInv, TypeOK
  <2>2. NULL \in Range(queue') \/ (Len(queue') = Len(queue) - 1 /\ NULL \notin Range(queue))
    <3>1. /\ queue \in Seq(Messages) /\ queue # <<>>
          /\ \A i, j \in 1..Len(queue) : i # j => queue[i] # queue[j]
      BY <1>1 DEF ReadTake, IInv, NeverPopEmpty, TypeOK, SingleOwner
    <3>2. CASE queue[Len(queue)] = NULL
      BY <1>1, <3>1, <3>2, PopBack DEF ReadTake
    <3>3. CASE queue[Len(queue)] # NULL
      BY <1>1, <3>1, <3>3, PopBack DEF ReadTake
    <3> QED BY <3>2, <3>3
  <2>3. Cardinality(Attending') = Cardinality(Attending) - 1
    BY <2>1, FS_RemoveElement
  <2>4. Len(queue) \in Nat
    BY DEF IInv, TypeOK
  <2> QED BY <2>1, <2>2, <2>3, <2>4 DEF NoLostWakeup
<1>2. CASE ReadWait(w)
  <2>1. Len(queue') = 0
    BY <1>2 DEF ReadWait
  <2> QED BY <2>1 DEF NoLostWakeup
<1>3. CASE ~ReadTake(w) /\ ~ReadWait(w)
  <2>1. queue' = queue /\ Waiting' \subseteq Waiting /\ Attending \subseteq Attending'
    BY <1>3 DEF Acquire, WorkerStep, CancelPoint, ReadLock, WaitReturn,
       CancelRelock, HandlerTrylock, HandlerUnlock, Launch, ReadNotEmpty, ReadUnlock, TaskDone,
       CancelInWait, CancelInTask, SpuriousWakeup, Goto, Attending, Waiting, IInv, TypeOK
  <2>2. Cardinality(Attending) <= Cardinality(Attending')
    BY <2>1, FS_Subset
  <2>3. Len(queue) \in Nat
    BY DEF IInv, TypeOK
  <2> QED BY <2>1, <2>2, <2>3 DEF NoLostWakeup
<1> QED BY <1>1, <1>2, <1>3

\* The pool's owner preserves it: cancelling a worker is not enough to make it
\* leave a message that it was woken for.
LEMMA PoolWakes ==
  ASSUME IInv, NoLostWakeup, NEW w \in Workers, Create(w) \/ Cancel(w) \/ Join(w)
  PROVE  NoLostWakeup'
<1>1. Attending' = Attending /\ Waiting' = Waiting /\ queue' = queue
  BY ThreadsAssumption DEF Create, Cancel, Join, Goto, Attending, Waiting, IInv, TypeOK
<1> QED BY <1>1 DEF NoLostWakeup

\* No wake-up is lost, with any number of posters and workers.
THEOREM WakeupsAreKept == Safety => []NoLostWakeup
<1>1. Init => NoLostWakeup
  BY ThreadsAssumption DEF Init, NoLostWakeup, Waiting
<1>2. IInv /\ NoLostWakeup /\ [Next]_vars => NoLostWakeup'
  <2> SUFFICES ASSUME IInv, NoLostWakeup, [Next]_vars PROVE NoLostWakeup'
    OBVIOUS
  <2>1. CASE Next
    BY <2>1, PostWakes, WorkerWakes, PoolWakes DEF Next, QueueNext
  <2>2. CASE UNCHANGED vars
    BY <2>2 DEF vars, NoLostWakeup, Waiting, Attending
  <2> QED BY <2>1, <2>2
<1> QED BY Invariance, <1>1, <1>2, PTL DEF Safety

-----------------------------------------------------------------------------
(***************************************************************************)
(* The queue implements the mailbox                                        *)
(***************************************************************************)
\* Every step of the queue is a step of the mailbox or leaves it alone.
LEMMA StepImplements ==
  ASSUME IInv, IInv', [Next]_vars
  PROVE  [Mailbox!Next]_(Mailbox!vars)
<1> DEFINE pending == Range(queue) \ {NULL}
           held == [w \in Workers |-> msg[w]]
<1> USE ThreadsAssumption DEF IInv, Mailbox!vars
<1>1. ASSUME NEW p \in Posters, PostInsert(p) PROVE [Mailbox!Next]_(Mailbox!vars)
  <2> DEFINE m == msg[p]
  <2>1. m \in Messages \ Range(queue) /\ queue \in Seq(Messages)
    BY <1>1 DEF PostInsert, InsertFresh, TypeOK
  <2>2. Range(queue') = Range(queue) \cup {m}
    BY <1>1, <2>1, PushBack, PushFront DEF PostInsert
  <2>3. held' = held /\ (m # NULL => \A w \in Workers : held[w] # m)
    BY <1>1 DEF PostInsert, TypeOK, SingleOwner
  <2>4. CASE m = NULL
    <3>1. UNCHANGED <<pending, held>>
      BY <2>2, <2>3, <2>4
    <3> QED BY <3>1
  <2>5. CASE m # NULL
    <3>1. Mailbox!Put(m)
      BY <2>1, <2>2, <2>3, <2>5 DEF Mailbox!Put
    <3> QED BY <2>1, <2>5, <3>1 DEF Mailbox!Next
  <2> QED BY <2>4, <2>5
<1>2. ASSUME NEW w \in Workers, ReadTake(w) PROVE [Mailbox!Next]_(Mailbox!vars)
  <2> DEFINE m == queue[Len(queue)]
  <2>1. /\ queue \in Seq(Messages) /\ queue # <<>> /\ msg[w] = NULL
        /\ \A i, j \in 1..Len(queue) : i # j => queue[i] # queue[j]
    BY <1>2 DEF ReadTake, NeverPopEmpty, EmptyHands, TypeOK, SingleOwner
  <2>2. m \in Messages /\ m \in Range(queue)
    BY <2>1, PopBack
  <2>3. Range(SubSeq(queue, 1, Len(queue) - 1)) = Range(queue) \ {m}
    BY <2>1, PopBack
  <2>4. held' = [held EXCEPT ![w] = m]
    BY <1>2 DEF ReadTake, TypeOK
  <2>5. CASE m = NULL
    <3>1. UNCHANGED <<pending, held>>
      BY <1>2, <2>1, <2>4, <2>5 DEF ReadTake
    <3> QED BY <3>1
  <2>6. CASE m # NULL
    <3>1. queue' = SubSeq(queue, 1, Len(queue) - 1)
      BY <1>2, <2>6 DEF ReadTake
    <3>2. pending' = pending \ {m} /\ m \in pending /\ held[w] = NULL
      BY <2>1, <2>2, <2>3, <2>6, <3>1
    <3>3. m \in Messages \ {NULL}
      BY <2>2, <2>6
    <3> HIDE DEF m
    <3>4. \E v \in Messages \ {NULL} : Mailbox!Get(w, v)
      BY <2>4, <3>2, <3>3 DEF Mailbox!Get
    <3>5. Mailbox!Next
      BY <3>4 DEF Mailbox!Next
    <3> QED BY <3>5
  <2> QED BY <2>5, <2>6
<1>3. ASSUME NEW w \in Workers, TaskDone(w) \/ CancelInTask(w) PROVE [Mailbox!Next]_(Mailbox!vars)
  <2>1. pending' = pending /\ held' = [held EXCEPT ![w] = NULL]
    BY <1>3 DEF TaskDone, CancelInTask, TypeOK
  <2>2. CASE msg[w] = NULL
    <3>1. held' = held
      BY <2>1, <2>2
    <3> QED BY <2>1, <3>1
  <2>3. CASE msg[w] # NULL
    <3>1. Mailbox!Release(w)
      BY <2>1, <2>3 DEF Mailbox!Release
    <3> QED BY <3>1 DEF Mailbox!Next
  <2> QED BY <2>2, <2>3
<1>4. CASE \E p \in Posters : \/ \E m \in Messages : PostLock(p, m)
                             \/ PostUnlock(p) \/ PostSignal(p)
  <2>1. queue' = queue /\ held' = held
    BY <1>4 DEF PostLock, PostUnlock, PostSignal, TypeOK
  <2> QED BY <2>1
<1>5. CASE \/ \E w \in Workers : \/ Acquire(w) \/ SpuriousWakeup(w) \/ Launch(w) \/ ReadWait(w)
                                \/ ReadNotEmpty(w) \/ ReadUnlock(w) \/ CancelInWait(w)
                                \/ HandlerTrylock(w) \/ HandlerUnlock(w)
                                \/ Create(w) \/ Cancel(w) \/ Join(w)
           \/ UNCHANGED vars
  <2>1. queue' = queue /\ msg' = msg
    BY <1>5 DEF Acquire, ReadLock, WaitReturn, CancelRelock, SpuriousWakeup, Launch, ReadWait,
       HandlerTrylock, HandlerUnlock, ReadNotEmpty, ReadUnlock, CancelInWait, Create, Cancel, Join, vars
  <2> QED BY <2>1
<1> QED
  BY <1>1, <1>2, <1>3, <1>4, <1>5 DEF Next, QueueNext, PostStep, WorkerStep, CancelPoint

\* The queue hands every posted message to one reader at most, and never hands
\* out one that was not posted.
THEOREM Implementation == Safety => ImplementsMailbox
<1>1. Init => Mailbox!Init
  BY ThreadsAssumption DEF Init, Mailbox!Init, Threads, Range
<1> QED
  BY Invariance, <1>1, StepImplements, PTL DEF Safety, ImplementsMailbox, Mailbox!Spec

-----------------------------------------------------------------------------
(***************************************************************************)
(* The thread pool                                                         *)
(***************************************************************************)
\* The threads there are.
Existing == {w \in Workers : pc[w] # "none"}

\* Only a deletion joins threads.
TargetInv == call.op \notin {"delete", "stop"} => call.target = NoThread

\* start() has still to create what the list lacks.
StartCount == call.op = "start" =>
  call.left >= 0 /\ call.left + Len(threadIdList) = numberOfWorkers

\* addWorker counts each thread it creates.
AddCount == call.op = "add" => Len(threadIdList) <= numberOfWorkers

Joining == IF call.target = NoThread THEN 0 ELSE 1

\* What is left when the loop of deleteWorker has run its course fits the count
\* it leaves.  (A counter that was zero from the start is never seen as such:
\* the loop then ends with the list.)
DeleteCount == call.op \in {"delete", "stop"} =>
  /\ call.todo <= numberOfWorkers
  /\ call.left > 0 => Len(threadIdList) + Joining <= numberOfWorkers - call.todo + call.left

StopCount == call.op = "stop" => call.todo = numberOfWorkers

\* The inductive invariant of the pool.
PInv == /\ PoolTypeOK
        /\ ThreadsAccounted
        /\ TargetInv
        /\ NoSurplus
        /\ StartCount
        /\ AddCount
        /\ DeleteCount
        /\ StopCount

-----------------------------------------------------------------------------
\* A step of the pool is a step of the queue's users, or of none.
LEMMA StepUses == [PoolNext]_allVars => [Next]_vars
BY DEF PoolNext, PoolStep, PoolCall, CreateWorker, CancelWorker, JoinWorker, CreateReturn,
   ListExhausted, Start, Stop, AddWorker, DeleteWorker, BeginDelete, Next, allVars

\* The pool creates, cancels and joins threads as the queue expects of its users,
\* so that everything that holds of the queue holds of the queue of a pool.
LEMMA QueueUsed == PoolSafety => Safety
<1>1. PoolInit => Init BY DEF PoolInit
<1> QED BY <1>1, StepUses, PTL DEF PoolSafety, Safety

\* Starting, stopping, adding and deleting workers leaves the mutex to nobody who
\* has ended, and loses no wake-up.
THEOREM QueueSurvives == PoolSafety => []QueueStaysUsable
<1>1. MutexIsSound /\ NoLostWakeup => QueueStaysUsable BY DEF QueueStaysUsable
<1> QED BY QueueUsed, MutexSound, WakeupsAreKept, <1>1, PTL

-----------------------------------------------------------------------------
\* The steps of the queue neither begin nor end a thread's existence.
LEMMA QueueKeepsThreads ==
  ASSUME TypeOK, QueueNext
  PROVE  Existing' = Existing
<1> DEFINE Same == \A v \in Workers : pc'[v] = "none" <=> pc[v] = "none"
<1> USE ThreadsAssumption DEF TypeOK, Goto, Threads, PosterStates, WorkerStates
<1>1. ASSUME NEW p \in Posters, NEW m \in Messages, PostLock(p, m) PROVE Same
  BY <1>1 DEF PostLock
<1>2. ASSUME NEW p \in Posters, PostStep(p) PROVE Same
  BY <1>2 DEF PostStep, PostInsert, PostUnlock, PostSignal
<1>3. ASSUME NEW w \in Workers, Acquire(w) PROVE Same
  BY <1>3 DEF Acquire, ReadLock, WaitReturn, CancelRelock
<1>4. ASSUME NEW w \in Workers, WorkerStep(w) PROVE Same
  BY <1>4 DEF WorkerStep, Launch, ReadWait, ReadNotEmpty, ReadTake, ReadUnlock, TaskDone,
              HandlerTrylock, HandlerUnlock
<1>5. ASSUME NEW w \in Workers, CancelPoint(w) \/ SpuriousWakeup(w) PROVE Same
  BY <1>5 DEF CancelPoint, CancelInWait, CancelInTask, SpuriousWakeup
<1>6. Same
  BY <1>1, <1>2, <1>3, <1>4, <1>5 DEF QueueNext
<1> QED BY <1>6 DEF Existing

\* The constructor establishes the pool's invariant.
LEMMA InitPInv == PoolInit => PInv
<1> SUFFICES ASSUME PoolInit PROVE PInv
  OBVIOUS
<1> USE DEF PoolInit, NoCall
<1>1. NumWorker \in Nat
  BY ThreadsAssumption, SizesAssumption, FS_CardinalityType
<1>2. PoolTypeOK
  BY <1>1 DEF PoolTypeOK, CallType
<1>3. ThreadsAccounted
  BY ThreadsAssumption DEF ThreadsAccounted, Init, Threads, Range
<1> QED BY <1>1, <1>2, <1>3
        DEF PInv, TargetInv, NoSurplus, StartCount, AddCount, DeleteCount, StopCount

\* A turn of the loop of deleteWorker.
LEMMA NextTurn ==
  ASSUME NEW c \in CallType
  PROVE  LET d == [c EXCEPT !.left = @ - 1, !.target = NoThread]
         IN  /\ d \in CallType
             /\ d.op = c.op /\ d.left = c.left - 1 /\ d.todo = c.todo /\ d.target = NoThread
<1>1. c.left - 1 \in Int
  BY DEF CallType
<1> QED BY <1>1 DEF CallType

\* The records that start() and addWorker begin with.
LEMMA FirstTurn ==
  ASSUME NEW op \in {"start", "add"}, NEW n \in Nat, NEW l \in Nat
  PROVE  /\ LET d == [NoCall EXCEPT !.op = op, !.left = l]
            IN  d \in CallType /\ d.op = op /\ d.left = l /\ d.target = NoThread
         /\ LET d == [NoCall EXCEPT !.op = op, !.arg = n, !.left = l]
            IN  d \in CallType /\ d.op = op /\ d.left = l /\ d.target = NoThread
<1> DEFINE a == [NoCall EXCEPT !.op = op]
           b == [a EXCEPT !.arg = n]
           c == [b EXCEPT !.left = l]
           d == [a EXCEPT !.left = l]
<1>1. a \in CallType /\ a.op = op /\ a.target = NoThread
  BY DEF CallType, NoCall
<1> HIDE DEF a
<1>2. d \in CallType /\ d.op = op /\ d.left = l /\ d.target = NoThread
  BY <1>1 DEF CallType
<1>3. b \in CallType /\ b.op = op /\ b.target = NoThread
  BY <1>1 DEF CallType
<1> HIDE DEF b
<1>4. c \in CallType /\ c.op = op /\ c.left = l /\ c.target = NoThread
  BY <1>3 DEF CallType
<1> QED BY <1>2, <1>4, Zenon DEF a, b, c, d

USE DEF CallType, NoCall, Joining

\* A method that is called finds the pool between calls.
LEMMA CallPInv ==
  ASSUME PInv, PoolCall
  PROVE  PInv'
<1> USE ThreadsAssumption, SizesAssumption
    DEF PInv, PoolTypeOK, TargetInv, NoSurplus, StartCount, AddCount, DeleteCount, StopCount
<1>1. UNCHANGED <<pc, threadIdList, numberOfWorkers>> /\ call.op = "none"
  BY DEF PoolCall, Start, AddWorker, DeleteWorker, Stop, BeginDelete, vars
<1>2. ASSUME call' \in CallType, call'.target = NoThread PROVE ThreadsAccounted'
  BY <1>1, <1>2 DEF ThreadsAccounted
<1>3. CASE Start
  <2>1. numberOfWorkers - Len(threadIdList) \in Nat
    BY <1>1
  <2>2. /\ call' \in CallType /\ call'.op = "start" /\ call'.target = NoThread
        /\ call'.left = numberOfWorkers - Len(threadIdList)
    BY <1>3, <2>1, FirstTurn DEF Start
  <2> QED BY <1>1, <1>2, <2>1, <2>2
<1>4. ASSUME NEW n \in Nat, AddWorker(n) PROVE PInv'
  <2>1. call' \in CallType /\ call'.op = "add" /\ call'.target = NoThread
    BY <1>4, FirstTurn DEF AddWorker
  <2> QED BY <1>1, <1>2, <2>1
<1>5. ASSUME NEW op \in {"delete", "stop"}, NEW n \in Nat, BeginDelete(op, n),
             op = "stop" => n = numberOfWorkers
      PROVE  PInv'
  <2>1. PICK d \in Nat : /\ d <= numberOfWorkers
                         /\ n = numberOfWorkers => d = n
                         /\ call' = [NoCall EXCEPT !.op = op, !.arg = n, !.left = d, !.todo = d]
    <3> DEFINE d == IF numberOfWorkers < n THEN numberOfWorkers ELSE n
    <3>1. d \in Nat /\ d <= numberOfWorkers /\ (n = numberOfWorkers => d = n)
      OBVIOUS
    <3>2. call' = [NoCall EXCEPT !.op = op, !.arg = n, !.left = d, !.todo = d]
      BY <1>5 DEF BeginDelete
    <3> HIDE DEF d
    <3> QED BY <3>1, <3>2
  <2>2. /\ call' \in CallType /\ call'.op = op /\ call'.target = NoThread
        /\ call'.left = d /\ call'.todo = d
    <3> DEFINE a == [NoCall EXCEPT !.op = op]
               b == [a EXCEPT !.arg = n]
               c == [b EXCEPT !.left = d]
    <3>1. a \in CallType /\ a.op = op /\ a.target = NoThread
      BY <1>5
    <3> HIDE DEF a
    <3>2. b \in CallType /\ b.op = op /\ b.target = NoThread
      BY <3>1
    <3> HIDE DEF b
    <3>3. c \in CallType /\ c.op = op /\ c.target = NoThread /\ c.left = d
      BY <3>2
    <3>4. call' = [c EXCEPT !.todo = d]
      BY <2>1, Zenon DEF a, b, c
    <3> HIDE DEF c
    <3> QED BY <3>3, <3>4
  <2> QED BY <1>1, <1>2, <1>5, <2>1, <2>2
<1> QED BY <1>3, <1>4, <1>5 DEF PoolCall, DeleteWorker, Stop

\* A new thread is none of those in the list, or being joined.
LEMMA CreatePInv ==
  ASSUME TypeOK, PInv, NEW w \in Workers, CreateWorker(w)
  PROVE  PInv'
<1> USE ThreadsAssumption DEF PInv
<1>1. /\ threadIdList' \in Seq(Workers)
      /\ Len(threadIdList') = Len(threadIdList) + 1
      /\ Range(threadIdList') = Range(threadIdList) \cup {w}
      /\ \A i, j \in 1..Len(threadIdList') : i # j => threadIdList'[i] # threadIdList'[j]
  <2>1. w \notin Range(threadIdList)
    BY DEF ThreadsAccounted, CreateWorker, Create
  <2>2. /\ threadIdList \in Seq(Workers)
        /\ \A i, j \in 1..Len(threadIdList) : i # j => threadIdList[i] # threadIdList[j]
    BY DEF PoolTypeOK, ThreadsAccounted
  <2>3. threadIdList' = <<w>> \o threadIdList
    BY DEF CreateWorker
  <2> QED BY <2>1, <2>2, <2>3, PushFront
<1>2. call' \in CallType
  <2>1. call.left - 1 \in Int
    BY DEF PoolTypeOK
  <2> QED BY <2>1 DEF PoolTypeOK, CreateWorker
<1>3. ThreadsAccounted'
  <2>1. call'.target = call.target /\ call.target = NoThread
    BY DEF PoolTypeOK, TargetInv, CreateWorker
  <2>2. Existing' = Existing \cup {w}
    BY DEF Existing, CreateWorker, Create, Goto, TypeOK, Threads, WorkerStates
  <2>3. NoThread \notin Range(threadIdList')
    BY <1>1 DEF ThreadsAccounted
  <2> QED BY <1>1, <2>1, <2>2, <2>3 DEF ThreadsAccounted, Existing
<1>4. /\ call'.op = call.op /\ call'.left = call.left - 1 /\ call'.target = call.target
      /\ call.op \in {"start", "add"} /\ call.left \in Int /\ call.left > 0
  BY DEF PoolTypeOK, CreateWorker
<1>5. /\ numberOfWorkers \in Nat /\ numberOfWorkers' \in Nat /\ Len(threadIdList) \in Nat
      /\ numberOfWorkers' = numberOfWorkers + (IF call.op = "add" THEN 1 ELSE 0)
  BY DEF PoolTypeOK, CreateWorker
<1>6. PoolTypeOK' /\ TargetInv' /\ NoSurplus' /\ DeleteCount' /\ StopCount'
  BY <1>1, <1>2, <1>4, <1>5 DEF PoolTypeOK, TargetInv, NoSurplus, DeleteCount, StopCount
<1>7. StartCount'
  BY <1>1, <1>4, <1>5 DEF StartCount
<1>8. AddCount'
  BY <1>1, <1>4, <1>5 DEF AddCount
<1> QED BY <1>3, <1>6, <1>7, <1>8

\* A thread that is to be joined leaves the list.
LEMMA CancelPInv ==
  ASSUME PInv, NEW w \in Workers, CancelWorker(w)
  PROVE  PInv'
<1> USE ThreadsAssumption DEF PInv, CancelWorker
<1>1. /\ threadIdList' \in Seq(Workers)
      /\ Len(threadIdList') = Len(threadIdList) - 1
      /\ Len(threadIdList) \in Nat \ {0}
      /\ Range(threadIdList') = Range(threadIdList) \ {w}
      /\ w \in Range(threadIdList)
      /\ \A i, j \in 1..Len(threadIdList') : i # j => threadIdList'[i] # threadIdList'[j]
  <2> DEFINE f == SubSeq(threadIdList, 1, Len(threadIdList) - 1)
  <2>1. /\ threadIdList \in Seq(Workers) /\ threadIdList # <<>>
        /\ w = threadIdList[Len(threadIdList)]
        /\ \A i, j \in 1..Len(threadIdList) : i # j => threadIdList[i] # threadIdList[j]
    BY DEF PoolTypeOK, ThreadsAccounted
  <2>2. threadIdList' = f
    OBVIOUS
  <2>3. /\ f \in Seq(Workers) /\ Len(f) = Len(threadIdList) - 1
        /\ w \in Range(threadIdList)
        /\ \A i, j \in 1..Len(f) : i # j => f[i] # f[j]
        /\ Range(f) = Range(threadIdList) \ {w}
    <3> HIDE DEF PInv, CancelWorker
    <3> QED BY <2>1, PopBack
  <2>4. Len(threadIdList) \in Nat \ {0}
    BY <2>1
  <2> HIDE DEF f, PInv, CancelWorker
  <2> QED BY <2>2, <2>3, <2>4
<1>2. /\ call' \in CallType /\ call'.target = w /\ w # NoThread
      /\ call'.op = call.op /\ call'.left = call.left /\ call'.todo = call.todo
  BY DEF PoolTypeOK
<1>3. ThreadsAccounted'
  BY <1>1, <1>2 DEF ThreadsAccounted, Cancel
<1> QED BY <1>1, <1>2, <1>3
        DEF PoolTypeOK, TargetInv, NoSurplus, StartCount, AddCount, DeleteCount, StopCount

\* What is true when a deletion returns, by its counter or by an empty list.
LEMMA ReturnPInv ==
  ASSUME PInv, call.op \in {"delete", "stop"}, DeleteReturn, threadIdList' = threadIdList,
         Len(threadIdList) <= numberOfWorkers - call.todo,
         ThreadsAccounted'
  PROVE  PInv'
<1> numberOfWorkers' = numberOfWorkers - call.todo /\ numberOfWorkers' \in Nat
  BY DEF DeleteReturn, PInv, PoolTypeOK, DeleteCount
<1> QED BY DEF DeleteReturn, PInv, PoolTypeOK, TargetInv, NoSurplus, StartCount, AddCount,
               DeleteCount, StopCount

\* The joined thread was the only one outside the list.
LEMMA JoinPInv ==
  ASSUME TypeOK, PInv, NEW w \in Workers, JoinWorker(w)
  PROVE  PInv'
<1> USE ThreadsAssumption DEF PInv
<1>1. /\ call.target = w /\ w # NoThread /\ call.op \in {"delete", "stop"}
      /\ threadIdList' = threadIdList
      /\ Len(threadIdList) \in Nat
  BY DEF JoinWorker, TargetInv, PoolTypeOK
<1>2. call'.target = NoThread
  <2>1. CASE DeleteReturn
    BY <2>1 DEF DeleteReturn
  <2>2. CASE call' = [call EXCEPT !.left = @ - 1, !.target = NoThread]
    <3>1. call \in CallType
      BY DEF PoolTypeOK
    <3> QED BY <2>2, <3>1, NextTurn
  <2> QED BY <2>1, <2>2 DEF JoinWorker
<1>3. ThreadsAccounted'
  <2>1. Existing' = Existing \ {w}
    BY DEF Existing, JoinWorker, Join, Goto, TypeOK, Threads, WorkerStates
  <2>2. NoThread \notin Range(threadIdList)
    BY DEF ThreadsAccounted
  <2> QED BY <1>1, <1>2, <2>1, <2>2 DEF ThreadsAccounted, Existing
<1>4. CASE call.left - 1 = 0
  <2>1. DeleteReturn
    BY <1>4 DEF JoinWorker
  <2>2. Len(threadIdList) <= numberOfWorkers - call.todo
    BY <1>1, <1>4 DEF DeleteCount, PoolTypeOK
  <2> QED BY <1>1, <1>3, <2>1, <2>2, ReturnPInv
<1>5. CASE call.left - 1 # 0
  <2>1. /\ call' = [call EXCEPT !.left = @ - 1, !.target = NoThread]
        /\ numberOfWorkers' = numberOfWorkers
    BY <1>5 DEF JoinWorker
  <2>2. /\ call' \in CallType /\ call'.left = call.left - 1
        /\ call'.op = call.op /\ call'.todo = call.todo
    BY <2>1, NextTurn DEF PoolTypeOK
  <2> QED BY <1>1, <1>2, <1>3, <1>5, <2>1, <2>2
          DEF PoolTypeOK, TargetInv, NoSurplus, StartCount, AddCount, DeleteCount, StopCount
<1> QED BY <1>4, <1>5

\* The other returns, and the steps of the queue, preserve the invariant.
LEMMA ReturnsPInv ==
  ASSUME PInv, CreateReturn \/ ListExhausted
  PROVE  PInv'
<1> USE DEF PInv
<1>1. CASE CreateReturn
  BY <1>1 DEF CreateReturn, PoolTypeOK, ThreadsAccounted, TargetInv, NoSurplus, StartCount,
              AddCount, DeleteCount, StopCount, vars
<1>2. CASE ListExhausted
  <2>1. Len(threadIdList) <= numberOfWorkers - call.todo
    BY <1>2 DEF ListExhausted, PoolTypeOK, DeleteCount
  <2>2. ThreadsAccounted'
    BY <1>2 DEF ListExhausted, DeleteReturn, ThreadsAccounted, vars
  <2> QED BY <1>2, <2>1, <2>2, ReturnPInv DEF ListExhausted, vars
<1> QED BY <1>1, <1>2

LEMMA QueuePInv ==
  ASSUME TypeOK, PInv, QueueNext, UNCHANGED poolVars
  PROVE  PInv'
<1>1. ThreadsAccounted'
  BY QueueKeepsThreads DEF PInv, ThreadsAccounted, Existing, poolVars
<1> QED BY <1>1 DEF PInv, PoolTypeOK, TargetInv, NoSurplus, StartCount, AddCount, DeleteCount,
                    StopCount, poolVars

\* Every step of the pool, of its threads and of the posters preserves it.
LEMMA NextPInv == TypeOK /\ PInv /\ [PoolNext]_allVars => PInv'
<1>1. ASSUME PInv, UNCHANGED allVars PROVE PInv'
  BY <1>1 DEF PInv, PoolTypeOK, ThreadsAccounted, TargetInv, NoSurplus, StartCount, AddCount,
              DeleteCount, StopCount, allVars, vars, poolVars
<1> QED BY <1>1, CallPInv, CreatePInv, CancelPInv, JoinPInv, ReturnsPInv, QueuePInv
        DEF PoolNext, PoolStep

\* The inductive invariant holds in every behaviour.
THEOREM PoolInvariance == PoolSafety => []PInv
<1>1. PoolSafety => []TypeOK
  BY QueueUsed, TypeCorrect, PTL
<1> QED BY <1>1, InitPInv, NextPInv, PTL DEF PoolSafety

-----------------------------------------------------------------------------
\* The variables of the pool keep their types; numberOfWorkers is never negative.
THEOREM PoolTypeCorrect == PoolSafety => []PoolTypeOK
<1>1. PInv => PoolTypeOK BY DEF PInv
<1> QED BY PoolInvariance, <1>1, PTL

\* In every sequence of calls the threads that exist are those in the list, each
\* once, and the one being joined: none is lost and none is joined twice.
THEOREM NoThreadIsLost == PoolSafety => []ThreadsAccounted
<1>1. PInv => ThreadsAccounted BY DEF PInv
<1> QED BY PoolInvariance, <1>1, PTL

\* Between calls numberOfWorkers is no less than the number of threads.
THEOREM CountSuffices == PoolSafety => []NoSurplus
<1>1. PInv => NoSurplus BY DEF PInv
<1> QED BY PoolInvariance, <1>1, PTL

\* So no thread is lost, joined twice, or out of the reach of stop().
THEOREM PoolSound == PoolSafety => []PoolIsSound
<1>1. PInv => PoolIsSound BY DEF PInv, PoolIsSound
<1> QED BY PoolInvariance, <1>1, PTL

\* stop() deletes every thread, whatever was called before it, deleteWorker(0)
\* and deletions of more threads than there are among it.
THEOREM StopIsComplete == PoolSafety => StopDeletesAll
<1> DEFINE A == (call.op = "stop" /\ call'.op = "none")
                  => (numberOfWorkers' = 0 /\ \A w \in Workers : pc'[w] = "none")
<1>1. PInv /\ PInv' /\ [PoolNext]_allVars => [A]_allVars
  <2> SUFFICES ASSUME PInv, PInv', PoolNext, call.op = "stop", call'.op = "none"
               PROVE  numberOfWorkers' = 0 /\ \A w \in Workers : pc'[w] = "none"
    OBVIOUS
  <2> USE DEF PInv
  <2>1. ListExhausted \/ \E w \in Workers : JoinWorker(w) /\ call.left - 1 = 0
    BY DEF PoolNext, PoolStep, PoolCall, CreateWorker, CancelWorker, JoinWorker, CreateReturn,
           Start, Stop, AddWorker, DeleteWorker, BeginDelete, PoolTypeOK, poolVars
  <2>2. numberOfWorkers' = 0 /\ call'.target = NoThread
    BY <2>1 DEF ListExhausted, JoinWorker, DeleteReturn, StopCount, PoolTypeOK
  <2>3. threadIdList' = <<>>
    <3>1. CASE ListExhausted
      BY <3>1 DEF ListExhausted
    <3>2. CASE \E w \in Workers : JoinWorker(w) /\ call.left - 1 = 0
      BY <2>2, <3>2 DEF NoSurplus, PoolTypeOK
    <3> QED BY <2>1, <3>1, <3>2
  <2> QED BY <2>2, <2>3 DEF ThreadsAccounted, Range
<1> QED BY PoolInvariance, <1>1, PTL DEF PoolSafety, StopDeletesAll

\* When start() returns there are as many threads as the pool should have.
THEOREM StartIsComplete == PoolSafety => StartFillsPool
<1> DEFINE A == (call.op = "start" /\ call'.op = "none") => Len(threadIdList') = numberOfWorkers'
<1>1. PInv /\ [PoolNext]_allVars => [A]_allVars
  <2> SUFFICES ASSUME PInv, PoolNext, call.op = "start", call'.op = "none"
               PROVE  Len(threadIdList') = numberOfWorkers'
    OBVIOUS
  <2> USE DEF PInv
  <2>1. CreateReturn
    BY ThreadsAssumption
       DEF PoolNext, PoolStep, PoolCall, CreateWorker, CancelWorker, JoinWorker, ListExhausted,
           Start, Stop, AddWorker, DeleteWorker, BeginDelete, PoolTypeOK, TargetInv, poolVars
  <2> QED BY <2>1 DEF CreateReturn, StartCount, PoolTypeOK
<1> QED BY PoolInvariance, <1>1, PTL DEF PoolSafety, StartFillsPool

\* In every sequence of calls stop() empties the pool and start() fills it.
THEOREM StopsAndStarts == PoolSafety => StopEmptiesStartFills
BY StopIsComplete, StartIsComplete DEF StopEmptiesStartFills
=============================================================================
