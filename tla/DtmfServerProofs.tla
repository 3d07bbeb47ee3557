-------------------------- MODULE DtmfServerProofs --------------------------
(***************************************************************************)
(* Proofs about DtmfServer.tla, for any number of workers, messages and    *)
(* datagrams, on top of those about the pool and the queue.                *)
(***************************************************************************)
EXTENDS DtmfServer, ThreadPoolProofs

Places == {"none", "init", "pool", "starting", "getInstance", "new", "return", "register", "up",
           "alloc", "receive", "find", "post", "drop", "posting"}
TaskPlaces == {"none", "new", "parse", "send", "deleteApp", "deleteMsg"}

Shape == /\ at \in [Callers -> Places]
         /\ task \in [Workers -> TaskPlaces]
         /\ live \in [Messages -> SUBSET Blocks]

\* The places at which the receiver alone has the message it is working on.
Making == {"receive", "getInstance", "new", "return", "find", "post", "drop"}

CurFresh == at[Receiver] \in Making => cur \in Messages /\ Fresh(cur)

\* All three blocks are allocated on the way from the receiver to a worker.
CurWhole    == at[Receiver] \in Making \ {"receive"} => live[cur] = Blocks
PostedWhole == pc[Receiver] = "insert" => live[msg[Receiver]] = Blocks
QueuedWhole == \A m \in Range(queue) : live[m] = Blocks
TakenWhole  == \A w \in Workers : pc[w] = "taken" => msg[w] \in Messages /\ live[msg[w]] = Blocks

TaskBusy == \A w \in Workers : /\ task[w] # "none" => pc[w] = "busy"
                               /\ pc[w] = "busy" => msg[w] \in Messages

\* The inductive invariant, next to the queue's: whoever has a message has its
\* blocks, and nobody else does.
SInv == /\ Shape
        /\ CurFresh
        /\ CurWhole
        /\ PostedWhole
        /\ QueuedWhole
        /\ TakenWhole
        /\ TaskBusy
        /\ BlocksInUse

-----------------------------------------------------------------------------
\* main's steps are those of a pool that is started, or none of the pool's.
LEMMA MainUses == MainStep => [PoolNext]_allVars
BY DEF MainStep, StartReceiver, StartPool, PoolStarted, Register, StartWorker, InstanceTest,
       InstanceNew, InstanceReturn, PoolNext, PoolCall, PoolStep

\* The receiver posts messages as the queue expects of a poster.
LEMMA ReceiverUses ==
  ASSUME SInv, ReceiverStep \/ Arrival
  PROVE  [PoolNext]_allVars
<1> Receiver \in Posters
  BY ServerAssumption
<1>1. CASE BeginPost
  BY <1>1 DEF BeginPost, SInv, CurFresh, Making, PoolNext, QueueNext
<1>2. CASE QueueStep(Receiver)
  BY <1>2, ThreadsAssumption DEF QueueStep, PoolNext, QueueNext, serverVars
<1>3. CASE ReceiverStep /\ ~BeginPost /\ ~QueueStep(Receiver)
  BY <1>3 DEF ReceiverStep, Allocate, InstanceTest, InstanceNew, InstanceReturn, Find, Drop, EndPost
<1>4. CASE Arrival
  BY <1>4 DEF Arrival, ReceiveFails, Receive
<1> QED BY <1>1, <1>2, <1>3, <1>4

\* A worker's steps in performTask are none of the queue's but the last.
LEMMA WorkerUses ==
  ASSUME NEW w \in Workers, TaskStep(w) \/ QueueStep(w) \/ Wakeup(w)
  PROVE  [PoolNext]_allVars
<1>1. CASE TaskStep(w)
  BY <1>1 DEF TaskStep, GetHandler, NewHandler, Parse, Send, DeleteApp, DeleteMsg, PoolNext,
              QueueNext, WorkerStep
<1>2. CASE QueueStep(w)
  BY <1>2, ThreadsAssumption, ServerAssumption DEF QueueStep, PoolNext, QueueNext
<1>3. CASE Wakeup(w)
  BY <1>3 DEF Wakeup, PoolNext, QueueNext
<1> QED BY <1>1, <1>2, <1>3

LEMMA ServerUses == SInv /\ [ServerNext]_systemVars => [PoolNext]_allVars
BY MainUses, ReceiverUses, WorkerUses DEF ServerNext, systemVars

\* The queue's invariant goes through the server's steps.
LEMMA ServerIInv == IInv /\ SInv /\ [ServerNext]_systemVars => IInv'
BY ServerUses, StepUses, NextIInv

-----------------------------------------------------------------------------
LEMMA InitSInv == ServerInit => SInv
<1> SUFFICES ASSUME ServerInit PROVE SInv
  OBVIOUS
<1> USE ThreadsAssumption, ServerAssumption DEF ServerInit, PoolInit, Init, Callers, Threads
<1>1. Shape
  BY DEF Shape, Places, TaskPlaces
<1>2. CurFresh /\ CurWhole
  BY DEF CurFresh, CurWhole, Making
<1>3. PostedWhole /\ QueuedWhole /\ TakenWhole
  BY DEF PostedWhole, QueuedWhole, TakenWhole, Range
<1>4. TaskBusy /\ BlocksInUse
  BY DEF TaskBusy, BlocksInUse
<1> QED BY <1>1, <1>2, <1>3, <1>4 DEF SInv

\* main does not touch messages.
LEMMA MainSInv ==
  ASSUME IInv, SInv, MainStep
  PROVE  SInv'
<1> USE ThreadsAssumption, ServerAssumption DEF SInv, Callers, Threads, GotoAt
<1>1. UNCHANGED <<queue, msg, live, task, cur>>
  BY DEF MainStep, StartReceiver, StartPool, PoolStarted, Register, StartWorker, InstanceTest,
         InstanceNew, InstanceReturn, Start, CreateWorker, CreateReturn, Create, allVars, vars,
         serverVars, heapVars, taskVars
<1>2. \A t \in Threads : pc'[t] = pc[t] \/ (t \in Workers /\ pc[t] = "none" /\ pc'[t] = "launch")
  <2>1. UNCHANGED pc \/ \E w \in Workers : Create(w)
    BY DEF MainStep, StartReceiver, StartPool, PoolStarted, Register, StartWorker, InstanceTest,
           InstanceNew, InstanceReturn, Start, CreateWorker, CreateReturn, allVars, vars
  <2> QED BY <2>1 DEF Create, Goto, IInv, TypeOK
<1>3. /\ at' \in [Callers -> Places]
      /\ at'[Receiver] = at[Receiver] \/ at'[Receiver] = "alloc"
  BY DEF Shape, Places, MainStep, StartReceiver, StartPool, PoolStarted, Register, StartWorker,
         InstanceTest, InstanceNew, InstanceReturn, serverVars
<1>4. Shape'
  BY <1>1, <1>3 DEF Shape
<1>5. CurFresh' /\ CurWhole'
  BY <1>1, <1>3 DEF CurFresh, CurWhole, Making, Fresh
<1>6. PostedWhole' /\ QueuedWhole' /\ TakenWhole'
  BY <1>1, <1>2 DEF PostedWhole, QueuedWhole, TakenWhole
<1>7. TaskBusy' /\ BlocksInUse'
  BY <1>1, <1>2 DEF TaskBusy, BlocksInUse
<1> QED BY <1>4, <1>5, <1>6, <1>7

\* What the receiver allocates, and what it gives up, is nobody else's.
LEMMA ReceiverSInv ==
  ASSUME IInv, SInv,
         \/ \E m \in Messages : Allocate(m)
         \/ InstanceTest(Receiver) \/ InstanceNew(Receiver) \/ InstanceReturn(Receiver)
         \/ Find \/ Drop \/ EndPost \/ Arrival
  PROVE  SInv'
<1> USE ThreadsAssumption, ServerAssumption DEF SInv, Callers, Threads, GotoAt
<1>1. UNCHANGED <<queue, pc, msg, task>>
  BY DEF Allocate, InstanceTest, InstanceNew, InstanceReturn, Find, Drop, EndPost, Arrival,
         ReceiveFails, Receive, allVars, vars, taskVars
<1>2. at' \in [Callers -> Places]
  BY DEF Shape, Places, Allocate, InstanceTest, InstanceNew, InstanceReturn, Find, Drop, EndPost,
         Arrival, ReceiveFails, Receive
<1>3. TaskBusy'
  BY <1>1 DEF TaskBusy
<1>4. ASSUME live' \in [Messages -> SUBSET Blocks],
             \A m \in Messages : m \in Range(queue) \/ (\E t \in Threads : msg[t] = m)
                                  => live'[m] = live[m]
      PROVE  Shape' /\ PostedWhole' /\ QueuedWhole' /\ TakenWhole' /\ BlocksInUse'
  <2>1. Shape'
    BY <1>1, <1>2, <1>4 DEF Shape
  <2>2. PostedWhole'
    BY <1>1, <1>4 DEF PostedWhole, IInv, InsertFresh
  <2>3. QueuedWhole'
    <3>1. Range(queue) \subseteq Messages
      BY DEF IInv, TypeOK, Range
    <3> QED BY <1>1, <1>4, <3>1 DEF QueuedWhole
  <2>4. TakenWhole'
    BY <1>1, <1>4 DEF TakenWhole
  <2>5. BlocksInUse'
    BY <1>1, <1>4 DEF BlocksInUse, TaskBusy
  <2> QED BY <2>1, <2>2, <2>3, <2>4, <2>5
<1>5. CASE \E m \in Messages : Allocate(m)
  <2>1. PICK m \in Messages : Allocate(m)
    BY <1>5
  <2>2. /\ cur' = m /\ Fresh(m) /\ m # NULL
        /\ live' = [live EXCEPT ![m] = {"buffer", "app"}]
        /\ at'[Receiver] = "receive"
    BY <2>1 DEF Allocate, Shape
  <2>3. CurFresh' /\ CurWhole'
    BY <1>1, <2>2 DEF CurFresh, CurWhole, Making, Fresh
  <2>4. Shape' /\ PostedWhole' /\ QueuedWhole' /\ TakenWhole' /\ BlocksInUse'
    BY <1>4, <2>2 DEF Fresh, Shape, Blocks
  <2> QED BY <1>3, <2>3, <2>4
<1>6. CASE InstanceTest(Receiver) \/ InstanceNew(Receiver) \/ InstanceReturn(Receiver) \/ Find
  <2>1. UNCHANGED <<live, cur>> /\ at[Receiver] \in Making \ {"receive"}
    BY <1>6 DEF InstanceTest, InstanceNew, InstanceReturn, Find, heapVars, Making
  <2>2. CurFresh' /\ CurWhole'
    BY <1>1, <2>1 DEF CurFresh, CurWhole, Fresh
  <2> QED BY <1>3, <1>4, <2>1, <2>2 DEF Shape
<1>7. CASE Drop \/ ReceiveFails
  <2>1. /\ at[Receiver] \in Making /\ at'[Receiver] = "alloc"
        /\ live' = [live EXCEPT ![cur] = {}]
    BY <1>7 DEF Drop, ReceiveFails, Abandon, Making, Shape
  <2>2. cur \in Messages /\ Fresh(cur) /\ cur # NULL
    BY <2>1 DEF CurFresh
  <2>3. CurFresh' /\ CurWhole'
    BY <2>1 DEF CurFresh, CurWhole, Making
  <2>4. Shape' /\ PostedWhole' /\ QueuedWhole' /\ TakenWhole' /\ BlocksInUse'
    BY <1>4, <2>1, <2>2 DEF Fresh, Shape
  <2> QED BY <1>3, <2>3, <2>4
<1>8. CASE \E d \in Datagrams : Receive(d)
  <2>1. /\ at[Receiver] \in Making
        /\ live' = [live EXCEPT ![cur] = Blocks] /\ cur' = cur
    BY <1>8 DEF Receive, Making
  <2>2. cur \in Messages /\ Fresh(cur) /\ cur # NULL
    BY <2>1 DEF CurFresh
  <2>3. CurFresh' /\ CurWhole'
    BY <1>1, <2>1, <2>2 DEF CurFresh, CurWhole, Shape, Fresh
  <2>4. Shape' /\ PostedWhole' /\ QueuedWhole' /\ TakenWhole' /\ BlocksInUse'
    BY <1>4, <2>1, <2>2 DEF Fresh, Shape
  <2> QED BY <1>3, <2>3, <2>4
<1>9. CASE EndPost
  <2>1. UNCHANGED live /\ at'[Receiver] = "alloc"
    BY <1>9 DEF EndPost, heapVars, Shape
  <2>2. CurFresh' /\ CurWhole'
    BY <2>1 DEF CurFresh, CurWhole, Making
  <2> QED BY <1>3, <1>4, <2>1, <2>2 DEF Shape
<1> QED BY <1>5, <1>6, <1>7, <1>8, <1>9 DEF Arrival

\* The receiver hands the message on, whole.
LEMMA PostSInv ==
  ASSUME IInv, SInv, BeginPost \/ QueueStep(Receiver)
  PROVE  SInv'
<1> USE ThreadsAssumption, ServerAssumption DEF SInv, Threads
<1>1. /\ UNCHANGED <<live, task>> /\ at' \in [Callers -> Places] /\ cur' = cur
      /\ \A w \in Workers : /\ msg'[w] = msg[w]
                           /\ (pc'[w] = pc[w] \/ (pc[w] = "waiting" /\ pc'[w] = "woken"))
  <2>1. CASE BeginPost
    BY <2>1 DEF BeginPost, PostLock, Goto, GotoAt, Shape, Places, Callers, heapVars, taskVars, IInv, TypeOK
  <2>2. CASE QueueStep(Receiver)
    BY <2>2 DEF QueueStep, PostStep, PostInsert, PostUnlock, PostSignal, Goto, Shape, serverVars,
                heapVars, taskVars, IInv, TypeOK
  <2> QED BY <2>1, <2>2
<1>2. Shape' /\ TakenWhole' /\ TaskBusy' /\ BlocksInUse'
  <2>1. Shape'
    BY <1>1 DEF Shape
  <2>2. TakenWhole'
    BY <1>1 DEF TakenWhole
  <2>3. TaskBusy'
    BY <1>1 DEF TaskBusy
  <2>4. BlocksInUse'
    BY <1>1 DEF BlocksInUse
  <2> QED BY <2>1, <2>2, <2>3, <2>4
<1>3. CASE BeginPost
  <2>1. /\ at[Receiver] = "post" /\ at'[Receiver] = "posting"
        /\ msg'[Receiver] = cur /\ queue' = queue /\ pc'[Receiver] = "insert"
    BY <1>3 DEF BeginPost, PostLock, Goto, GotoAt, Shape, Callers, IInv, TypeOK
  <2>2. CurFresh' /\ CurWhole' /\ PostedWhole' /\ QueuedWhole'
    BY <1>1, <2>1 DEF CurFresh, CurWhole, PostedWhole, QueuedWhole, Making
  <2> QED BY <1>2, <2>2
<1>4. CASE PostInsert(Receiver) /\ UNCHANGED <<poolVars, serverVars>>
  <2> DEFINE m == msg[Receiver]
  <2>1. /\ at' = at /\ m \in Messages /\ live[m] = Blocks
        /\ msg' = [msg EXCEPT ![Receiver] = NULL] /\ pc'[Receiver] = "unlock"
    BY <1>4 DEF PostInsert, Goto, IInv, InsertFresh, TypeOK, PostedWhole, serverVars
  <2>2. Range(queue') = Range(queue) \cup {m}
    BY <1>4, <2>1, PushFront, PushBack DEF PostInsert, IInv, TypeOK
  <2>3. CurFresh' /\ CurWhole'
    BY <1>1, <2>1, <2>2 DEF CurFresh, CurWhole, Fresh, Making, IInv, TypeOK
  <2>4. PostedWhole' /\ QueuedWhole'
    BY <1>1, <2>1, <2>2 DEF PostedWhole, QueuedWhole
  <2> QED BY <1>2, <2>3, <2>4
<1>5. CASE (PostUnlock(Receiver) \/ PostSignal(Receiver)) /\ UNCHANGED <<poolVars, serverVars>>
  <2>1. UNCHANGED <<at, queue, msg>> /\ pc'[Receiver] # "insert"
    BY <1>5 DEF PostUnlock, PostSignal, Goto, IInv, TypeOK, serverVars
  <2>2. CurFresh' /\ CurWhole' /\ PostedWhole' /\ QueuedWhole'
    BY <1>1, <2>1 DEF CurFresh, CurWhole, PostedWhole, QueuedWhole, Fresh
  <2> QED BY <1>2, <2>2
<1> QED BY <1>3, <1>4, <1>5 DEF QueueStep, PostStep

\* A worker takes a whole message to performTask.
LEMMA ReadSInv ==
  ASSUME IInv, SInv, NEW w \in Workers, QueueStep(w) \/ Wakeup(w)
  PROVE  SInv'
<1> USE ThreadsAssumption, ServerAssumption DEF SInv, Threads
<1>1. UNCHANGED <<at, live, task, cur>>
  BY DEF QueueStep, Wakeup, serverVars, heapVars, taskVars
<1>2. \A t \in Threads \ {w} : pc'[t] = pc[t] /\ msg'[t] = msg[t]
  BY DEF QueueStep, Wakeup, Acquire, ReadLock, WaitReturn, CancelRelock, WorkerStep, Launch,
         ReadWait, ReadNotEmpty, ReadTake, ReadUnlock, TaskDone, HandlerTrylock, HandlerUnlock, SpuriousWakeup, Goto, IInv, TypeOK
<1>3. Shape'
  BY <1>1 DEF Shape
<1>4. PostedWhole'
  BY <1>1, <1>2 DEF PostedWhole
<1>5. CASE ReadTake(w)
  <2> DEFINE m == queue[Len(queue)]
  <2>1. /\ queue # <<>> /\ msg' = [msg EXCEPT ![w] = m] /\ pc'[w] = "taken" /\ pc[w] = "take"
    BY <1>5 DEF ReadTake, Goto, IInv, TypeOK, NeverPopEmpty
  <2>2. m \in Messages /\ m \in Range(queue) /\ Range(queue') \subseteq Range(queue)
    BY <1>5, <2>1, PopBack DEF ReadTake, IInv, TypeOK
  <2>3. msg'[w] = m
    BY <2>1 DEF IInv, TypeOK
  <2> HIDE DEF m
  <2>4. CurFresh' /\ CurWhole'
    BY <1>1, <1>2, <2>2, <2>3 DEF CurFresh, CurWhole, Fresh
  <2>5. QueuedWhole' /\ TakenWhole'
    BY <1>1, <1>2, <2>1, <2>2, <2>3 DEF QueuedWhole, TakenWhole
  <2>6. TaskBusy' /\ BlocksInUse'
    BY <1>1, <1>2, <2>1, ZenonT(30) DEF TaskBusy, BlocksInUse
  <2> QED BY <1>3, <1>4, <2>4, <2>5, <2>6
<1>6. CASE ~ReadTake(w)
  <2>1. /\ UNCHANGED <<queue, msg>> /\ pc[w] # "busy" /\ pc'[w] # "taken"
        /\ pc'[w] = "busy" => pc[w] = "taken"
    BY <1>6 DEF QueueStep, Wakeup, Acquire, ReadLock, WaitReturn, CancelRelock, WorkerStep, Launch,
                ReadWait, ReadNotEmpty, ReadUnlock, TaskDone, HandlerTrylock, HandlerUnlock, SpuriousWakeup, Goto, IInv, TypeOK
  <2>2. CurFresh' /\ CurWhole' /\ QueuedWhole'
    BY <1>1, <2>1 DEF CurFresh, CurWhole, Fresh, QueuedWhole
  <2>3. TakenWhole' /\ TaskBusy'
    BY <1>1, <1>2, <2>1 DEF TakenWhole, TaskBusy
  <2>4. BlocksInUse'
    BY <1>1, <1>2, <2>1 DEF BlocksInUse, TakenWhole, TaskBusy
  <2> QED BY <1>3, <1>4, <2>2, <2>3, <2>4
<1> QED BY <1>5, <1>6

\* performTask frees the blocks of its own message, one after the other.
LEMMA TaskSInv ==
  ASSUME IInv, SInv, NEW w \in Workers, TaskStep(w)
  PROVE  SInv'
<1> USE ThreadsAssumption, ServerAssumption DEF SInv, Threads
<1> DEFINE m == msg[w]
<1>1. pc[w] = "busy" /\ m \in Messages /\ m # NULL
  BY DEF TaskStep, GetHandler, NewHandler, Parse, Send, DeleteApp, DeleteMsg, TaskBusy
<1>2. /\ UNCHANGED <<at, queue, cur>>
      /\ \A t \in Threads \ {w} : pc'[t] = pc[t] /\ msg'[t] = msg[t]
  BY DEF TaskStep, GetHandler, NewHandler, Parse, Send, DeleteApp, DeleteMsg, TaskDone, Goto,
         allVars, vars, IInv, TypeOK
<1>3. msg'[w] = m \/ msg'[w] = NULL
  BY DEF TaskStep, GetHandler, NewHandler, Parse, Send, DeleteApp, DeleteMsg, TaskDone,
         allVars, vars, IInv, TypeOK
<1>4. /\ Shape'
      /\ \A n \in Messages \ {m} : live'[n] = live[n]
      /\ \A v \in Workers \ {w} : task'[v] = task[v]
  BY <1>1 DEF TaskStep, GetHandler, NewHandler, Parse, Send, DeleteApp, DeleteMsg, Delete, GotoTask,
              Shape, TaskPlaces, heapVars
<1>5. m \notin Range(queue) /\ \A t \in Threads \ {w} : msg[t] # m
  BY <1>1 DEF IInv, SingleOwner
<1>6. \/ pc'[w] = "busy" /\ msg'[w] = m
      \/ pc'[w] = "read" /\ task'[w] = "none"
  BY <1>1 DEF TaskStep, GetHandler, NewHandler, Parse, Send, DeleteApp, DeleteMsg, TaskDone, Goto,
              GotoTask, allVars, vars, IInv, TypeOK, Shape
<1> HIDE DEF m
<1>7. CurFresh' /\ CurWhole'
  <2>1. at[Receiver] \in Making => cur # m
    BY DEF CurFresh, Fresh, m
  <2>2. CurFresh'
    BY <1>2, <1>3, <2>1 DEF CurFresh, Fresh
  <2>3. CurWhole'
    BY <1>2, <1>4, <2>1 DEF CurWhole, CurFresh
  <2> QED BY <2>2, <2>3
<1>8. PostedWhole'
  BY <1>2, <1>4, <1>5 DEF PostedWhole, IInv, InsertFresh
<1>9. QueuedWhole'
  <2>1. Range(queue) \subseteq Messages
    BY DEF IInv, TypeOK, Range
  <2> QED BY <1>2, <1>4, <1>5, <2>1 DEF QueuedWhole
<1>10. TakenWhole' /\ TaskBusy'
  BY <1>1, <1>2, <1>4, <1>5, <1>6 DEF TakenWhole, TaskBusy
<1>11. BlocksInUse'
  <2>1. ASSUME NEW v \in Workers \ {w}, pc'[v] = "busy"
        PROVE  live'[msg'[v]] = live[msg[v]] /\ task'[v] = task[v] /\ pc[v] = "busy"
    BY <1>2, <1>4, <1>5, <2>1 DEF TaskBusy
  <2>2. live[m] = CASE task[w] \in {"none", "new", "parse"} -> Blocks
                    [] task[w] \in {"send", "deleteApp"}    -> {"app", "format"}
                    [] task[w] = "deleteMsg"                -> {"format"}
    BY <1>1 DEF BlocksInUse, m
  <2>3. pc'[w] = "busy" =>
          live'[m] = CASE task'[w] \in {"none", "new", "parse"} -> Blocks
                       [] task'[w] \in {"send", "deleteApp"}    -> {"app", "format"}
                       [] task'[w] = "deleteMsg"                -> {"format"}
    <3>1. CASE GetHandler(w) \/ NewHandler(w)
      <4>1. live' = live /\ task[w] \in {"none", "new"} /\ task'[w] \in {"new", "parse"}
        BY <3>1 DEF GetHandler, NewHandler, GotoTask, heapVars, Shape
      <4> QED BY <2>2, <4>1
    <3>2. CASE Parse(w)
      <4>1. /\ live'[m] = live[m] \ {"buffer"} /\ task[w] = "parse"
            /\ task'[w] \in {"send", "deleteApp"}
        BY <1>1, <3>2 DEF Parse, GotoTask, Delete, Shape, m
      <4> QED BY <2>2, <4>1 DEF Blocks
    <3>3. CASE Send(w)
      <4>1. live' = live /\ task[w] = "send" /\ task'[w] = "deleteApp"
        BY <3>3 DEF Send, GotoTask, heapVars, Shape
      <4> QED BY <2>2, <4>1
    <3>4. CASE DeleteApp(w)
      <4>1. live'[m] = live[m] \ {"app"} /\ task[w] = "deleteApp" /\ task'[w] = "deleteMsg"
        BY <1>1, <3>4 DEF DeleteApp, GotoTask, Delete, Shape, m
      <4> QED BY <2>2, <4>1
    <3>5. CASE DeleteMsg(w)
      <4>1. pc'[w] = "read"
        BY <3>5 DEF DeleteMsg, TaskDone, Goto, IInv, TypeOK
      <4> QED BY <4>1
    <3> QED BY <3>1, <3>2, <3>3, <3>4, <3>5 DEF TaskStep
  <2>4. pc'[w] = "busy" => msg'[w] = m
    BY <1>6
  <2> QED BY <2>1, <2>3, <2>4 DEF BlocksInUse
<1> QED BY <1>4, <1>7, <1>8, <1>9, <1>10, <1>11

\* Every step of the server preserves the invariant.
LEMMA NextSInv == IInv /\ SInv /\ [ServerNext]_systemVars => SInv'
<1>1. ASSUME SInv, UNCHANGED systemVars PROVE SInv'
  BY <1>1 DEF SInv, Shape, CurFresh, CurWhole, PostedWhole, QueuedWhole, TakenWhole, TaskBusy,
              BlocksInUse, Fresh, systemVars, allVars, vars, serverVars, heapVars, taskVars
<1> QED BY <1>1, MainSInv, ReceiverSInv, PostSInv, ReadSInv, TaskSInv
        DEF ServerNext, ReceiverStep

\* The invariants of the queue and of the server hold in every behaviour.
THEOREM ServerInvariance == ServerSafety => [](IInv /\ SInv)
<1>1. ServerInit => IInv /\ SInv
  BY InitIInv, InitSInv DEF ServerInit, PoolInit
<1> QED BY <1>1, ServerIInv, NextSInv, PTL DEF ServerSafety

-----------------------------------------------------------------------------
\* The server uses the pool and the queue as their modules say, so that what
\* holds of them holds in the server.
LEMMA PoolUsed == ServerSafety => PoolSafety
<1>1. ServerInit => PoolInit
  BY DEF ServerInit
<1> QED BY <1>1, ServerInvariance, ServerUses, PTL DEF ServerSafety, PoolSafety

\* Each block of a message is allocated while a worker may use it and freed once,
\* however receiver and workers interleave and addresses are used again.
THEOREM BlocksAreSafe == ServerSafety => []BlocksInUse
<1>1. SInv => BlocksInUse
  BY DEF SInv
<1> QED BY <1>1, ServerInvariance, PTL

\* No interleaving of the receiver and the workers loses a wake-up.
THEOREM ServerKeepsWakeups == ServerSafety => []NoLostWakeup
<1>1. QueueStaysUsable => NoLostWakeup BY DEF QueueStaysUsable
<1> QED BY PoolUsed, QueueSurvives, <1>1, PTL
-----------------------------------------------------------------------------
(***************************************************************************)
(* The framework objects, the handlers and the datagrams, on top of the    *)
(* two invariants above.                                                   *)
(***************************************************************************)
\* A caller that found no framework has yet to create one.
Creating(t) == IF at[t] = "new" THEN 1 ELSE 0

\* Once there is a framework nobody finds none: the two callers of getInstance()
\* create two objects at most, and what they go on with is one of them.
BootInv == /\ frameworks \in 0..2
           /\ instance \in 0..frameworks
           /\ instance = 0 => frameworks = 0
           /\ fw \in [Callers -> 0..frameworks]
           /\ frameworks + Creating(Main) + Creating(Receiver) <= 2
           /\ \A t \in Callers : at[t] = "return" => fw[t] # 0
           /\ at[Main] = "register" => fw[Main] # 0
           /\ at[Receiver] \in {"find", "post", "drop", "posting"} => fw[Receiver] # 0
           /\ at[Main] = "init" => at[Receiver] = "none"
           /\ registered \subseteq Objects
           /\ mapLock \in [Objects -> {NoThread, Receiver}]

\* A worker creates a handler only if it saw none: there is one a worker at most.
NewHandlers == {w \in Workers : task[w] = "new"}

StackInv == stacks \in Nat /\ stacks + Cardinality(NewHandlers) <= Cardinality(Workers)

\* The places at which the receiver has a message with a datagram.
Fetched == Making \ {"receive"}

\* The messages that the queue or a thread has, and those among them of which
\* the proxy may still be told.
Held     == (Range(queue) \cup {msg[t] : t \in Threads}) \ {NULL}
Finished == {msg[w] : w \in {v \in Workers : task[v] \in {"deleteApp", "deleteMsg"}}}
Unsent   == Held \ Finished

Arrived == 1..Len(arrived)
SentIds == {sent[i].id : i \in 1..Len(sent)}

NoticeType == [signal : Nat, port : Nat, timestamp : Nat]

LogTypes == /\ arrived \in Seq(Datagrams) /\ Len(arrived) <= MaxDatagrams
            /\ sent \in Seq([id : Nat, ok : BOOLEAN, notice : NoticeType])
            /\ posted \subseteq Arrived /\ dropped \subseteq Arrived
            /\ content \in [Messages -> 0..Len(arrived)]
            /\ leaked \in 0..MaxErrors
            /\ cur \in Messages \cup {NULL}

\* What the receiver works on is neither posted nor dropped yet, what others
\* have was posted, and no two messages carry the same datagram.
CurNew     == at[Receiver] \in Fetched => content[cur] \in Arrived \ (posted \cup dropped)
HeldPosted == \A m \in Held : content[m] \in posted
HeldDiffer == \A m, n \in Held : m # n => content[m] # content[n]

\* The proxy was told only of posted datagrams that end an event, of each once,
\* and not yet of those on their way.
NotYetSent  == \A m \in Unsent : content[m] \notin SentIds
ToSend      == \A w \in Workers : task[w] = "send" => IsEndOfEvent(Datagram(w))
SentGenuine == \A i \in 1..Len(sent) : /\ sent[i].id \in posted
                                       /\ IsEndOfEvent(arrived[sent[i].id])
                                       /\ sent[i].notice = Notice(arrived[sent[i].id])
SentOnce    == \A i, j \in 1..Len(sent) : i # j => sent[i].id # sent[j].id

\* Blocks are allocated only for messages that somebody has, and every datagram
\* is accounted for.
LiveHeld == \A m \in Messages : live[m] # {} =>
              m \in Held \/ (m = cur /\ at[Receiver] \in Making)
Apart    == posted \cap dropped = {}
NoneLost == \A k \in Arrived : \/ k \in posted \cup dropped
                               \/ at[Receiver] \in Fetched /\ content[cur] = k

\* The inductive invariant of the datagrams, next to the two above.
DInv == /\ LogTypes
        /\ CurNew /\ HeldPosted /\ HeldDiffer
        /\ NotYetSent /\ ToSend /\ SentGenuine /\ SentOnce
        /\ LiveHeld /\ Apart /\ NoneLost
-----------------------------------------------------------------------------
LEMMA InitBootInv == ServerInit => BootInv
BY ThreadsAssumption, ServerAssumption
   DEF ServerInit, BootInv, Creating, Callers, Objects, Threads

\* getInstance(), by either caller.
LEMMA InstanceBootInv ==
  ASSUME Shape, BootInv, NEW t \in Callers, InstanceTest(t) \/ InstanceNew(t) \/ InstanceReturn(t)
  PROVE  BootInv'
<1> USE ThreadsAssumption, ServerAssumption DEF Callers, Threads, BootInv
<1>1. Main # Receiver /\ Main \in Callers /\ Receiver \in Callers
  OBVIOUS
<1>2. UNCHANGED <<registered, mapLock>>
  BY DEF InstanceTest, InstanceNew, InstanceReturn, lookupVars
<1>3. /\ at[t] \in {"getInstance", "new", "return"}
      /\ at' = [at EXCEPT ![t] = at'[t]]
  BY DEF InstanceTest, InstanceNew, InstanceReturn, GotoAt, Shape
<1>4. \A u \in Callers \ {t} : at'[u] = at[u] /\ Creating(u)' = Creating(u)
  BY <1>3 DEF Creating, Shape
<1>5. CASE InstanceTest(t)
  <2>1. /\ UNCHANGED <<instance, frameworks>> /\ fw' = [fw EXCEPT ![t] = instance]
        /\ at[t] = "getInstance"
        /\ at'[t] = IF instance = 0 THEN "new" ELSE "return"
    BY <1>5 DEF InstanceTest, GotoAt, Shape
  <2>2. frameworks' + Creating(Main)' + Creating(Receiver)' <= 2
    BY <1>1, <1>4, <2>1 DEF Creating
  <2> QED BY <1>1, <1>2, <1>3, <1>4, <2>1, <2>2
<1>6. CASE InstanceNew(t)
  <2>1. /\ frameworks' = frameworks + 1 /\ instance' = frameworks'
        /\ fw' = [fw EXCEPT ![t] = frameworks']
        /\ at[t] = "new" /\ at'[t] = "return"
    BY <1>6 DEF InstanceNew, GotoAt, Shape
  <2>2. frameworks' + Creating(Main)' + Creating(Receiver)' <= 2
    BY <1>1, <1>4, <2>1 DEF Creating
  <2>3. frameworks' \in 1..2
    BY <2>1, <2>2 DEF Creating
  <2> QED BY <1>1, <1>2, <1>3, <1>4, <2>1, <2>2, <2>3
<1>7. CASE InstanceReturn(t)
  <2>1. /\ UNCHANGED <<instance, frameworks>>
        /\ fw' = [fw EXCEPT ![t] = fw'[t]] /\ fw'[t] \in {fw[t], instance}
        /\ at[t] = "return"
        /\ at'[t] = IF t = Main THEN "register" ELSE "find"
    BY <1>7 DEF InstanceReturn, GotoAt, Shape
  <2>2. fw'[t] \in 1..frameworks
    BY <2>1
  <2>3. frameworks' + Creating(Main)' + Creating(Receiver)' <= 2
    BY <1>1, <1>4, <2>1 DEF Creating
  <2> QED BY <1>1, <1>2, <1>3, <1>4, <2>1, <2>2, <2>3
<1> QED BY <1>5, <1>6, <1>7

\* What main and the receiver do with the object they were given.
LEMMA LookupBootInv ==
  ASSUME Shape, BootInv,
         \/ Register \/ Find \/ Drop \/ BeginPost \/ EndPost
  PROVE  BootInv'
<1> USE ThreadsAssumption, ServerAssumption DEF Callers, Threads, BootInv, Objects
<1>1. Main # Receiver /\ Main \in Callers /\ Receiver \in Callers
  OBVIOUS
<1>2. UNCHANGED bootVars
  BY DEF Register, Find, Drop, BeginPost, EndPost
<1>3. /\ at'[Main] = at[Main] \/ (at[Main] = "register" /\ at'[Main] = "up")
      /\ at'[Receiver] = at[Receiver]
           \/ (at[Receiver] \in {"find", "post", "drop", "posting"}
               /\ at'[Receiver] \in {"post", "drop", "posting", "alloc"})
  BY <1>1 DEF Register, Find, Drop, BeginPost, EndPost, GotoAt, Shape
<1>4. registered' \subseteq Objects
  <2>1. registered' = registered \/ (at[Main] = "register" /\ registered' = registered \cup {fw[Main]})
    BY DEF Register, Find, Drop, BeginPost, EndPost, lookupVars
  <2>2. at[Main] = "register" => fw[Main] \in 1..2
    BY <1>1
  <2> QED BY <2>1, <2>2
<1>5. mapLock' \in [Objects -> {NoThread, Receiver}]
  BY DEF Register, Find, Drop, BeginPost, EndPost, lookupVars, MapUnlock
<1>6. frameworks' + Creating(Main)' + Creating(Receiver)' <= 2
  BY <1>2, <1>3 DEF Creating, bootVars
<1> QED BY <1>1, <1>2, <1>3, <1>4, <1>5, <1>6 DEF bootVars

\* No other step concerns the framework.
LEMMA NextBootInv == Shape /\ BootInv /\ [ServerNext]_systemVars => BootInv'
<1> SUFFICES ASSUME Shape, BootInv, [ServerNext]_systemVars
             PROVE  BootInv'
  OBVIOUS
<1> USE ThreadsAssumption, ServerAssumption DEF Callers, Threads
<1> DEFINE Calm == /\ UNCHANGED <<bootVars, lookupVars>>
                   /\ \/ UNCHANGED at
                      \/ StartReceiver
                      \/ at[Main] \in {"pool", "starting"}
                         /\ \E p \in {"starting", "getInstance"} : GotoAt(Main, p)
                      \/ at[Receiver] \in {"alloc", "receive"}
                         /\ \E p \in {"alloc", "receive", "getInstance"} : GotoAt(Receiver, p)
<1>1. ASSUME Calm PROVE BootInv'
  <2>1. Main # Receiver /\ Main \in Callers /\ Receiver \in Callers
    OBVIOUS
  <2>2. \A t \in Callers : at'[t] = at[t] \/ at'[t] \in {"pool", "starting", "getInstance", "alloc", "receive"}
    BY <1>1, <2>1 DEF StartReceiver, GotoAt, Shape
  <2>3. at'[Main] = "init" => at'[Receiver] = at[Receiver] /\ at[Main] = "init"
    BY <1>1, <2>1 DEF StartReceiver, GotoAt, Shape, BootInv
  <2>4. UNCHANGED <<instance, frameworks, fw, registered, mapLock>>
    BY <1>1 DEF bootVars, lookupVars
  <2> HIDE DEF Calm
  <2>5. frameworks' + Creating(Main)' + Creating(Receiver)' <= 2
    BY <2>1, <2>2, <2>4 DEF Creating, BootInv
  <2> QED BY <2>1, <2>2, <2>3, <2>4, <2>5 DEF BootInv
<1>2. CASE MainStep
  <2>1. CASE StartReceiver \/ StartPool \/ PoolStarted \/ \E w \in Workers : StartWorker(w)
    BY <1>1, <2>1 DEF StartReceiver, StartPool, PoolStarted, StartWorker, serverVars
  <2> QED BY <1>2, <2>1, InstanceBootInv, LookupBootInv DEF MainStep
<1>3. CASE ReceiverStep
  <2>1. CASE (\E m \in Messages : Allocate(m)) \/ QueueStep(Receiver)
    BY <1>1, <2>1 DEF Allocate, QueueStep, serverVars
  <2> QED BY <1>3, <2>1, InstanceBootInv, LookupBootInv DEF ReceiverStep
<1>4. CASE Arrival
  BY <1>1, <1>4 DEF Arrival, ReceiveFails, Receive
<1>5. CASE \E w \in Workers : TaskStep(w) \/ QueueStep(w) \/ Wakeup(w)
  BY <1>1, <1>5 DEF TaskStep, GetHandler, NewHandler, Parse, Send, DeleteApp, DeleteMsg, QueueStep,
                    Wakeup, serverVars
<1>6. CASE UNCHANGED systemVars
  BY <1>1, <1>6 DEF systemVars, serverVars
<1> QED BY <1>2, <1>3, <1>4, <1>5, <1>6 DEF ServerNext

-----------------------------------------------------------------------------
LEMMA InitStackInv == ServerInit => StackInv
<1> SUFFICES ASSUME ServerInit PROVE StackInv
  OBVIOUS
<1>1. NewHandlers = {}
  BY DEF ServerInit, NewHandlers
<1> QED BY <1>1, FS_EmptySet, FS_CardinalityType, ThreadsAssumption DEF StackInv, ServerInit

\* Only the workers that saw no handler create one.
LEMMA NextStackInv == Shape /\ StackInv /\ [ServerNext]_systemVars => StackInv'
<1> SUFFICES ASSUME Shape, StackInv, [ServerNext]_systemVars
             PROVE  StackInv'
  OBVIOUS
<1> USE DEF StackInv
<1>1. CASE UNCHANGED <<task, stacks>>
  BY <1>1 DEF NewHandlers
<1>2. ASSUME NEW w \in Workers, TaskStep(w)
      PROVE  StackInv'
  <2>1. \A v \in Workers \ {w} : task'[v] = task[v]
    BY <1>2 DEF TaskStep, GetHandler, NewHandler, Parse, Send, DeleteApp, DeleteMsg, GotoTask, Shape
  <2>2. /\ Cardinality(NewHandlers) \in Nat /\ Cardinality(NewHandlers') \in Nat
        /\ Cardinality(NewHandlers') = Cardinality(NewHandlers)
             + (IF w \in NewHandlers' THEN 1 ELSE 0) - (IF w \in NewHandlers THEN 1 ELSE 0)
    BY <2>1, OneMoves, ThreadsAssumption DEF NewHandlers
  <2>3. Cardinality(NewHandlers') <= Cardinality(Workers) /\ Cardinality(Workers) \in Nat
    BY FS_Subset, FS_CardinalityType, ThreadsAssumption DEF NewHandlers
  <2>4. \/ GetHandler(w) /\ stacks' = stacks /\ (stacks # 0 => w \notin NewHandlers') /\ w \notin NewHandlers
        \/ NewHandler(w) /\ stacks' = stacks + 1 /\ w \notin NewHandlers' /\ w \in NewHandlers
        \/ stacks' = stacks /\ w \notin NewHandlers' /\ w \notin NewHandlers
    BY <1>2 DEF TaskStep, GetHandler, NewHandler, Parse, Send, DeleteApp, DeleteMsg, GotoTask, Shape,
                NewHandlers
  <2> QED BY <2>2, <2>3, <2>4
<1>3. UNCHANGED <<task, stacks>> \/ \E w \in Workers : TaskStep(w)
  BY DEF ServerNext, MainStep, StartReceiver, StartPool, PoolStarted, Register, StartWorker,
         InstanceTest, InstanceNew, InstanceReturn, ReceiverStep, Allocate, Find, Drop, BeginPost,
         EndPost, Arrival, ReceiveFails, Receive, QueueStep, Wakeup, taskVars, serverVars, systemVars
<1> QED BY <1>1, <1>2, <1>3
-----------------------------------------------------------------------------
\* A message is fresh when nobody has it.
LEMMA FreshHeld ==
  ASSUME IInv
  PROVE  /\ Held \subseteq Messages
         /\ \A m \in Messages : Fresh(m) <=> m \notin Held
<1>1. Range(queue) \subseteq Messages
  BY DEF IInv, TypeOK, Range
<1>2. \A t \in Threads : msg[t] \in Messages \cup {NULL}
  BY DEF IInv, TypeOK
<1> QED BY <1>1, <1>2, ServerAssumption DEF Held, Fresh

LEMMA InitDInv == ServerInit => DInv
<1> SUFFICES ASSUME ServerInit PROVE DInv
  OBVIOUS
<1> USE ThreadsAssumption, ServerAssumption
    DEF ServerInit, PoolInit, Init, Callers, Threads, Arrived
<1>1. arrived = <<>> /\ sent = <<>> /\ Len(arrived) = 0 /\ Len(sent) = 0
  OBVIOUS
<1>2. Held = {}
  BY DEF Held, Range
<1>3. LogTypes
  BY <1>1 DEF LogTypes
<1>4. CurNew /\ LiveHeld /\ Apart /\ NoneLost
  BY <1>1 DEF CurNew, LiveHeld, Apart, NoneLost, Fetched, Making
<1>5. HeldPosted /\ HeldDiffer /\ NotYetSent
  BY <1>2 DEF HeldPosted, HeldDiffer, NotYetSent, Unsent
<1>6. ToSend /\ SentGenuine /\ SentOnce
  BY <1>1 DEF ToSend, SentGenuine, SentOnce
<1> QED BY <1>3, <1>4, <1>5, <1>6 DEF DInv

\* A step that receives, posts, drops and sends nothing: messages may at most be given up,
\* with their last block, and what is about to be sent ends an event.
LEMMA QuietDInv ==
  ASSUME IInv, DInv,
         UNCHANGED <<cur, content, leaked, logVars>>,
         at'[Receiver] \in Making <=> at[Receiver] \in Making,
         at'[Receiver] \in Fetched <=> at[Receiver] \in Fetched,
         Held' \subseteq Held, Unsent' \subseteq Unsent,
         \A m \in Messages : live'[m] # {} => live[m] # {} /\ (m \in Held => m \in Held'),
         ToSend'
  PROVE  DInv'
<1> USE DEF DInv, logVars
<1>1. Arrived' = Arrived /\ SentIds' = SentIds
  BY DEF Arrived, SentIds
<1>2. LogTypes'
  BY <1>1 DEF LogTypes
<1>3. CurNew' /\ Apart' /\ NoneLost'
  BY <1>1 DEF CurNew, Apart, NoneLost
<1>4. HeldPosted' /\ HeldDiffer'
  BY DEF HeldPosted, HeldDiffer
<1>5. NotYetSent'
  BY <1>1 DEF NotYetSent
<1>6. SentGenuine' /\ SentOnce'
  BY DEF SentGenuine, SentOnce
<1>7. LiveHeld'
  BY DEF LiveHeld
<1> QED BY <1>2, <1>3, <1>4, <1>5, <1>6, <1>7

-----------------------------------------------------------------------------
\* main does not touch messages.
LEMMA MainDInv ==
  ASSUME IInv, SInv, BootInv, DInv, MainStep
  PROVE  DInv'
<1> USE ThreadsAssumption, ServerAssumption DEF Callers, Threads, GotoAt
<1>1. UNCHANGED <<queue, msg, live, task, cur, content, leaked, logVars>>
  BY DEF MainStep, StartReceiver, StartPool, PoolStarted, Register, StartWorker, InstanceTest,
         InstanceNew, InstanceReturn, Start, CreateWorker, CreateReturn, Create, allVars, vars,
         serverVars, heapVars, taskVars
<1>2. at'[Receiver] = at[Receiver] \/ (at[Receiver] = "none" /\ at'[Receiver] = "alloc")
  BY DEF SInv, Shape, BootInv, MainStep, StartReceiver, StartPool, PoolStarted, Register,
         StartWorker, InstanceTest, InstanceNew, InstanceReturn, serverVars
<1>3. Held' = Held /\ Unsent' = Unsent
  BY <1>1 DEF Held, Unsent, Finished
<1>4. ToSend'
  BY <1>1 DEF ToSend, Datagram, DInv, logVars
<1> QED BY <1>1, <1>2, <1>3, <1>4, QuietDInv DEF Fetched, Making

\* The receiver's own steps: what it allocates, fetches and gives up is nobody else's.
LEMMA ReceiverDInv ==
  ASSUME IInv, SInv, DInv,
         \/ \E m \in Messages : Allocate(m)
         \/ InstanceTest(Receiver) \/ InstanceNew(Receiver) \/ InstanceReturn(Receiver)
         \/ Find \/ Drop \/ EndPost \/ Arrival
  PROVE  DInv'
<1> USE ThreadsAssumption, ServerAssumption DEF Callers, Threads, GotoAt, DInv
<1>1. UNCHANGED <<queue, msg, task, posted, sent>>
  BY DEF Allocate, InstanceTest, InstanceNew, InstanceReturn, Find, Drop, EndPost, Arrival,
         ReceiveFails, Receive, allVars, vars, taskVars, logVars
<1>2. Held' = Held /\ Unsent' = Unsent /\ SentIds' = SentIds
  BY <1>1 DEF Held, Unsent, Finished, SentIds
<1>3. \A w \in Workers : task[w] = "send" => msg[w] \in Held
  BY DEF SInv, TaskBusy, Held
<1>4. at[Receiver] \in Making => cur \in Messages \ Held /\ cur # NULL
  BY FreshHeld DEF SInv, CurFresh
<1>5. Held \subseteq Messages /\ Unsent \subseteq Held
  BY FreshHeld DEF Unsent
<1>6. CASE InstanceTest(Receiver) \/ InstanceNew(Receiver) \/ InstanceReturn(Receiver) \/ Find
  <2>1. /\ UNCHANGED <<live, cur, content, leaked, logVars>>
        /\ at[Receiver] \in Fetched /\ at'[Receiver] \in Fetched
    BY <1>6 DEF InstanceTest, InstanceNew, InstanceReturn, Find, heapVars, Making, Fetched, SInv, Shape
  <2>2. ToSend'
    BY <1>1, <2>1 DEF ToSend, Datagram, logVars
  <2> QED BY <1>2, <2>1, <2>2, QuietDInv DEF Fetched
<1>7. ASSUME UNCHANGED <<arrived, dropped>>,
             \A m \in Held : content'[m] = content[m]
      PROVE  /\ HeldPosted' /\ HeldDiffer' /\ NotYetSent' /\ ToSend' /\ SentGenuine' /\ SentOnce'
             /\ Apart'
  <2>1. HeldPosted' /\ HeldDiffer' /\ NotYetSent'
    BY <1>1, <1>2, <1>5, <1>7 DEF HeldPosted, HeldDiffer, NotYetSent
  <2>2. ToSend'
    BY <1>1, <1>3, <1>7 DEF ToSend, Datagram
  <2> QED BY <1>1, <1>7, <2>1, <2>2 DEF SentGenuine, SentOnce, Apart
<1>8. CASE \E m \in Messages : Allocate(m)
  <2>1. PICK m \in Messages : Allocate(m)
    BY <1>8
  <2>2. /\ cur' = m /\ UNCHANGED <<content, leaked, arrived, dropped>>
        /\ live' = [live EXCEPT ![m] = {"buffer", "app"}]
        /\ at[Receiver] = "alloc" /\ at'[Receiver] = "receive"
    BY <2>1 DEF Allocate, SInv, Shape, logVars
  <2>3. LogTypes' /\ CurNew' /\ NoneLost' /\ LiveHeld'
    BY <1>1, <1>2, <2>2 DEF LogTypes, CurNew, NoneLost, LiveHeld, Fetched, Making, Arrived, SInv, Shape
  <2> QED BY <1>7, <2>2, <2>3
<1>9. CASE ReceiveFails
  <2>1. /\ cur' = NULL /\ leaked' = leaked + 1 /\ leaked < MaxErrors /\ UNCHANGED <<arrived, dropped>>
        /\ content' = [content EXCEPT ![cur] = 0]
        /\ live' = [live EXCEPT ![cur] = {}]
        /\ at[Receiver] = "receive" /\ at'[Receiver] = "alloc"
    BY <1>9 DEF ReceiveFails, Abandon, SInv, Shape, logVars
  <2>2. cur \in Messages \ Held
    BY <1>4, <2>1 DEF Making
  <2>3. LogTypes'
    <3>1. Len(arrived) \in Nat /\ content \in [Messages -> 0..Len(arrived)]
      BY DEF LogTypes
    <3>2. leaked' \in 0..MaxErrors /\ 0 \in 0..Len(arrived)
      BY <2>1, <3>1 DEF LogTypes
    <3>3. content' \in [Messages -> 0..Len(arrived)]
      BY <2>1, <3>1, <3>2
    <3> QED BY <1>1, <2>1, <3>2, <3>3 DEF LogTypes, Arrived
  <2>4. CurNew' /\ NoneLost'
    BY <1>1, <2>1 DEF CurNew, NoneLost, Fetched, Making, Arrived
  <2>5. LiveHeld'
    BY <1>2, <2>1, <2>2 DEF LiveHeld, SInv, Shape
  <2>6. \A m \in Held : content'[m] = content[m]
    BY <1>5, <2>1, <2>2 DEF LogTypes
  <2> QED BY <1>7, <2>1, <2>3, <2>4, <2>5, <2>6
<1>10. CASE Drop
  <2>1. /\ cur' = NULL /\ UNCHANGED <<arrived, leaked>>
        /\ dropped' = dropped \cup {content[cur]}
        /\ content' = [content EXCEPT ![cur] = 0]
        /\ live' = [live EXCEPT ![cur] = {}]
        /\ at[Receiver] = "drop" /\ at'[Receiver] = "alloc"
    BY <1>10 DEF Drop, Abandon, SInv, Shape
  <2>2. cur \in Messages \ Held /\ content[cur] \in Arrived \ (posted \cup dropped)
    BY <1>4, <2>1 DEF Making, Fetched, CurNew
  <2>3. LogTypes'
    <3>1. Len(arrived) \in Nat /\ content \in [Messages -> 0..Len(arrived)]
      BY DEF LogTypes
    <3>2. 0 \in 0..Len(arrived)
      BY <3>1
    <3>3. content' \in [Messages -> 0..Len(arrived)]
      BY <2>1, <3>1, <3>2
    <3> QED BY <1>1, <2>1, <2>2, <3>3 DEF LogTypes, Arrived
  <2>4. CurNew' /\ NoneLost' /\ Apart'
    BY <1>1, <2>1, <2>2 DEF CurNew, NoneLost, Fetched, Making, Arrived, Apart
  <2>5. LiveHeld'
    BY <1>2, <2>1, <2>2 DEF LiveHeld, SInv, Shape
  <2>6. \A m \in Held : content'[m] = content[m]
    BY <1>5, <2>1, <2>2 DEF LogTypes
  <2>7. HeldPosted' /\ HeldDiffer' /\ NotYetSent'
    BY <1>1, <1>2, <1>5, <2>6 DEF HeldPosted, HeldDiffer, NotYetSent
  <2>8. ToSend'
    BY <1>1, <1>3, <2>1, <2>6 DEF ToSend, Datagram
  <2>9. SentGenuine' /\ SentOnce'
    BY <1>1, <2>1 DEF SentGenuine, SentOnce
  <2> QED BY <2>3, <2>4, <2>5, <2>7, <2>8, <2>9
<1>11. CASE EndPost
  <2>1. /\ cur' = NULL /\ UNCHANGED <<live, content, leaked, arrived, dropped>>
        /\ at[Receiver] = "posting" /\ at'[Receiver] = "alloc"
    BY <1>11 DEF EndPost, SInv, Shape, heapVars, logVars
  <2>2. LogTypes' /\ CurNew' /\ NoneLost' /\ LiveHeld'
    BY <1>1, <1>2, <2>1 DEF LogTypes, CurNew, NoneLost, LiveHeld, Fetched, Making, Arrived
  <2> QED BY <1>7, <2>1, <2>2
<1>12. ASSUME NEW d \in Datagrams, Receive(d)
       PROVE  DInv'
  <2>1. /\ UNCHANGED <<cur, leaked, dropped>>
        /\ Len(arrived) < MaxDatagrams /\ arrived' = Append(arrived, d)
        /\ content' = [content EXCEPT ![cur] = Len(arrived')]
        /\ live' = [live EXCEPT ![cur] = Blocks]
        /\ at[Receiver] = "receive" /\ at'[Receiver] = "getInstance"
    BY <1>12 DEF Receive, SInv, Shape
  <2>2. cur \in Messages \ Held
    BY <1>4, <2>1 DEF Making
  <2>3. /\ arrived' \in Seq(Datagrams) /\ Len(arrived) \in Nat /\ Len(arrived') = Len(arrived) + 1
        /\ \A k \in Arrived : arrived'[k] = arrived[k]
    BY <2>1 DEF LogTypes, Arrived
  <2>4. Arrived \subseteq Arrived' /\ Arrived' = Arrived \cup {Len(arrived')} /\ Len(arrived') \notin Arrived
    BY <2>3 DEF Arrived
  <2>5. content' \in [Messages -> 0..Len(arrived')]
    <3> DEFINE new == Len(arrived')
    <3>1. content \in [Messages -> 0..Len(arrived)] /\ content' = [content EXCEPT ![cur] = new]
      BY <2>1 DEF LogTypes
    <3>2. new \in 0..new /\ 0..Len(arrived) \subseteq 0..new
      BY <2>3
    <3> HIDE DEF new
    <3>3. content' \in [Messages -> 0..new]
      BY <3>1, <3>2
    <3> QED BY <3>3 DEF new
  <2>6. LogTypes'
    BY <1>1, <2>1, <2>3, <2>4, <2>5 DEF LogTypes
  <2>7. \A m \in Held : content'[m] = content[m] /\ content[m] \in Arrived
    BY <1>5, <2>1, <2>2 DEF LogTypes, HeldPosted
  <2>8. HeldPosted' /\ HeldDiffer' /\ NotYetSent'
    BY <1>1, <1>2, <1>5, <2>7 DEF HeldPosted, HeldDiffer, NotYetSent
  <2>9. ToSend'
    BY <1>1, <1>3, <2>3, <2>7 DEF ToSend, Datagram
  <2>10. SentGenuine' /\ SentOnce'
    <3>1. \A k \in 1..Len(sent) : sent[k].id \in Arrived
      BY DEF SentGenuine, LogTypes
    <3> QED BY <1>1, <2>3, <3>1 DEF SentGenuine, SentOnce
  <2>11. content'[cur'] = Len(arrived')
    BY <2>1, <2>2 DEF LogTypes
  <2>12. CurNew' /\ NoneLost' /\ Apart'
    BY <1>1, <2>1, <2>4, <2>11 DEF CurNew, NoneLost, Apart, Fetched, Making, LogTypes
  <2>13. LiveHeld'
    BY <1>2, <2>1, <2>2 DEF LiveHeld, SInv, Shape, Making
  <2> QED BY <2>6, <2>8, <2>9, <2>10, <2>12, <2>13
<1> QED BY <1>6, <1>8, <1>9, <1>10, <1>11, <1>12 DEF Arrival
\* The receiver hands its message on: from here on it is posted, and nobody else's.
LEMMA PostDInv ==
  ASSUME IInv, SInv, DInv, BeginPost \/ QueueStep(Receiver)
  PROVE  DInv'
<1> USE ThreadsAssumption, ServerAssumption DEF Callers, Threads, GotoAt, DInv
<1>1. CASE QueueStep(Receiver)
  <2>1. UNCHANGED <<at, cur, live, task, content, leaked, logVars>>
    BY <1>1 DEF QueueStep, serverVars, heapVars, taskVars
  <2>2. \A w \in Workers : msg'[w] = msg[w]
    BY <1>1 DEF QueueStep, PostStep, PostInsert, PostUnlock, PostSignal, IInv, TypeOK
  <2>3. Held' = Held
    <3>1. CASE PostInsert(Receiver)
      <4>1. msg[Receiver] \in Messages /\ Range(queue') = Range(queue) \cup {msg[Receiver]}
        BY <3>1, PushFront, PushBack DEF PostInsert, IInv, InsertFresh, TypeOK
      <4>2. msg' = [msg EXCEPT ![Receiver] = NULL]
        BY <3>1 DEF PostInsert
      <4> QED BY <4>1, <4>2 DEF Held, IInv, TypeOK
    <3>2. CASE PostUnlock(Receiver) \/ PostSignal(Receiver)
      BY <3>2 DEF PostUnlock, PostSignal, Held
    <3> QED BY <1>1, <3>1, <3>2 DEF QueueStep, PostStep
  <2>4. Finished' = Finished
    BY <2>1, <2>2 DEF Finished
  <2>5. ToSend'
    BY <2>1, <2>2 DEF ToSend, Datagram, logVars
  <2> QED BY <2>1, <2>3, <2>4, <2>5, QuietDInv DEF Unsent
<1>2. CASE BeginPost
  <2>1. /\ UNCHANGED <<cur, queue, live, task, content, leaked, arrived, dropped, sent>>
        /\ posted' = posted \cup {content[cur]}
        /\ msg' = [msg EXCEPT ![Receiver] = cur]
        /\ pc[Receiver] = "idle"
        /\ at[Receiver] = "post" /\ at'[Receiver] = "posting"
    BY <1>2 DEF BeginPost, PostLock, SInv, Shape, heapVars, taskVars
  <2>2. cur \in Messages \ Held /\ content[cur] \in Arrived \ (posted \cup dropped)
    BY <2>1, FreshHeld DEF SInv, CurFresh, CurNew, Fetched, Making
  <2>3. \A w \in Workers : msg'[w] = msg[w]
    BY <2>1 DEF IInv, TypeOK
  <2>4. Held' = Held \cup {cur} /\ Finished' = Finished
    <3>1. msg[Receiver] = NULL /\ msg'[Receiver] = cur /\ cur # NULL
      BY <2>1, <2>2 DEF IInv, EmptyHands, TypeOK
    <3> QED BY <2>1, <2>3, <3>1 DEF Held, Finished
  <2>5. Unsent' \subseteq Unsent \cup {cur} /\ SentIds' = SentIds
    BY <2>1, <2>4 DEF Unsent, SentIds
  <2>6. LogTypes'
    BY <2>1, <2>2 DEF LogTypes, Arrived
  <2>7. HeldPosted' /\ HeldDiffer'
    BY <2>1, <2>2, <2>4 DEF HeldPosted, HeldDiffer
  <2>8. NotYetSent'
    <3>1. content[cur] \notin SentIds
      BY <2>2 DEF SentIds, SentGenuine
    <3> QED BY <2>1, <2>5, <3>1 DEF NotYetSent
  <2>9. ToSend'
    BY <2>1, <2>3 DEF ToSend, Datagram
  <2>10. SentGenuine' /\ SentOnce'
    BY <2>1 DEF SentGenuine, SentOnce
  <2>11. CurNew' /\ NoneLost' /\ Apart'
    BY <2>1, <2>2 DEF CurNew, NoneLost, Apart, Fetched, Making, Arrived
  <2>12. LiveHeld'
    BY <2>1, <2>4 DEF LiveHeld
  <2> QED BY <2>6, <2>7, <2>8, <2>9, <2>10, <2>11, <2>12
<1> QED BY <1>1, <1>2

\* A worker takes a message that the queue had.
LEMMA ReadDInv ==
  ASSUME IInv, SInv, DInv, NEW w \in Workers, QueueStep(w) \/ Wakeup(w)
  PROVE  DInv'
<1> USE ThreadsAssumption, ServerAssumption DEF Callers, Threads, DInv
<1>1. UNCHANGED <<at, cur, live, task, content, leaked, logVars>>
  BY DEF QueueStep, Wakeup, serverVars, heapVars, taskVars
<1>2. task[w] = "none"
  <2>1. pc[w] # "busy"
    BY DEF QueueStep, Wakeup, Acquire, ReadLock, WaitReturn, CancelRelock, SpuriousWakeup
  <2> QED BY <2>1 DEF SInv, TaskBusy
<1>3. \A v \in Workers \ {w} : msg'[v] = msg[v]
  BY DEF QueueStep, Wakeup, Acquire, ReadLock, WaitReturn, CancelRelock, WorkerStep, Launch,
         ReadWait, ReadNotEmpty, ReadTake, ReadUnlock, TaskDone, HandlerTrylock, HandlerUnlock, SpuriousWakeup, IInv, TypeOK
<1>4. Finished' = Finished
  BY <1>1, <1>2, <1>3 DEF Finished
<1>5. ToSend'
  BY <1>1, <1>2, <1>3 DEF ToSend, Datagram, logVars
<1>6. Held' = Held
  <2>1. CASE ReadTake(w)
    <3> DEFINE m == queue[Len(queue)]
    <3>1. queue # <<>> /\ msg[w] = NULL /\ msg' = [msg EXCEPT ![w] = m]
      BY <2>1 DEF ReadTake, IInv, NeverPopEmpty, EmptyHands
    <3>2. queue \in Seq(Messages) /\ \A i, j \in 1..Len(queue) : i # j => queue[i] # queue[j]
      BY DEF IInv, TypeOK, SingleOwner
    <3>3. m \in Range(queue) /\ m # NULL
      BY <3>1, <3>2, PopBack
    <3>4. Range(queue') = Range(queue) \ {m}
      BY <2>1, <3>1, <3>2, <3>3, PopBack DEF ReadTake
    <3>5. msg'[w] = m
      BY <3>1 DEF IInv, TypeOK
    <3> HIDE DEF m
    <3>6. \A t \in Threads \ {w} : msg'[t] = msg[t]
      BY <3>1 DEF IInv, TypeOK
    <3> QED BY <3>1, <3>3, <3>4, <3>5, <3>6 DEF Held
  <2>2. CASE ~ReadTake(w)
    <3>1. UNCHANGED <<queue, msg>>
      BY <2>2 DEF QueueStep, Wakeup, Acquire, ReadLock, WaitReturn, CancelRelock, WorkerStep,
                  Launch, ReadWait, ReadNotEmpty, ReadUnlock, TaskDone, HandlerTrylock, HandlerUnlock, SpuriousWakeup
    <3> QED BY <3>1 DEF Held
  <2> QED BY <2>1, <2>2
<1> QED BY <1>1, <1>4, <1>5, <1>6, QuietDInv DEF Unsent
\* What the proxy is told comes from the header and the payload of the datagram.
LEMMA NoticeOfDatagram ==
  ASSUME NEW d \in Datagrams
  PROVE  /\ Notice(d) \in NoticeType
         /\ IsEndOfEvent(d) => /\ EndPacket(d)
                               /\ Notice(d) = [signal |-> d.event, port |-> d.port,
                                               timestamp |-> d.timestamp]
<1>1. /\ d.size \in Nat /\ d.port \in Nat /\ d.timestamp \in Nat
      /\ d.type \in 0..255 /\ d.event \in 0..255 /\ d.flags \in 0..255
  BY DatagramsAssumption DEF DatagramType
<1>2. Notice(d) \in NoticeType
  BY <1>1 DEF Notice, NoticeType, ByteAt
<1>3. ASSUME IsEndOfEvent(d)
      PROVE  d.size >= 14 /\ d.type \in {101, 229} /\ d.flags >= 128
  <2>1. ByteAt(d, 1, d.type) % 128 = 101 /\ ByteAt(d, 13, d.flags) \div 128 = 1
    BY <1>3 DEF IsEndOfEvent, PayloadType, EndBit
  <2>2. 13 < d.size
    BY <1>1, <2>1 DEF ByteAt
  <2>3. d.type % 128 = 101 /\ d.flags \div 128 = 1
    BY <1>1, <2>1, <2>2 DEF ByteAt
  <2>4. \A n \in 0..255 : n % 128 = 101 => n \in {101, 229}
    OBVIOUS
  <2>5. \A n \in 0..255 : n \div 128 = 1 => n >= 128
    OBVIOUS
  <2> QED BY <1>1, <2>2, <2>3, <2>4, <2>5
<1>4. IsEndOfEvent(d) => Notice(d) = [signal |-> d.event, port |-> d.port, timestamp |-> d.timestamp]
  BY <1>1, <1>3 DEF Notice, ByteAt
<1> QED BY <1>2, <1>3, <1>4 DEF EndPacket

\* performTask tells the proxy of its own message, once, and gives it up with its last block.
LEMMA TaskDInv ==
  ASSUME IInv, SInv, DInv, NEW w \in Workers, TaskStep(w)
  PROVE  DInv'
<1> USE ThreadsAssumption, ServerAssumption DEF Callers, Threads, DInv
<1> DEFINE m == msg[w]
<1>1. pc[w] = "busy" /\ m \in Messages /\ m # NULL /\ task[w] \in TaskPlaces
  BY DEF TaskStep, GetHandler, NewHandler, Parse, Send, DeleteApp, DeleteMsg, SInv, Shape, TaskBusy
<1>2. m \in Held /\ Held \subseteq Messages
  BY <1>1, FreshHeld DEF Held
<1>3. /\ UNCHANGED <<at, cur, queue, content, leaked, arrived, posted, dropped>>
      /\ \A v \in Workers \ {w} : task'[v] = task[v]
  BY DEF TaskStep, GetHandler, NewHandler, Parse, Send, DeleteApp, DeleteMsg, TaskDone, GotoTask,
         SInv, Shape, allVars, vars, heapVars, logVars
<1>4. content[m] \in Arrived /\ Datagram(w) \in Datagrams
  <2>1. content[m] \in Arrived
    BY <1>2 DEF HeldPosted, LogTypes
  <2> QED BY <2>1 DEF LogTypes, Arrived, Datagram
<1>5. ASSUME UNCHANGED <<msg, sent>>,
             task'[w] \in {"deleteApp", "deleteMsg"} \/ task[w] \notin {"deleteApp", "deleteMsg"},
             \A n \in Messages : live'[n] # {} => live[n] # {},
             task'[w] = "send" => IsEndOfEvent(Datagram(w))
      PROVE  DInv'
  <2>1. Held' = Held
    BY <1>3, <1>5 DEF Held
  <2>2. Finished \subseteq Finished'
    BY <1>3, <1>5 DEF Finished
  <2>3. ToSend'
    BY <1>3, <1>5 DEF ToSend, Datagram
  <2> QED BY <1>3, <1>5, <2>1, <2>2, <2>3, QuietDInv DEF Unsent, logVars
<1>6. CASE GetHandler(w) \/ NewHandler(w)
  <2>1. /\ UNCHANGED <<msg, sent, live>>
        /\ task[w] \in {"none", "new"} /\ task'[w] \in {"new", "parse"}
    BY <1>6 DEF GetHandler, NewHandler, GotoTask, SInv, Shape, allVars, vars, heapVars, logVars
  <2> QED BY <1>5, <2>1
<1>7. CASE Parse(w)
  <2>1. /\ UNCHANGED <<msg, sent>>
        /\ live' = [live EXCEPT ![m] = @ \ {"buffer"}]
        /\ task[w] = "parse"
        /\ task'[w] = IF IsEndOfEvent(Datagram(w)) THEN "send" ELSE "deleteApp"
    BY <1>7 DEF Parse, GotoTask, Delete, SInv, Shape, allVars, vars, logVars
  <2> QED BY <1>1, <1>5, <2>1 DEF SInv, Shape
<1>8. CASE DeleteApp(w)
  <2>1. /\ UNCHANGED <<msg, sent>>
        /\ live' = [live EXCEPT ![m] = @ \ {"app"}]
        /\ task'[w] = "deleteMsg"
    BY <1>8 DEF DeleteApp, GotoTask, Delete, SInv, Shape, allVars, vars, logVars
  <2> QED BY <1>1, <1>5, <2>1 DEF SInv, Shape
<1>9. CASE DeleteMsg(w)
  <2>1. /\ UNCHANGED sent
        /\ msg' = [msg EXCEPT ![w] = NULL]
        /\ live' = [live EXCEPT ![m] = @ \ {"format"}]
        /\ task[w] = "deleteMsg" /\ task'[w] = "none"
    BY <1>9 DEF DeleteMsg, TaskDone, GotoTask, Delete, SInv, Shape, logVars
  <2>2. live[m] = {"format"}
    BY <1>1, <2>1 DEF SInv, BlocksInUse
  <2>3. live'[m] = {} /\ \A n \in Messages \ {m} : live'[n] = live[n]
    BY <1>1, <2>1, <2>2 DEF SInv, Shape
  <2>4. Held' = Held \ {m}
    <3>1. m \notin Range(queue) /\ \A t \in Threads \ {w} : msg[t] # m
      BY <1>1 DEF IInv, SingleOwner
    <3>2. msg'[w] = NULL /\ \A t \in Threads \ {w} : msg'[t] = msg[t]
      BY <2>1 DEF IInv, TypeOK
    <3> QED BY <1>3, <3>1, <3>2 DEF Held
  <2>5. \A v \in Workers \ {w} : msg'[v] = msg[v]
    BY <2>1 DEF IInv, TypeOK
  <2> HIDE DEF m
  <2>6. Unsent' \subseteq Unsent
    <3>1. Finished \subseteq Finished' \cup {m}
      BY <1>3, <2>5 DEF Finished, m
    <3> QED BY <2>4, <3>1 DEF Unsent
  <2>7. ToSend'
    BY <1>3, <2>1, <2>5 DEF ToSend, Datagram
  <2> QED BY <1>3, <2>1, <2>3, <2>4, <2>6, <2>7, QuietDInv DEF logVars
<1>10. CASE Send(w)
  <2>1. PICK ok \in BOOLEAN :
          sent' = Append(sent, [id |-> content[m], ok |-> ok, notice |-> Notice(Datagram(w))])
    BY <1>10 DEF Send
  <2> DEFINE last == [id |-> content[m], ok |-> ok, notice |-> Notice(Datagram(w))]
  <2>2. UNCHANGED <<msg, live>> /\ task[w] = "send" /\ task'[w] = "deleteApp"
    BY <1>10 DEF Send, GotoTask, SInv, Shape, allVars, vars, heapVars
  <2>3. content[m] \in Nat /\ content[m] \in posted
    BY <1>2, <1>4 DEF HeldPosted, Arrived
  <2>4. last \in [id : Nat, ok : BOOLEAN, notice : NoticeType]
    BY <1>4, <2>3, NoticeOfDatagram
  <2>5. /\ sent' \in Seq([id : Nat, ok : BOOLEAN, notice : NoticeType])
        /\ Len(sent) \in Nat /\ Len(sent') = Len(sent) + 1
        /\ sent'[Len(sent')] = last
        /\ \A i \in 1..Len(sent) : sent'[i] = sent[i]
    <3> HIDE DEF last
    <3> QED BY <2>1, <2>4 DEF last, LogTypes
  <2>6. last.id = content[m] /\ last.notice = Notice(Datagram(w))
    OBVIOUS
  <2> HIDE DEF last
  <2>7. \A i \in 1..Len(sent') : i = Len(sent') \/ i \in 1..Len(sent)
    BY <2>5
  <2>8. Held' = Held /\ Unsent' \subseteq Unsent \ {m} /\ m \in Unsent
    <3>1. Held' = Held
      BY <1>3, <2>2 DEF Held
    <3>2. Finished' = Finished \cup {m}
      BY <1>3, <2>2 DEF Finished
    <3>3. \A v \in Workers \ {w} : msg[v] # m
      BY <1>1 DEF IInv, SingleOwner
    <3>4. m \notin Finished
      BY <2>2, <3>3 DEF Finished
    <3> QED BY <1>2, <3>1, <3>2, <3>4 DEF Unsent
  <2>9. SentIds' \subseteq SentIds \cup {content[m]}
    BY <2>5, <2>6, <2>7 DEF SentIds
  <2>10. content[m] \notin SentIds
    BY <2>8 DEF NotYetSent
  <2>11. LogTypes'
    BY <1>3, <2>5 DEF LogTypes, Arrived
  <2>12. CurNew' /\ HeldPosted' /\ HeldDiffer' /\ Apart' /\ NoneLost' /\ LiveHeld'
    BY <1>3, <2>2, <2>8 DEF CurNew, HeldPosted, HeldDiffer, Apart, NoneLost, LiveHeld, Arrived
  <2>13. NotYetSent'
    <3>1. \A n \in Unsent' : content[n] \notin SentIds /\ content[n] # content[m]
      BY <1>2, <2>8 DEF NotYetSent, HeldDiffer, Unsent
    <3> QED BY <1>3, <2>9, <3>1 DEF NotYetSent
  <2>14. ToSend'
    BY <1>3, <2>2 DEF ToSend, Datagram
  <2>15. SentGenuine'
    <3>1. /\ last.id \in posted /\ IsEndOfEvent(arrived[last.id])
          /\ last.notice = Notice(arrived[last.id])
      BY <2>2, <2>3, <2>6 DEF ToSend, Datagram
    <3> QED BY <1>3, <2>5, <2>7, <3>1 DEF SentGenuine
  <2>16. SentOnce'
    <3>1. \A i \in 1..Len(sent) : sent[i].id # last.id
      BY <2>6, <2>10 DEF SentIds
    <3>2. ASSUME NEW i \in 1..Len(sent'), NEW j \in 1..Len(sent'), i # j
          PROVE  sent'[i].id # sent'[j].id
      BY <2>5, <2>7, <3>1, <3>2 DEF SentOnce
    <3> QED BY <3>2 DEF SentOnce
  <2> QED BY <2>11, <2>12, <2>13, <2>14, <2>15, <2>16
<1> QED BY <1>6, <1>7, <1>8, <1>9, <1>10 DEF TaskStep

\* Every step of the server preserves the invariant of the datagrams.
LEMMA NextDInv == IInv /\ SInv /\ BootInv /\ DInv /\ [ServerNext]_systemVars => DInv'
<1>1. ASSUME IInv, DInv, UNCHANGED systemVars PROVE DInv'
  <2>1. Held' = Held /\ Unsent' = Unsent /\ ToSend'
    BY <1>1 DEF Held, Unsent, Finished, ToSend, Datagram, DInv, systemVars, allVars, vars, serverVars,
                heapVars, taskVars, logVars
  <2> QED BY <1>1, <2>1, QuietDInv DEF systemVars, serverVars, heapVars
<1> QED BY <1>1, MainDInv, ReceiverDInv, PostDInv, ReadDInv, TaskDInv
        DEF ServerNext, ReceiverStep

\* The framework, the handlers and the datagrams keep their invariants in every behaviour.
THEOREM DatagramInvariance == ServerSafety => [](IInv /\ SInv /\ BootInv /\ StackInv /\ DInv)
<1>1. ServerInit => IInv /\ SInv /\ BootInv /\ StackInv /\ DInv
  BY InitIInv, InitSInv, InitBootInv, InitStackInv, InitDInv DEF ServerInit, PoolInit
<1>2. SInv => Shape
  BY DEF SInv
<1> QED BY <1>1, <1>2, ServerIInv, NextSInv, NextBootInv, NextStackInv, NextDInv, PTL DEF ServerSafety

-----------------------------------------------------------------------------
\* Every variable keeps its type; the framework objects are two at most, the handlers no
\* more than the workers.
THEOREM ServerTypeCorrect == ServerSafety => []ServerTypeOK
<1>1. IInv /\ SInv /\ BootInv /\ StackInv /\ DInv /\ PoolTypeOK => ServerTypeOK
  <2> SUFFICES ASSUME IInv, SInv, BootInv, StackInv, DInv, PoolTypeOK
               PROVE  ServerTypeOK
    OBVIOUS
  <2>1. stacks \in 0..Cardinality(Workers)
    <3>1. Cardinality(NewHandlers) \in Nat /\ Cardinality(Workers) \in Nat
      BY FS_Subset, FS_CardinalityType, ThreadsAssumption DEF NewHandlers
    <3> QED BY <3>1 DEF StackInv
  <2>2. posted \subseteq Ids /\ dropped \subseteq Ids
    BY ServerAssumption DEF DInv, LogTypes, Arrived, Ids
  <2> QED BY <2>1, <2>2 DEF ServerTypeOK, SInv, Shape, Places, TaskPlaces, BootInv, DInv, LogTypes, SentGenuine
<1> QED BY <1>1, DatagramInvariance, PoolUsed, PoolTypeCorrect, PTL

\* No block is lost but what the receiver abandons, and every datagram is posted or
\* dropped, never both, but the one in the making.
THEOREM NothingIsLost == ServerSafety => []NothingElseLeaks
<1>1. SInv /\ DInv => NothingElseLeaks
  <2> SUFFICES ASSUME SInv, DInv PROVE NothingElseLeaks
    OBVIOUS
  <2>1. at[Receiver] \in Fetched => cur # NULL
    BY ServerAssumption DEF SInv, CurFresh, Fetched
  <2> QED BY <2>1 DEF NothingElseLeaks, DInv, LiveHeld, Held, Apart, NoneLost, Arrived
<1> QED BY <1>1, DatagramInvariance, PTL

\* The proxy is told of end packets that arrived, of each at most once, with what they
\* said, for any number of workers and any reuse of the buffers.
THEOREM NoticesAreRight == ServerSafety => []NoticesAreGenuine
<1>1. DInv => NoticesAreGenuine
  <2> SUFFICES ASSUME DInv PROVE NoticesAreGenuine
    OBVIOUS
  <2>1. \A i \in 1..Len(sent) : arrived[sent[i].id] \in Datagrams
    BY DEF DInv, SentGenuine, LogTypes, Arrived
  <2> QED BY <2>1, NoticeOfDatagram DEF NoticesAreGenuine, DInv, SentGenuine, SentOnce
<1> QED BY <1>1, DatagramInvariance, PTL
=============================================================================
