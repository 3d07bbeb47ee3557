----------------------------- MODULE ThreadPool -----------------------------
(***************************************************************************)
(* Sdf_cl_commonThreadPool (common/src/sdfthreadpool.cpp) on top of the    *)
(* message queue it was constructed with.  One thread at a time calls      *)
(* start, stop, addWorker and deleteWorker: the class has no lock, so      *)
(* concurrent calls are outside its contract.  The worker threads are      *)
(* those of MessageQueue.tla, whose Create, Cancel and Join are here the   *)
(* pthread calls of the four methods.                                      *)
(***************************************************************************)
EXTENDS MessageQueue

CONSTANTS NumWorker,    (* the constructor's argument                        *)
          AddSizes,     (* the arguments addWorker is called with            *)
          DeleteSizes   (* the arguments deleteWorker is called with         *)

ASSUME SizesAssumption ==
  /\ NumWorker \in 0..Cardinality(Workers)
  /\ AddSizes \subseteq Nat
  /\ DeleteSizes \subseteq Nat

VARIABLES threadIdList,     (* list of pthread_t*, front first               *)
          numberOfWorkers,  (* the member variable                           *)
          call              (* the method being executed and its locals      *)

poolVars == <<threadIdList, numberOfWorkers, call>>

NoCall == [op |-> "none", arg |-> 0, left |-> 0, todo |-> 0, target |-> NoThread]

\* arg: the argument; left: the threads still to create or to delete;
\* todo: tobeDeleted; target: the thread being joined.
CallType == [op : {"none", "start", "add", "delete", "stop"}, arg : Nat,
             left : Int, todo : Nat, target : Workers \cup {NoThread}]

PoolInit == /\ Init
            /\ threadIdList = <<>>
            /\ numberOfWorkers = NumWorker
            /\ call = NoCall

-----------------------------------------------------------------------------
\* start(): as many threads as the member says and the list lacks.
Start == /\ call.op = "none"
         /\ call' = [NoCall EXCEPT !.op = "start",
                                   !.left = numberOfWorkers - Len(threadIdList)]
         /\ UNCHANGED <<vars, threadIdList, numberOfWorkers>>

\* addWorker(n).  The bound keeps every thread within Workers.
AddWorker(n) == /\ call.op = "none"
                /\ numberOfWorkers + n <= Cardinality(Workers)
                /\ call' = [NoCall EXCEPT !.op = "add", !.arg = n, !.left = n]
                /\ UNCHANGED <<vars, threadIdList, numberOfWorkers>>

\* One turn of the creation loop of either method.  A pthread_create that
\* fails is tried again, so that only the successful one is a step.
CreateWorker(w) ==
  /\ call.op \in {"start", "add"}
  /\ call.left > 0
  /\ Create(w)
  /\ threadIdList' = <<w>> \o threadIdList
  /\ numberOfWorkers' = IF call.op = "add" THEN numberOfWorkers + 1
                                           ELSE numberOfWorkers
  /\ call' = [call EXCEPT !.left = @ - 1]

\* start and addWorker return, the latter with numberOfWorkers.
CreateReturn == /\ call.op \in {"start", "add"}
                /\ call.left <= 0
                /\ call' = NoCall
                /\ UNCHANGED <<vars, threadIdList, numberOfWorkers>>

\* deleteWorker(n), whose loop counter is the clamped argument.
BeginDelete(op, n) ==
  LET d == IF numberOfWorkers < n THEN numberOfWorkers ELSE n
  IN  /\ call.op = "none"
      /\ call' = [NoCall EXCEPT !.op = op, !.arg = n, !.left = d, !.todo = d]
      /\ UNCHANGED <<vars, threadIdList, numberOfWorkers>>

DeleteWorker(n) == BeginDelete("delete", n)

\* stop() is deleteWorker(numberOfWorkers).
Stop == BeginDelete("stop", numberOfWorkers)

\* Mutant: the thread is joined without having been cancelled.
CancelWorkerJoinOnly(w) ==
  /\ call.op \in {"delete", "stop"}
  /\ call.target = NoThread
  /\ threadIdList # <<>>
  /\ w = threadIdList[Len(threadIdList)]
  /\ threadIdList' = SubSeq(threadIdList, 1, Len(threadIdList) - 1)
  /\ call' = [call EXCEPT !.target = w]
  /\ UNCHANGED <<vars, numberOfWorkers>>

\* Mutant: back() without pop_back().
CancelWorkerNoPop(w) ==
  /\ call.op \in {"delete", "stop"}
  /\ call.target = NoThread
  /\ threadIdList # <<>>
  /\ w = threadIdList[Len(threadIdList)]
  /\ Cancel(w)
  /\ call' = [call EXCEPT !.target = w]
  /\ UNCHANGED <<threadIdList, numberOfWorkers>>

\* The loop takes the last element off the list and cancels it ...
CancelWorker(w) ==
  /\ call.op \in {"delete", "stop"}
  /\ call.target = NoThread
  /\ threadIdList # <<>>
  /\ w = threadIdList[Len(threadIdList)]
  /\ Cancel(w)
  /\ threadIdList' = SubSeq(threadIdList, 1, Len(threadIdList) - 1)
  /\ call' = [call EXCEPT !.target = w]
  /\ UNCHANGED numberOfWorkers

DeleteReturn == /\ call' = NoCall
                /\ numberOfWorkers' = numberOfWorkers - call.todo

\* Mutant: the counter is tested against one.
JoinWorkerEarly(w) ==
  /\ call.target = w
  /\ Join(w)
  /\ IF call.left - 1 <= 1
     THEN DeleteReturn
     ELSE /\ call' = [call EXCEPT !.left = @ - 1, !.target = NoThread]
          /\ UNCHANGED numberOfWorkers
  /\ UNCHANGED threadIdList

\* Mutant: the thread is detached, not joined.
JoinWorkerDetach(w) ==
  /\ call.target = w
  /\ Goto(w, "none")
  /\ cancelled' = cancelled \ {w}
  /\ IF call.left - 1 = 0
     THEN DeleteReturn
     ELSE /\ call' = [call EXCEPT !.left = @ - 1, !.target = NoThread]
          /\ UNCHANGED numberOfWorkers
  /\ UNCHANGED <<queue, lock, msg, threadIdList>>

\* ... joins it, and stops when the decremented counter is zero.
JoinWorker(w) ==
  /\ call.target = w
  /\ Join(w)
  /\ IF call.left - 1 = 0
     THEN DeleteReturn
     ELSE /\ call' = [call EXCEPT !.left = @ - 1, !.target = NoThread]
          /\ UNCHANGED numberOfWorkers
  /\ UNCHANGED threadIdList

\* The loop also ends when the list is empty.
ListExhausted == /\ call.op \in {"delete", "stop"}
                 /\ call.target = NoThread
                 /\ threadIdList = <<>>
                 /\ DeleteReturn
                 /\ UNCHANGED <<vars, threadIdList>>

-----------------------------------------------------------------------------
PoolStep == \/ \E w \in Workers : CreateWorker(w) \/ CancelWorker(w) \/ JoinWorker(w)
            \/ CreateReturn
            \/ ListExhausted

PoolCall == \/ Start
            \/ Stop
            \/ \E n \in AddSizes : AddWorker(n)
            \/ \E n \in DeleteSizes : DeleteWorker(n)

PoolNext == \/ PoolStep
            \/ PoolCall
            \/ QueueNext /\ UNCHANGED poolVars

allVars == <<vars, poolVars>>

PoolSafety == PoolInit /\ [][PoolNext]_allVars

\* A method that can go on does; nothing makes anyone call one.  The threads
\* are scheduled as in MessageQueue.tla.
PoolSpec == PoolSafety /\ Fairness /\ WF_allVars(PoolStep)

-----------------------------------------------------------------------------
PoolTypeOK == /\ threadIdList \in Seq(Workers)
              /\ numberOfWorkers \in Nat
              /\ call \in CallType

\* The pool loses no thread and joins none twice: the threads that exist are
\* those in the list, each once, and the one being joined.
ThreadsAccounted ==
  /\ \A i, j \in 1..Len(threadIdList) : i # j => threadIdList[i] # threadIdList[j]
  /\ call.target \notin Range(threadIdList)
  /\ {w \in Workers : pc[w] # "none"} =
       Range(threadIdList) \cup ({call.target} \ {NoThread})

\* Between calls the pool never has more threads than it thinks: otherwise
\* stop(), which asks for numberOfWorkers deletions, would leave some running.
\* (It may have fewer: before start(), and after deleteWorker(0).)
NoSurplus == call.op = "none" => Len(threadIdList) <= numberOfWorkers

\* No thread is lost, joined twice, or out of the reach of stop().
PoolIsSound == ThreadsAccounted /\ NoSurplus

\* "This method deletes all the worker threads of the thread pool"
\* (sdfthreadpool.cpp:111): when stop() returns no worker exists, whatever the
\* calls before it, and the count is zero.
StopDeletesAll ==
  [][(call.op = "stop" /\ call'.op = "none")
       => (numberOfWorkers' = 0 /\ \A w \in Workers : pc'[w] = "none")]_allVars

\* start() makes the number of threads what numberOfWorkers says.
StartFillsPool ==
  [][(call.op = "start" /\ call'.op = "none")
       => Len(threadIdList') = numberOfWorkers']_allVars

\* stop() leaves none, and start() fills up.
StopEmptiesStartFills == StopDeletesAll /\ StartFillsPool

\* Workers that are deleted wherever they are, and a pool that is stopped and
\* started again, leave a queue that can be used: no mutex stays with a thread
\* that has ended, and the workers that are left, or come later, are not asleep
\* over a message whose signal went to a thread that was deleted.
QueueStaysUsable == MutexIsSound /\ NoLostWakeup

\* Every method returns: the worker being joined reaches a cancellation point,
\* be it asleep, woken for a message that another worker takes, or busy.
CallsReturn == call.op # "none" ~> call.op = "none"
=============================================================================
