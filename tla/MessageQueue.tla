---------------------------- MODULE MessageQueue ----------------------------
(***************************************************************************)
(* Sdf_cl_commonMessageQueue (common/src/sdfmessagequeue.cpp): the         *)
(* unbounded mutex + condition variable queue between the threads that     *)
(* post messages and the worker threads of a thread pool that read them.   *)
(*                                                                         *)
(* The model is at the grain of the pthread calls.  A poster locks,        *)
(* inserts, unlocks and only then signals; a worker locks, tests, waits    *)
(* (releasing the lock), is woken, takes the lock again and tests again.   *)
(* The workers run the loop of Sdf_cl_commonThreadPool::startWorker around *)
(* read().  They are created, cancelled and joined by actions that stand   *)
(* for whoever owns the pool: ThreadPool.tla replaces them by the code     *)
(* that does it.                                                           *)
(***************************************************************************)
EXTENDS Integers, Sequences, FiniteSets, Functions

CONSTANTS Posters,    (* threads that call post()                            *)
          Workers,    (* thread identities a pool worker can have            *)
          Messages,   (* addresses of message buffers                        *)
          Emergency,  (* the messages posted with msgEmergency = true        *)
          NULL,       (* the null pointer; a member of Messages where a      *)
                      (* caller may post it                                  *)
          NoThread    (* the owner of a free mutex                           *)

ASSUME ThreadsAssumption ==
  /\ IsFiniteSet(Posters) /\ IsFiniteSet(Workers)
  /\ Posters \cap Workers = {}
  /\ NoThread \notin Posters \cup Workers

ASSUME MessagesAssumption == Emergency \subseteq Messages

Threads == Posters \cup Workers

VARIABLES queue,      (* std::list<void*>, front first                       *)
          lock,       (* the owner of queueLock                              *)
          pc,         (* where each thread is                                *)
          msg,        (* the pData of a poster, the retval/pData of a worker *)
          cancelled   (* threads with a cancellation request pending         *)

vars == <<queue, lock, pc, msg, cancelled>>

PosterStates == {"idle", "insert", "unlock", "signal"}
WorkerStates == {"none",      \* no such thread
                 "launch",    \* created, in threadPoolWorkerThreadLauncher
                 "read",      \* about to lock the queue in read()
                 "check",     \* holds the lock, at the while test
                 "waiting",   \* blocked in pthread_cond_wait
                 "woken",     \* must lock the mutex again before it returns
                 "take",      \* holds the lock, the queue was not empty
                 "taken",     \* holds the lock, retval is set
                 "busy",      \* in performTask
                 "cleanup",   \* cancelled in the wait, which takes the lock again
                 "handler",   \* in the cancellation handler, at the trylock
                 "release",   \* in the cancellation handler, at the unlock
                 "exited"}    \* terminated, not joined yet

\* A buffer that no queue and no thread refers to: what new returns.  The
\* null pointer is not a buffer; it is kept to one occurrence in the queue.
Fresh(m) == /\ m \notin Range(queue)
            /\ m # NULL => \A t \in Threads : msg[t] # m

Init == /\ queue = <<>>
        /\ lock = NoThread
        /\ pc = [t \in Threads |-> IF t \in Posters THEN "idle" ELSE "none"]
        /\ msg = [t \in Threads |-> NULL]
        /\ cancelled = {}

Goto(t, state) == pc' = [pc EXCEPT ![t] = state]

\* pthread_mutex_unlock on a mutex of the default type asks nobody who he is:
\* whoever calls it, the mutex is free.
Lock(t) == lock = NoThread /\ lock' = t
Unlock  == lock' = NoThread

-----------------------------------------------------------------------------
(***************************************************************************)
(* post()                                                                  *)
(***************************************************************************)
PostLock(p, m) == /\ pc[p] = "idle"
                  /\ Fresh(m)
                  /\ Lock(p)
                  /\ msg' = [msg EXCEPT ![p] = m]
                  /\ Goto(p, "insert")
                  /\ UNCHANGED <<queue, cancelled>>

\* Mutant: an emergency message replaces the list.
PostInsertReplaces(p) == /\ pc[p] = "insert"
                         /\ queue' = IF msg[p] \in Emergency
                                     THEN <<msg[p]>>
                                     ELSE Append(queue, msg[p])
                         /\ msg' = [msg EXCEPT ![p] = NULL]
                         /\ Goto(p, "unlock")
                         /\ UNCHANGED <<lock, cancelled>>

\* Emergency messages are pushed to the front, the others to the back.
PostInsert(p) == /\ pc[p] = "insert"
                 /\ queue' = IF msg[p] \in Emergency
                             THEN <<msg[p]>> \o queue
                             ELSE Append(queue, msg[p])
                 /\ msg' = [msg EXCEPT ![p] = NULL]
                 /\ Goto(p, "unlock")
                 /\ UNCHANGED <<lock, cancelled>>

\* Mutant: the signal is forgotten.
PostUnlockOnly(p) == /\ pc[p] = "unlock"
                     /\ Unlock
                     /\ Goto(p, "idle")
                     /\ UNCHANGED <<queue, msg, cancelled>>

PostUnlock(p) == /\ pc[p] = "unlock"
                 /\ Unlock
                 /\ Goto(p, "signal")
                 /\ UNCHANGED <<queue, msg, cancelled>>

\* Mutant: signal only when the list has just become non-empty.
PostSignalFirst(p) ==
  /\ pc[p] = "signal"
  /\ \/ /\ Len(queue) # 1 \/ \A w \in Workers : pc[w] # "waiting"
        /\ Goto(p, "idle")
     \/ /\ Len(queue) = 1
        /\ \E w \in Workers :
             /\ pc[w] = "waiting"
             /\ pc' = [pc EXCEPT ![p] = "idle", ![w] = "woken"]
  /\ UNCHANGED <<queue, lock, msg, cancelled>>

\* The signal comes after the unlock; it wakes one waiter if there is one.
PostSignal(p) ==
  /\ pc[p] = "signal"
  /\ \/ /\ \A w \in Workers : pc[w] # "waiting"
        /\ Goto(p, "idle")
     \/ \E w \in Workers :
          /\ pc[w] = "waiting"
          /\ pc' = [pc EXCEPT ![p] = "idle", ![w] = "woken"]
  /\ UNCHANGED <<queue, lock, msg, cancelled>>

-----------------------------------------------------------------------------
(***************************************************************************)
(* read(), called in the loop of startWorker()                             *)
(***************************************************************************)
ReadLock(w) == /\ pc[w] = "read"
               /\ Lock(w)
               /\ Goto(w, "check")
               /\ UNCHANGED <<queue, msg, cancelled>>

\* pthread_cond_wait releases the mutex and blocks in one step.
ReadWait(w) == /\ pc[w] = "check"
               /\ queue = <<>>
               /\ Unlock
               /\ Goto(w, "waiting")
               /\ UNCHANGED <<queue, msg, cancelled>>

ReadNotEmpty(w) == /\ pc[w] = "check"
                   /\ queue # <<>>
                   /\ Goto(w, "take")
                   /\ UNCHANGED <<queue, lock, msg, cancelled>>

\* POSIX lets pthread_cond_wait return without a signal.
SpuriousWakeup(w) == /\ pc[w] = "waiting"
                     /\ Goto(w, "woken")
                     /\ UNCHANGED <<queue, lock, msg, cancelled>>

\* Mutant: pthread_cleanup_pop(1), which runs the handler after every wait.
WaitReturnPopped(w) == /\ pc[w] = "woken"
                       /\ lock = NoThread
                       /\ Unlock
                       /\ Goto(w, "check")
                       /\ UNCHANGED <<queue, msg, cancelled>>

\* A woken waiter owns the mutex again when the wait returns; the handler is
\* taken off without being run, and the list is tested again.
WaitReturn(w) == /\ pc[w] = "woken"
                 /\ Lock(w)
                 /\ Goto(w, "check")
                 /\ UNCHANGED <<queue, msg, cancelled>>

\* Mutant: back() without pop_back().
ReadTakeNoPop(w) == /\ pc[w] = "take"
                    /\ msg' = [msg EXCEPT ![w] = queue[Len(queue)]]
                    /\ Goto(w, "taken")
                    /\ UNCHANGED <<queue, lock, cancelled>>

\* queue.back(), popped unless it is the null pointer.
ReadTake(w) == /\ pc[w] = "take"
               /\ msg' = [msg EXCEPT ![w] = queue[Len(queue)]]
               /\ queue' = IF queue[Len(queue)] = NULL
                           THEN queue
                           ELSE SubSeq(queue, 1, Len(queue) - 1)
               /\ Goto(w, "taken")
               /\ UNCHANGED <<lock, cancelled>>

\* read() returns; startWorker calls performTask, or read() again on NULL.
ReadUnlock(w) == /\ pc[w] = "taken"
                 /\ Unlock
                 /\ Goto(w, IF msg[w] = NULL THEN "read" ELSE "busy")
                 /\ UNCHANGED <<queue, msg, cancelled>>

\* performTask returns, having deleted the message.
TaskDone(w) == /\ pc[w] = "busy"
               /\ msg' = [msg EXCEPT ![w] = NULL]
               /\ Goto(w, "read")
               /\ UNCHANGED <<queue, lock, cancelled>>

\* The launcher enters startWorker.
Launch(w) == /\ pc[w] = "launch"
             /\ Goto(w, "read")
             /\ UNCHANGED <<queue, lock, msg, cancelled>>

-----------------------------------------------------------------------------
(***************************************************************************)
(* Cancellation.  Nothing in the code disables it, so a request is acted   *)
(* upon at the next cancellation point: pthread_cond_wait, and the output  *)
(* and socket calls of the launcher and of performTask.  Locking a mutex   *)
(* is not one, and a waiter that has consumed a signal returns from the    *)
(* wait first.                                                             *)
(***************************************************************************)
CancelInWait(w) == /\ pc[w] = "waiting"
                   /\ w \in cancelled
                   /\ Goto(w, "cleanup")
                   /\ UNCHANGED <<queue, lock, msg, cancelled>>

\* The cancelled wait takes the mutex again before the handler runs.
CancelRelock(w) == /\ pc[w] = "cleanup"
                   /\ Lock(w)
                   /\ Goto(w, "handler")
                   /\ UNCHANGED <<queue, msg, cancelled>>

\* Sdf_fn_threadCancellationHandler: the trylock takes the mutex if it is free
\* and fails otherwise; nobody looks at its result ...
HandlerTrylock(w) == /\ pc[w] = "handler"
                     /\ lock' = IF lock = NoThread THEN w ELSE lock
                     /\ Goto(w, "release")
                     /\ UNCHANGED <<queue, msg, cancelled>>

\* ... and the unlock releases the mutex, whoever has it.
HandlerUnlock(w) == /\ pc[w] = "release"
                    /\ Unlock
                    /\ Goto(w, "exited")
                    /\ UNCHANGED <<queue, msg, cancelled>>

\* The thread ends in performTask or in the launcher: its message is lost.
CancelInTask(w) == /\ pc[w] \in {"busy", "launch"}
                   /\ w \in cancelled
                   /\ msg' = [msg EXCEPT ![w] = NULL]
                   /\ Goto(w, "exited")
                   /\ UNCHANGED <<queue, lock, cancelled>>

-----------------------------------------------------------------------------
(***************************************************************************)
(* pthread_create, pthread_cancel and pthread_join by the pool's owner     *)
(***************************************************************************)
Create(w) == /\ pc[w] = "none"
             /\ Goto(w, "launch")
             /\ UNCHANGED <<queue, lock, msg, cancelled>>

Cancel(w) == /\ pc[w] # "none"
             /\ cancelled' = cancelled \cup {w}
             /\ UNCHANGED <<queue, lock, pc, msg>>

Join(w) == /\ pc[w] = "exited"
           /\ Goto(w, "none")
           /\ cancelled' = cancelled \ {w}
           /\ UNCHANGED <<queue, lock, msg>>

-----------------------------------------------------------------------------
PostStep(p) == PostInsert(p) \/ PostUnlock(p) \/ PostSignal(p)

Acquire(w) == ReadLock(w) \/ WaitReturn(w) \/ CancelRelock(w)

CancelPoint(w) == CancelInWait(w) \/ CancelInTask(w)

WorkerStep(w) == \/ Launch(w) \/ ReadWait(w) \/ ReadNotEmpty(w)
                 \/ ReadTake(w) \/ ReadUnlock(w) \/ TaskDone(w)
                 \/ HandlerTrylock(w) \/ HandlerUnlock(w)

QueueNext == \/ \E p \in Posters : \/ \E m \in Messages : PostLock(p, m)
                                   \/ PostStep(p)
             \/ \E w \in Workers : \/ Acquire(w)
                                   \/ WorkerStep(w)
                                   \/ CancelPoint(w)
                                   \/ SpuriousWakeup(w)

Next == \/ QueueNext
        \/ \E w \in Workers : Create(w) \/ Cancel(w) \/ Join(w)

\* A thread that can run runs on; performTask returns.  A thread that asks
\* for the mutex over and over gets it at last, and a cancellation request is
\* acted upon by a thread that keeps reaching cancellation points.
Fairness == /\ \A p \in Posters : WF_vars(PostStep(p))
            /\ \A w \in Workers : /\ WF_vars(WorkerStep(w))
                                  /\ SF_vars(Acquire(w))
                                  /\ SF_vars(CancelPoint(w))

Safety == Init /\ [][Next]_vars
Spec == Safety /\ Fairness
-----------------------------------------------------------------------------
TypeOK == /\ queue \in Seq(Messages)
          /\ lock \in Threads \cup {NoThread}
          /\ pc \in [Threads -> PosterStates \cup WorkerStates]
          /\ \A p \in Posters : pc[p] \in PosterStates
          /\ \A w \in Workers : pc[w] \in WorkerStates
          /\ msg \in [Threads -> Messages \cup {NULL}]
          /\ cancelled \subseteq {w \in Workers : pc[w] # "none"}

Waiting == {w \in Workers : pc[w] = "waiting"}

\* The threads that will look at the queue, or make a waiter look at it,
\* before they block: a poster that has yet to signal, and a worker between
\* its wake-up and the moment it takes a message.
Attending == {t \in Threads : pc[t] \in {"unlock", "signal", "woken", "check", "take"}}

\* No wake-up is lost: while a worker sleeps, every queued message is
\* accounted for by a signal still to come or by a worker about to take one.
\* The signal after the unlock, spurious wake-ups, stolen wake-ups, workers
\* cancelled in the wait and signals that find no waiter all bear on it.  (A
\* null pointer is taken and never popped: from then on the workers may spin.)
NoLostWakeup ==
  (Waiting # {} /\ NULL \notin Range(queue)) => Len(queue) <= Cardinality(Attending)

\* read() calls back() and pop_back() only on a non-empty list: the test is
\* repeated after every return of the wait, and no other reader can empty the
\* list between the test and the pop.
NeverPopEmpty == \A w \in Workers : pc[w] = "take" => queue # <<>>

\* performTask is never called with the null pointer, which read() returns, and
\* leaves in the list, when a caller has posted it.
NoNullTask == \A w \in Workers : pc[w] = "busy" => msg[w] # NULL

\* A buffer has one owner: it is in the queue once, or with one thread, never
\* both.  performTask deletes what read() returned, so anything else would be
\* a use after free or a double free.
SingleOwner ==
  /\ \A i, j \in 1..Len(queue) : i # j => queue[i] # queue[j]
  /\ \A t \in Threads : msg[t] # NULL =>
       /\ msg[t] \notin Range(queue)
       /\ \A u \in Threads \ {t} : msg[u] # msg[t]

\* What read() and its callers do is safe: no pop of an empty list, no null task, and
\* one owner for every buffer.
QueueIsSafe == NeverPopEmpty /\ NoNullTask /\ SingleOwner

\* Where a thread has queueLock: between its lock, or the return of its wait,
\* and its unlock; in the handler of a cancelled wait until the second line.
Holding == {"insert", "unlock", "check", "take", "taken", "handler", "release"}

\* The mutex belongs to the thread that is where the code relies on it, and is
\* free otherwise.  No operation checks this: an unlock too many, in the
\* handler that releases whatever is locked or after a wait, would let two
\* threads into the list, and one too few, of a reader that is cancelled in
\* the wait, would leave the mutex to a thread that has ended.
MutexIsSound == \A t \in Threads : lock = t <=> pc[t] \in Holding

\* A queued message keeps the workers going: a message is taken at last, unless
\* there is no worker, the pool's owner goes on cancelling workers for ever, or
\* a null pointer was posted, which the workers find again and again.
\* It need not be that message: the list is read from the end that normal
\* messages are pushed to.
Progress ==
  queue # <<>> ~> \/ \E w \in Workers : pc[w] = "taken"
                  \/ \A w \in Workers : pc[w] \in {"none", "exited"}
                  \/ \E w \in cancelled : pc[w] # "exited"
                  \/ NULL \in Range(queue)

-----------------------------------------------------------------------------
\* The queue implements a mailbox that hands every message to one reader.
Mailbox == INSTANCE Mailbox
             WITH Readers <- Workers,
                  Values  <- Messages \ {NULL},
                  Nothing <- NULL,
                  pending <- Range(queue) \ {NULL},
                  held    <- [w \in Workers |-> msg[w]]

ImplementsMailbox == Mailbox!Spec
=============================================================================
