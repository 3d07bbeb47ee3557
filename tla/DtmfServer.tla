----------------------------- MODULE DtmfServer -----------------------------
(***************************************************************************)
(* The DTMF server: main() starts the thread that receives RTP datagrams   *)
(* (dtmf/src/DatagramSocket.cpp) and the worker pool (dtmf/src/Dtmf.cpp),  *)
(* and then registers the pool's queue with the framework                  *)
(* (common/src/framework.cpp), through which the receiver posts.  The      *)
(* workers' performTask recognises the end packets of RFC 2833 events      *)
(* (dtmf/src/rtpptoxy_reqInfo.cpp) and notifies the RTP proxy              *)
(* (dtmf/src/Dtmf_MessageStack.cpp).                                       *)
(*                                                                         *)
(* The queue and the pool are those of MessageQueue.tla and ThreadPool.tla *)
(* step by step; "busy" workers are refined here into performTask.         *)
(***************************************************************************)
EXTENDS ThreadPool

CONSTANTS Main, Receiver,  \* the other two threads; the receiver is the poster
          Datagrams,       \* what may arrive: records, see below
          MaxDatagrams,    \* bound: datagrams received in a behaviour
          MaxErrors        \* bound: receive() calls that fail in a behaviour

ASSUME ServerAssumption ==
  /\ Posters = {Receiver}
  /\ Main \notin Threads \cup {NoThread}
  /\ MaxDatagrams \in Nat /\ MaxErrors \in Nat
  /\ NULL \notin Messages /\ Emergency = {}

\* A datagram: its size, the sender's port, and the bytes of the RTP header
\* and of the RFC 2833 payload that the server looks at.
DatagramType == [size : Nat \ {0}, port : Nat, type : 0..255, timestamp : Nat,
                 event : 0..255, flags : 0..255]

ASSUME DatagramsAssumption == Datagrams \subseteq DatagramType

VARIABLES at,          \* where main and the receiver are
          instance,    \* framework::instance, 0 for NULL
          frameworks,  \* the number of framework objects created
          registered,  \* those that have COMPONENT_DTMF in their map
          mapLock,     \* the owner of each object's m_lock
          fw,          \* what each thread last read from framework::instance
          cur,         \* the message the receiver is working on
          stacks,      \* Dtmf_ProxyMessageStack objects created
          task,        \* where each busy worker is in performTask
          live,        \* allocated blocks of each message
          content,     \* the datagram each message carries, as an index
          leaked,      \* messages abandoned because receive() failed
          dropped,     \* datagrams abandoned because no queue was registered
          arrived,     \* the datagrams received so far, in order
          posted,      \* those that reached the queue
          sent         \* calls of sendto, in order, and their results

bootVars   == <<instance, frameworks, fw>>
lookupVars == <<registered, mapLock>>
heapVars   == <<live, content, leaked>>
taskVars   == <<task, stacks>>
logVars    == <<arrived, dropped, posted, sent>>
serverVars == <<at, cur, bootVars, lookupVars, heapVars, taskVars, logVars>>
systemVars == <<allVars, serverVars>>

Callers == {Main, Receiver}

\* Each message is three blocks: the receive buffer, the app_dtmf_t that
\* points to it and the dtmf_msgFormat that points to that.
Blocks == {"buffer", "app", "format"}

Ids == 1..MaxDatagrams
Objects == 1..2   \* main and the receiver create one framework each at most

ServerInit ==
  /\ PoolInit
  /\ at = [t \in Callers |-> IF t = Main THEN "init" ELSE "none"]
  /\ instance = 0 /\ frameworks = 0 /\ registered = {}
  /\ mapLock = [o \in Objects |-> NoThread]
  /\ fw = [t \in Callers |-> 0]
  /\ cur = NULL
  /\ stacks = 0
  /\ task = [w \in Workers |-> "none"]
  /\ live = [m \in Messages |-> {}]
  /\ content = [m \in Messages |-> 0]
  /\ leaked = 0
  /\ arrived = <<>> /\ dropped = {} /\ posted = {} /\ sent = <<>>

GotoAt(t, place) == at' = [at EXCEPT ![t] = place]

-----------------------------------------------------------------------------
(***************************************************************************)
(* handle_msgUDP's reading of a datagram.  The buffer was zeroed, so bytes *)
(* that were not received read as 0.                                       *)
(***************************************************************************)
\* Mutant: the buffer keeps what an earlier, longer datagram left in it.
ByteAtStale(d, offset, value) == value

ByteAt(d, offset, value) == IF offset < d.size THEN value ELSE 0

\* Mutant: the marker bit is not masked out.
PayloadTypeUnmasked(d) == ByteAt(d, 1, d.type)

PayloadType(d) == ByteAt(d, 1, d.type) % 128

EndBit(d) == ByteAt(d, 13, d.flags) \div 128

IsEndOfEvent(d) == PayloadType(d) = 101 /\ EndBit(d) = 1

\* The notification text "signal:port:timestamp".
Notice(d) == [signal |-> ByteAt(d, 12, d.event), port |-> d.port, timestamp |-> d.timestamp]

-----------------------------------------------------------------------------
(***************************************************************************)
(* framework::getInstance(), called by main and by the receiver without a  *)
(* lock.  The pointer that is returned may be the one read at the test or  *)
(* stored by new, or it may be read again: the build decides.              *)
(***************************************************************************)
\* Mutant: a framework is created for every call.
InstanceTestNot(t) == /\ at[t] = "getInstance"
                      /\ fw' = [fw EXCEPT ![t] = instance]
                      /\ GotoAt(t, "new")
                      /\ UNCHANGED <<allVars, instance, frameworks, cur, lookupVars,
                                     heapVars, taskVars, logVars>>

InstanceTest(t) == /\ at[t] = "getInstance"
                   /\ fw' = [fw EXCEPT ![t] = instance]
                   /\ GotoAt(t, IF instance = 0 THEN "new" ELSE "return")
                   /\ UNCHANGED <<allVars, instance, frameworks, cur, lookupVars,
                                  heapVars, taskVars, logVars>>

InstanceNew(t) == /\ at[t] = "new"
                  /\ frameworks' = frameworks + 1
                  /\ instance' = frameworks'
                  /\ fw' = [fw EXCEPT ![t] = frameworks']
                  /\ GotoAt(t, "return")
                  /\ UNCHANGED <<allVars, cur, lookupVars, heapVars, taskVars, logVars>>

InstanceReturn(t) ==
  /\ at[t] = "return"
  /\ \E o \in {fw[t], instance} : fw' = [fw EXCEPT ![t] = o]
  /\ GotoAt(t, IF t = Main THEN "register" ELSE "find")
  /\ UNCHANGED <<allVars, instance, frameworks, cur, lookupVars, heapVars, taskVars, logVars>>

-----------------------------------------------------------------------------
(***************************************************************************)
(* main(): DTMF_Init() and DTMFMessageManager::init()                      *)
(***************************************************************************)
StartReceiver == /\ at[Main] = "init"
                 /\ at' = [at EXCEPT ![Main] = "pool", ![Receiver] = "alloc"]
                 /\ UNCHANGED <<allVars, bootVars, cur, lookupVars, heapVars, taskVars, logVars>>

StartPool == /\ at[Main] = "pool"
             /\ Start
             /\ GotoAt(Main, "starting")
             /\ UNCHANGED <<bootVars, cur, lookupVars, heapVars, taskVars, logVars>>

StartWorker(w) == CreateWorker(w) /\ UNCHANGED serverVars

PoolStarted == /\ at[Main] = "starting"
               /\ CreateReturn
               /\ GotoAt(Main, "getInstance")
               /\ UNCHANGED <<bootVars, cur, lookupVars, heapVars, taskVars, logVars>>

\* registerComponent(), whose result DTMF_Init ignores.
Register == /\ at[Main] = "register"
            /\ mapLock[fw[Main]] = NoThread
            /\ registered' = registered \cup {fw[Main]}
            /\ GotoAt(Main, "up")
            /\ UNCHANGED <<allVars, bootVars, cur, mapLock, heapVars, taskVars, logVars>>

-----------------------------------------------------------------------------
(***************************************************************************)
(* UDPMsgRecv_thread                                                       *)
(***************************************************************************)
Allocate(m) == /\ at[Receiver] = "alloc"
               /\ live[m] = {} /\ Fresh(m)
               /\ cur' = m
               /\ live' = [live EXCEPT ![m] = {"buffer", "app"}]
               /\ GotoAt(Receiver, "receive")
               /\ UNCHANGED <<allVars, bootVars, lookupVars, content, leaked, taskVars, logVars>>

\* The blocks of the current message are given up: their address is free for
\* the model, the memory is not.
Abandon == /\ live' = [live EXCEPT ![cur] = {}]
           /\ content' = [content EXCEPT ![cur] = 0]
           /\ cur' = NULL

\* receive() returns nothing: the loop allocates anew.
ReceiveFails == /\ at[Receiver] = "receive"
                /\ leaked < MaxErrors
                /\ leaked' = leaked + 1
                /\ Abandon
                /\ GotoAt(Receiver, "alloc")
                /\ UNCHANGED <<allVars, bootVars, lookupVars, taskVars, logVars>>

Receive(d) == /\ at[Receiver] = "receive"
              /\ Len(arrived) < MaxDatagrams
              /\ arrived' = Append(arrived, d)
              /\ content' = [content EXCEPT ![cur] = Len(arrived')]
              /\ live' = [live EXCEPT ![cur] = Blocks]
              /\ GotoAt(Receiver, "getInstance")
              /\ UNCHANGED <<allVars, bootVars, cur, lookupVars, leaked, taskVars, dropped, posted, sent>>

\* framework::post(): lock the map, look the queue up ...
Find == LET o == fw[Receiver]
        IN  /\ at[Receiver] = "find"
            /\ mapLock[o] = NoThread
            /\ mapLock' = [mapLock EXCEPT ![o] = Receiver]
            /\ GotoAt(Receiver, IF o \in registered THEN "post" ELSE "drop")
            /\ UNCHANGED <<allVars, bootVars, cur, registered, heapVars, taskVars, logVars>>

MapUnlock == mapLock' = [mapLock EXCEPT ![fw[Receiver]] = NoThread]

\* Mutant: the early return forgets the map's mutex.
DropLocked == /\ at[Receiver] = "drop"
              /\ dropped' = dropped \cup {content[cur]}
              /\ Abandon
              /\ GotoAt(Receiver, "alloc")
              /\ UNCHANGED <<allVars, bootVars, lookupVars, leaked, taskVars, arrived, posted, sent>>

\* ... give up when it is not there: the receiver ignores the result ...
Drop == /\ at[Receiver] = "drop"
        /\ MapUnlock
        /\ dropped' = dropped \cup {content[cur]}
        /\ Abandon
        /\ GotoAt(Receiver, "alloc")
        /\ UNCHANGED <<allVars, bootVars, registered, leaked, taskVars, arrived, posted, sent>>

\* ... or call the queue's post() with the map locked ...
BeginPost == /\ at[Receiver] = "post"
             /\ PostLock(Receiver, cur)
             /\ posted' = posted \cup {content[cur]}
             /\ GotoAt(Receiver, "posting")
             /\ UNCHANGED <<poolVars, bootVars, cur, lookupVars, heapVars, taskVars, arrived, dropped, sent>>

\* ... and unlock it.
EndPost == /\ at[Receiver] = "posting"
           /\ pc[Receiver] = "idle"
           /\ MapUnlock
           /\ cur' = NULL
           /\ GotoAt(Receiver, "alloc")
           /\ UNCHANGED <<allVars, bootVars, registered, heapVars, taskVars, logVars>>

-----------------------------------------------------------------------------
(***************************************************************************)
(* performTask, handleMessage and handle_msgUDP in a worker                *)
(***************************************************************************)
Datagram(w) == arrived[content[msg[w]]]

GotoTask(w, place) == task' = [task EXCEPT ![w] = place]

Delete(w, block) == live' = [live EXCEPT ![msg[w]] = @ \ {block}]

\* getHandleObj: the handler is a lazily created singleton.
GetHandler(w) == /\ pc[w] = "busy" /\ task[w] = "none"
                 /\ GotoTask(w, IF stacks = 0 THEN "new" ELSE "parse")
                 /\ UNCHANGED <<allVars, at, bootVars, cur, lookupVars, heapVars, stacks, logVars>>

NewHandler(w) == /\ task[w] = "new"
                 /\ stacks' = stacks + 1
                 /\ GotoTask(w, "parse")
                 /\ UNCHANGED <<allVars, at, bootVars, cur, lookupVars, heapVars, logVars>>

\* Mutant: the buffer is freed only when the packet is not an end packet.
ParseFreesLate(w) ==
  /\ task[w] = "parse"
  /\ IF IsEndOfEvent(Datagram(w)) THEN UNCHANGED live ELSE Delete(w, "buffer")
  /\ GotoTask(w, IF IsEndOfEvent(Datagram(w)) THEN "send" ELSE "deleteApp")
  /\ UNCHANGED <<allVars, at, bootVars, cur, lookupVars, content, leaked, stacks, logVars>>

\* handle_msgUDP frees the receive buffer on either way out.
Parse(w) == /\ task[w] = "parse"
            /\ Delete(w, "buffer")
            /\ GotoTask(w, IF IsEndOfEvent(Datagram(w)) THEN "send" ELSE "deleteApp")
            /\ UNCHANGED <<allVars, at, bootVars, cur, lookupVars, content, leaked, stacks, logVars>>

\* A sendto that fails is logged and not tried again.
Send(w) == /\ task[w] = "send"
           /\ \E ok \in BOOLEAN :
                sent' = Append(sent, [id |-> content[msg[w]], ok |-> ok,
                                      notice |-> Notice(Datagram(w))])
           /\ GotoTask(w, "deleteApp")
           /\ UNCHANGED <<allVars, at, bootVars, cur, lookupVars, heapVars, stacks, arrived, dropped, posted>>

DeleteApp(w) == /\ task[w] = "deleteApp"
                /\ Delete(w, "app")
                /\ GotoTask(w, "deleteMsg")
                /\ UNCHANGED <<allVars, at, bootVars, cur, lookupVars, content, leaked, stacks, logVars>>

\* Mutant: performTask returns without deleting the message.
DeleteMsgForgotten(w) ==
  /\ task[w] = "deleteMsg"
  /\ TaskDone(w)
  /\ GotoTask(w, "none")
  /\ UNCHANGED <<poolVars, at, bootVars, cur, lookupVars, heapVars, stacks, logVars>>

\* performTask deletes the message and returns to startWorker.
DeleteMsg(w) == /\ task[w] = "deleteMsg"
                /\ TaskDone(w)
                /\ Delete(w, "format")
                /\ GotoTask(w, "none")
                /\ UNCHANGED <<poolVars, at, bootVars, cur, lookupVars, content, leaked, stacks, logVars>>

-----------------------------------------------------------------------------
\* The steps of the queue that the server leaves as they are: nobody cancels
\* a worker, and performTask returns by DeleteMsg.
QueueStep(t) == /\ \/ t = Receiver /\ PostStep(t)
                   \/ t \in Workers /\ (Acquire(t) \/ (WorkerStep(t) /\ pc[t] # "busy"))
                /\ UNCHANGED <<poolVars, serverVars>>

Wakeup(w) == SpuriousWakeup(w) /\ UNCHANGED <<poolVars, serverVars>>

MainStep == \/ StartReceiver \/ StartPool \/ PoolStarted \/ Register
            \/ \E w \in Workers : StartWorker(w)
            \/ InstanceTest(Main) \/ InstanceNew(Main) \/ InstanceReturn(Main)

ReceiverStep == \/ \E m \in Messages : Allocate(m)
                \/ InstanceTest(Receiver) \/ InstanceNew(Receiver) \/ InstanceReturn(Receiver)
                \/ Find \/ Drop \/ BeginPost \/ EndPost
                \/ QueueStep(Receiver)

Arrival == ReceiveFails \/ \E d \in Datagrams : Receive(d)

TaskStep(w) == GetHandler(w) \/ NewHandler(w) \/ Parse(w) \/ Send(w) \/ DeleteApp(w) \/ DeleteMsg(w)

ServerNext == \/ MainStep
              \/ ReceiverStep
              \/ Arrival
              \/ \E w \in Workers : TaskStep(w) \/ QueueStep(w) \/ Wakeup(w)

ServerSafety == ServerInit /\ [][ServerNext]_systemVars

\* Threads that can run do, and a thread that waits for the queue's mutex
\* again and again gets it; nothing makes a datagram arrive.
ServerSpec == /\ ServerSafety
              /\ WF_systemVars(MainStep)
              /\ SF_systemVars(ReceiverStep)
              /\ \A w \in Workers : /\ WF_systemVars(TaskStep(w))
                                    /\ SF_systemVars(QueueStep(w))

-----------------------------------------------------------------------------
ServerTypeOK ==
  /\ PoolTypeOK
  /\ at \in [Callers -> {"none", "init", "pool", "starting", "getInstance", "new", "return",
                         "register", "up", "alloc", "receive", "find", "post", "drop", "posting"}]
  /\ frameworks \in 0..2 /\ instance \in 0..frameworks
  /\ registered \subseteq Objects
  /\ mapLock \in [Objects -> {NoThread, Receiver}]
  /\ fw \in [Callers -> 0..frameworks]
  /\ cur \in Messages \cup {NULL}
  /\ stacks \in 0..Cardinality(Workers)
  /\ task \in [Workers -> {"none", "new", "parse", "send", "deleteApp", "deleteMsg"}]
  /\ live \in [Messages -> SUBSET Blocks]
  /\ content \in [Messages -> 0..Len(arrived)]
  /\ arrived \in Seq(Datagrams)
  /\ leaked \in 0..MaxErrors
  /\ posted \subseteq Ids /\ dropped \subseteq Ids
  /\ \A i \in 1..Len(sent) : sent[i].id \in posted

\* Each block is used by the thread that has the message while it is
\* allocated, and freed once.
BlocksInUse ==
  \A w \in Workers : pc[w] = "busy" =>
    live[msg[w]] = CASE task[w] \in {"none", "new", "parse"} -> Blocks
                     [] task[w] \in {"send", "deleteApp"}    -> {"app", "format"}
                     [] task[w] = "deleteMsg"                -> {"format"}

\* Every allocated block is within reach of the thread that will free it: what
\* leaks is what the receiver abandons, nothing that was posted; and every
\* datagram was posted or abandoned, never both, but the one in the making.
NothingElseLeaks ==
  /\ \A m \in Messages : live[m] # {} =>
       m = cur \/ m \in Range(queue) \/ \E t \in Threads : msg[t] = m
  /\ posted \cap dropped = {}
  /\ \A k \in 1..Len(arrived) : \/ k \in posted \cup dropped
                                 \/ (cur # NULL /\ content[cur] = k)

\* An end packet of an RFC 2833 telephone-event stream (payload type 101).
EndPacket(d) == d.size >= 14 /\ d.type \in {101, 229} /\ d.flags >= 128

\* The proxy is told of an event at most once for each end packet that arrived
\* and of nothing else, with that packet's event, port and timestamp, however
\* the workers interleave and whatever buffers were used before.
NoticesAreGenuine ==
  /\ \A i \in 1..Len(sent) :
       LET d == arrived[sent[i].id]
       IN  /\ EndPacket(d)
           /\ sent[i].notice = [signal |-> d.event, port |-> d.port, timestamp |-> d.timestamp]
  /\ \A i, j \in 1..Len(sent) : i # j => sent[i].id # sent[j].id

\* A datagram that reached the queue and ends an event is notified (sendto is
\* called; the network may still fail).  The bound on the datagrams makes the
\* load finite: under a load that never stops the LIFO order can delay one for
\* ever.
EndIsNotified ==
  \A k \in Ids :
    (k \in posted /\ EndPacket(arrived[k])) ~> \E i \in 1..Len(sent) : sent[i].id = k

\* The map's mutex, held while the queue's is taken, never blocks anyone for
\* good: main gets to register and the receiver back to receiving.
BootAndReceive == /\ <>(at[Main] = "up")
                  /\ at[Receiver] = "find" ~> at[Receiver] = "receive"

\* "DTMFCheck initialization succed!" (Dtmfmain.cpp:114): once DTMF_Init is
\* done, the framework that getInstance() gives has the component.
InitializationSucceeds == at[Main] = "up" => instance \in registered
=============================================================================
