# DTMF-CHECK: specification and verification

The program (`src/code`) is a small server. It receives the RTP datagrams that
an RTP proxy copies to it, recognises the packets that end an RFC 2833
telephone event (a DTMF key), and tells the proxy which key was pressed. It is
built on a thread pool fed by a message queue, and configured by an XML file. The
repository also holds libraries that belong to the same code base and that the
server links without using them (hash tables, an expire timer), or does not link
(a database connection pool and its cache of charging records).

This directory holds TLA+ modules for these parts, TLC configurations that
check them, and proofs checked by TLAPS. Line numbers refer to files under
`src/code`; the sources are in GBK.

| What | Where |
|---|---|
| message queue, and what it promises | `MessageQueue`, `Mailbox` |
| thread pool on that queue | `ThreadPool` (EXTENDS `MessageQueue`) |
| the server: main, receiver, workers, framework | `DtmfServer` (EXTENDS `ThreadPool`) |
| thread-safe hash table, its iterators, and what it promises | `ThreadSafeHash`, `HashIterators`, `ElementRegister` |
| plain hash table, and what it promises | `CommonHash`, `KeyedStacks` (both use `Selection`) |
| database connection pool | `ConnectionPool` |
| expire timer, and what it promises | `ExpireTimer`, `Deadlines` |
| the document object model of TinyXML, and what it promises | `XmlTree`, `OrderedForest` |
| TinyXML's parser and printers | `XmlText` |
| the configuration reader, a program that uses it, the start of the server | `CXML`, `XmlFiles`, `StartUp` |
| values for TLC | the `MC` modules and the `.cfg` files |
| proofs | `ThreadPoolProofs` (of the queue too), `DtmfServerProofs`, `HashIteratorsProofs`, `CommonHashProofs`, `ConnectionPoolProofs`, `ExpireTimerProofs`, `XmlTreeProofs`, `ListLemmas` |

## 1. Inventory

### Message queue (`common/src/sdfmessagequeue.cpp`)

*State*: an unbounded `std::list<void*>`, a mutex, a condition variable.
*Operations*: `post` (66-86), `read` (93-115), `size` (122-128) and the handler
that a cancelled reader runs (11-16). *Users*: the receiver posts, through the
framework; the workers of the pool read. *Hard*: the signal is given after the
unlock; the wait wakes spuriously, may be robbed of its message, and is a
cancellation point whose handler unlocks what it finds locked; a null pointer
is read but not popped. *Correct when* no wake-up is lost, the list is popped
only when it is not empty, a buffer is given to one reader, the mutex is
released by its owner only, and a queued message gets the workers going.

### Thread pool (`common/src/sdfthreadpool.cpp`)

*State*: the list of thread ids, `numberOfWorkers`. *Operations*: `start`
(76-106), `stop` (115-127), `addWorker` (161-190), `deleteWorker` (199-234),
and `startWorker` (135-153), the loop each worker runs. *Hard*: `deleteWorker`
cancels a thread that may sleep, wake, or be in `performTask`, and joins it; its
loop counter makes `deleteWorker(0)` delete everything; start, stop, add and
delete may come in any order. *Correct when* it loses no thread and joins none
twice, `stop` deletes all, `start` fills up, and every call returns.

### The server

*Framework* (`common/src/framework.cpp`): a map from component names to queues
under a mutex, in a lazily created singleton without one. *Receiver*
(`dtmf/src/DatagramSocket.cpp`): one thread that allocates a buffer, receives,
wraps and posts, for ever. *Workers* (`dtmf/src/Dtmf.cpp`,
`Dtmf_MessageStack.cpp`): get the handler object, a lazily created singleton,
parse the datagram, send the notification, free what the receiver allocated.
*Packet handling* (`dtmf/src/rtpptoxy_reqInfo.cpp:65-114`): reads the RTP header
and the event at fixed offsets. *Start-up* (`dtmf/src/Dtmfmain.cpp`): reads the
arguments and the configuration, starts the receiver, then the pool, then
registers the queue. *Hard*: datagrams arrive before the server is ready; both
singletons are created in a race; a message is three blocks freed in three
functions of another thread; the list is read last in, first out. *Correct when*
each block is freed once and used before, what was posted is freed, an end
packet is notified once, nothing else is, and the server comes up.

### Thread-safe hash table (`common/src/sdfhashtable.cpp:818-2122`)

*State*: chains of elements with one mutex per bucket, a counter of correlation
ids per bucket, a reference count per element, the number of elements under a
mutex of its own. *Operations*: five ways to add, and for keys and for ids
`fetch`, `release`, `remove`, `xFetch`, `xRelease`, `xFetchRemove`; two kinds of
iterators; `forEach`; the destructor. *Hard*: an element is freed by one thread
while another has it, or has its iterator on it; ids are generated, or given by
the caller, and start again when they reach 32 bits; the exclusive operations
return with the bucket locked, and exclusive iterators hand the lock from bucket
to bucket. *Correct when* what is fetched or iterated on stays, counts add up,
ids are unique, buckets are unlocked by those who locked them, and an iteration
comes to every element that stays.

### Plain hash table (`common/src/sdfhashtable.cpp:12-817`)

The same table without locks and reference counts, for one thread, which may
work on it between two steps of an iteration; the destructor is such an
iteration. *Hard*: given ids decide the bucket; the destructor removes what its
iterator has passed, by key or id, which may be another element. *Correct when*
every element is where its key and id lead, and walks are complete.

### Database connection pool (`DB_interface/src/DbConnectPool.cpp`)

*State*: a queue of connections under a mutex, a semaphore that counts them,
flags, the number of connections. *Operations*: `Init`, `CreateConnectionPool`,
`GetConnection`, `ReleaseConnection`/`PutMsg`, `ReCreateConnection`, `Stop`, and
the four queries of `Sdfdb.cpp` that use a connection. *Hard*: the queue and the
semaphore change in separate steps; a worn-out connection is replaced with the
mutex held; the database may be away; the query that uses a connection may
throw, and `Get_CDR_RateInfo` (466-544) then releases it twice; `Stop` may come
at any time. *Correct when* the semaphore counts the queue, no connection serves
two threads or is used after it was terminated, and everyone who asks gets one.

### Expire timer (`common/src/sdfexpiretimer.cpp`)

*State*: a map of timers under a mutex; each element has the time left.
*Operations*: `run` starts the thread (7-45) that takes one interval off every
timer in each round and calls `timeoutFun` and `removeFun` for those with no time
left; `startTime`, `updateTime`, `stopTime`. *Hard*: the thread erases from the
map it goes through; an element is freed by the timeout, by `stopTime` or by the
caller whose `startTime` failed; `run` may be called twice. *Correct when* each
element is freed once and each timer expires when its time is over, once, and not
after it was stopped.

### TinyXML (`xml/src/tinyxml.cpp`, `tinyxmlparser.cpp`) and CXML (`xml/src/XML.cpp`)

*State*: a tree of nodes with doubly linked lists of children; `CXML` has one
document and `pElement`, the element read last. *Operations*: link, insert,
replace, remove, clone, clear and find nodes; parse; print to a file or to a
string; `CXML` wraps them. *Hard*: up to four pointers change per operation; a
file may be damaged or cut off anywhere; what is printed must be read back; the
search of `getFirstElement` calls itself twice per level; the cursor may be unset,
null or dangling; the start of the server reads its settings with that cursor.
*Correct when* the tree stays a tree, lookups agree with it, what is saved is
loaded, damage is noticed, and a server that runs has the values of its file.

### Parts that are not modelled

| Part | Why |
|---|---|
| table of charging records (`Sdfdb.cpp:164-343`) | one thread-safe hash table, whose methods are modelled; `handleReloadConf_RD` deletes it under a lock that readers do not take, which nobody calls. The SQL is I/O |
| `MessageHandler` (`DB_interface/h/threadUtil.h:193-292`) | a template that nothing instantiates |
| `getConfPath`, `Sdfapp_fn_getLineFromConsole` (`Dtmfmain.cpp:149-204`) | nothing calls them |
| TinyXML's encodings, character references other than complete hexadecimal ones, `StreamIn`, `operator=`, typed attribute values, positions of errors | text conversion without state, or not used by the program |
| logging (`clm_log.a`) | a binary without source; its calls have no effect on the rest |

## 2. How the project is built up

In this order, the most important behaviour first; all of it is done.

1. `MessageQueue`, `Mailbox`: the queue at the grain of pthread calls, and the
   abstract mailbox it implements.
2. `ThreadPool` extends 1, whose abstract thread owner it replaces by the code.
   `ThreadPoolProofs`: the queue's safety, wake-ups and refinement; the pool is a user
   of the queue; its safety.
3. `DtmfServer` extends 2 and refines "busy" into `performTask`.
   `DtmfServerProofs`: the server is a user of the pool; its four invariants.
4. `ThreadSafeHash` implements `ElementRegister`; `HashIterators` extends it with
   iterators, `forEach` and the destructor. `HashIteratorsProofs` is about both.
   `CommonHash` implements `KeyedStacks`. `CommonHashProofs`.
5. `ConnectionPool`. `ConnectionPoolProofs`.
6. `ExpireTimer` implements `Deadlines`. `ExpireTimerProofs`.
7. `XmlTree` implements `OrderedForest` (`XmlTreeProofs`); `XmlText` is parser and printers as
   functions; `CXML` extends it with the document and the cursor; `XmlFiles` and
   `StartUp` extend `CXML` with two of its users.

Worth doing next: the command line of `StartUp` as a module that does not reach the
parser, so that what it says of the options can be proved.

## 3. Modules and code

### MessageQueue

Each variable is a member or a local: `queue`, `lock` (owner of `queueLock`),
`pc`, `msg` (`pData` of a poster, `retval` of a reader), `cancelled` (requests
of `pthread_cancel` not yet acted upon). An action is one pthread call or the
code between two of them: `PostLock`, `PostInsert`, `PostUnlock`, `PostSignal`
are `post`; `ReadLock` to `ReadUnlock` are `read` and the loop around it;
`ReadWait`, `SpuriousWakeup`, `WaitReturn` are `pthread_cond_wait`; `CancelInWait`
and `CancelInTask` are what a cancelled thread does at the cancellation points, and
nothing else is one. A wait that is cancelled takes the mutex back first
(`CancelRelock`); then the handler runs, which tries the mutex (`HandlerTrylock`)
and unlocks it whatever came of the try (`HandlerUnlock`): it does not look at who
has it. Signals wake at most one waiter,
any of them. `Create`, `Cancel`, `Join` stand for the owner of the threads.
`Fresh` is the caller's part: it posts a buffer that nobody else has.

`Mailbox` is what is left when mutex, condition variable and order are
forgotten: put, get by one reader, release.

### ThreadPool

Adds `threadIdList`, `numberOfWorkers` and `call`, the method being executed
with its locals. A turn of a loop is an action (`CreateWorker`; `CancelWorker`
then `JoinWorker`, because `pthread_join` blocks), the entry and the return of
a method are others. `left` is the loop counter, which in `deleteWorker(0)`
passes zero without being seen. One thread calls the methods: the class has no
lock. A failing `pthread_create` is repeated by the code until it succeeds, so
that only success is a step.

### DtmfServer

Main, the receiver and the workers, with the two blocks of state they share:
the framework object (`instance`, `registered`, `mapLock`) and the heap
(`live`: which of the three blocks of each message are allocated). The race in
`getInstance()` is modelled as the undefined behaviour it is: the pointer that is
returned may be the one tested, the one created, or one read again. A datagram
is a record of the bytes the server looks at; `ByteAt` reads a byte beyond the
end of the datagram as the zero of `calloc`. `performTask` is `GetHandler` ...
`DeleteMsg`, in the order in which the functions free their blocks. `arrived`,
`posted`, `dropped`, `sent` are histories that the properties speak about.
Nobody stops the pool in this program, so the pool's other methods do not occur.

### ThreadSafeHash and HashIterators

One action each for the lock of the bucket, the work under it, the count (under
`hashLock`) and the unlock. The versions of a method for keys and for ids are
one action: `ref` is one or the other and `Bucket(ref)` hashes it. `Link` is
the tail of the five ways to add, with `Push` (head of the chain, or its end in
`addS`) and `NewId`/`CounterAfter` (the counters, integers up to `U32Max`
where the code has 32 bits).

The methods do not check how they are used, so the model says what the
callers must keep to: `usage` is the way a table is addressed (by key, by id, by
id and exclusively, or by iterators of one kind: a table where some threads
fetch and others use `xFetchRemove`, which ignores reference counts, has no sound
use); a thread releases what it fetched; ids start again in a bucket that is
empty. `LongLived` drops that last clause.

In `HashIterators` an iterator is a record: the element it stands on, its bucket,
where its method is, and the elements it has still to come to (`todo`, a
history). `NextElement`, `Walk` and `XNext`, `XWalk` are one turn of the loops over
the buckets. Both kinds read the first head without a lock; `Quiet` is what the
caller must see to: nobody removes meanwhile. `BaseRemove` is the `remove` of the
base class, which the code's comment recommends under an exclusive iterator.

`ElementRegister` has three variables and atomic operations: an element that is
fetched is not removed, and is never fetched exclusively by two threads. `Clear` is
the end of the destructor: the base class deletes at once what its iteration left,
which may be several elements.

### CommonHash

A method is one step, a step of an iteration is one, and so is an element in the
destructor. `result` is what the last method returned. `visits` and `stayed` are
histories of the iteration, or of the frees of the destructor. `forEach` lets the
callback fail at any one of the places that it comes to. `KeyedStacks` forgets
buckets: each key and each id has a list from which the first is taken; it is
the part of the chain that the reference matches (`Selected`).

### ConnectionPool

`Main` initializes, creates connections, and stops the pool when the process
ends; `Users` get, query and release. `PutQueue` and `Take` are atomic because
the code holds `m_lock` around them and calls nothing that blocks; `TakeWorn`
leaves the lock taken until `ReCreateConnection` succeeds. `puts` counts the
releases still to come: one, or two after a query that threw.

### ExpireTimer

The timer thread keeps the mutex for a round, one step per timer, because it calls
the user's functions there; a method is one step under the mutex. Keys are
numbers, in the order of the map. `startTimeLog` is the read of the element after
the unlock. `Deadlines` has the time left of each timer and the timers that the
round has been to, and nothing of threads, elements or iterators.

### XmlTree

The heap of nodes with `parent`, `firstChild`, `lastChild`, `prev`, `next`; every
operation is the pointer changes of its method (`LinkedBetween`, `Joined`), the
clone and the delete included. Lookups are functions that follow the links, as
the code does: `Along` goes along one of them up to the first node wanted. `Subtree` is
what the destructor reaches. `OrderedForest` has labels and sequences of children only,
and three ways to change them: other children of one node (`WithKids`), nodes that are
no more (`Without`) and a copy of a tree (`WithCopy`). Its steps are made of these and
say at which place: `Linked`, `CopiedLast`, `CopiedBefore`, `CopiedAfter`, `Replaced`,
`Pruned`, `Emptied`, `Copied`, `DeletedRoot`. `ImplementsForest` says that every step of
the heap is one of them, `OperationsDoAsAsked` that it is the one that was called.
What both look at is `Shown`.

### XmlText, CXML, XmlFiles

A text is a sequence of symbols: punctuation, the blank, words, entities, and what
follows the ampersand of one hexadecimal character reference, which the printers pass
through and the parser replaces by its character. Parser
and printers are functions on such texts, written over positions as the code is
over pointers (0 is null). They are RECURSIVE, so nothing is proved of them. `CXML`
adds the document, the cursor `pElement` (a path, and whether it can be
followed: it is `Wild` after construction, `Clear` and a load) and `aborted`, which
stands for the end of the program in a null pointer or an assertion. `XmlFiles`
is a program that builds and saves a document and reads it back from a file that
has been damaged at one place.

### StartUp

`ParseArgument` is one turn of the loop over `argv`, with its three states;
`Load`, `logInit` and one `ReadSetting` per setting follow in the order of `main`,
`logInit` and `DTMFMessageManager::init`. The configuration is a document, printed
with `FilePrint` and perhaps cut off, and parsed with `XmlText`.

## 4. Runs

| Run | Shows | States |
|---|---|---|
| `message_queue` | `QueueIsSafe`, `NoLostWakeup`, `MutexIsSound`, `ImplementsMailbox`, `Progress` | 83,564 |
| `thread_pool` | `PoolIsSound`, `QueueStaysUsable`, `StopEmptiesStartFills`, `CallsReturn` | 22,030 |
| `dtmf_server_safety` | `ServerTypeOK`, `BlocksInUse`, `NothingElseLeaks`, `NoticesAreGenuine` | 527,001 |
| `dtmf_server_liveness` | `EndIsNotified`, `BootAndReceive` | 47,925 |
| `dtmf_server_lost_registration` | `InitializationSucceeds` is violated | |
| `thread_safe_hash` | `TableIsSound`, `HeldIsSafe`, `NoBucketLeftLocked`, `BucketsAreOwned`, `IterationsComplete`, `ImplementsRegister` | 988,431 |
| `common_hash` | `TableIsSound`, `WalksAreComplete`, `ImplementsStacks` | 79,410 |
| `connection_pool` | `PoolIsSound`, `ConnectionsAreExclusive`, `NotEmptyHanded`, `GetReturns` | 48,629 |
| `expire_timer` | `TimersAreSound`, `ImplementsDeadlines`, `TimersExpire` | 87,104 |
| `xml_tree` | `TreeIsSound`, `LookupsAgree`, `ImplementsForest`, `OperationsDoAsAsked` | 3,180 |
| `xml_files` | `SavedDocumentsAreReadBack`, `CutFilesAreNoticed`, `FirstInDocumentOrder` | 277,849 |
| `start_up` | `RunningIsConfigured`, `ProperStartRuns` | 22,024 |

The comment above each property says what it is about. The pool
is a user of the queue, and the server of the pool, by the way their actions are
written; so what was checked or proved of the queue for any owner of its threads holds
in the server. The `Implements` properties
are refinements: the abstract specification of the component is a property of
the detailed one.

### Bounds, and why they are enough

* *Queue*: two posters, two workers, three buffers and the null pointer. A lost
  wake-up needs a waiter and a reader that overtakes it, a stolen message two
  readers, an overtaken signal two posters; with three buffers the list outgrows
  the waiters. The safety properties are proved for any numbers (section 6).
* *Pool*: two workers, so that one can be deleted and one left, deletions of none
  to all, additions of one; one poster with two buffers so that a worker that is
  deleted may be asleep, woken or busy, and another may take what it was woken
  for. Reuse of a thread's identity after the join is part of it.
* *Server*: at most two datagrams, each from a set that lies on either side of
  the tests (payload type with and without marker bit, end bit, a datagram cut
  before the flags). Two are enough for a buffer to be used again and for a
  short datagram to follow a long one. One failing `receive`. The safety run has
  two workers and two buffers, for the races between workers; the liveness run
  one of each, so that all five kinds of datagram and reuse of the one buffer fit.
  The safety properties are proved for any number of datagrams, workers and buffers.
* *Thread-safe hash*: two buckets and keys that fall in the same one, so that
  chains get longer than one; ids up to five, so that a counter passes others before it starts
  again; the caller gives 0, which the base destructor takes for none, or 3. Two threads: one iterates, or has
  fetched, while the other adds and removes. Threads, nodes and keys are
  symmetric (the keys have one hash value); the run has safety properties only, and
  all of them are proved for any numbers. The proof also covers what needs a third node,
  a destructor that leaves two elements (`Clear`).
* *Plain hash*: three buckets, so that an iteration steps over an empty one with
  others on both sides, three nodes for a first, a middle and a last one of a
  chain; given ids 0 (none) and 4, near the largest, 5. Safety is proved for any.
* *Connection pool*: two users for one connection, which is replaced after two
  uses (`MAXCOUNT = 1`; the test is `nCount > MAXCOUNT`), and an address to
  replace it with. One query that throws. `Stop` may come at any time. Safety is
  proved for any numbers.
* *Timer*: two keys, so that one is erased before another is reached, times on
  either side of the interval and one that takes two rounds, two timer threads
  (`run` twice), two callers, one update. Safety is proved for any numbers.
* *Tree*: four nodes: a parent with three children, or a tree of two that is
  copied. The operations touch a node, its neighbours and its parent. Texts, and
  elements with an attribute, have one value there (`FewLabels`). All four properties are proved for trees of any size, and any values and attributes.
* *Texts*: documents of up to three nodes and attributes below the document, two
  names, a value with and one without something to encode, and one that is a character
  reference; every single lost
  symbol, every cut, and two stray symbols at every place.
* *Start*: every command line of up to four arguments, and every one of the usage; the
  configuration of
  `conf/dtmf.xml` with every single setting missing, empty, doubled or moved, a
  comment, another element, or the optional setting at every place, or cut off at
  every symbol.

Deadlock is checked but for the runs that really stop: the connection pool (when
the process ends, and when `Stop()` waits for connections whose users wait for
its mutex, section 5), the plain hash (after the destructor) and the files (a
document that is full and an aborted program).

### Fairness

A thread that can run is run (WF). A thread that asks for a mutex again and
again gets it in the end (SF on the actions that acquire one): POSIX promises
no order, but no thread of this program holds a mutex for ever, nor takes it
again without blocking or computing in between. A cancelled thread acts upon
the request if it keeps reaching cancellation points (SF). Nothing is assumed
that the program does not control: no message is posted, no datagram arrives,
no method is called and no process ends by fairness. `performTask` returns.
For the connection pool, the database comes back in the end (SF of
`ReCreateConnection`): the code's loop tries until it does. For the timer only the
timer threads' steps are fair (WF of their disjunction): a caller may never get
the mutex, as the code's loop without a sleep allows.

`Progress` promises that some message is taken, not which: the list is read
last in, first out, and under a load that never stops the first message may
wait for ever. `EndIsNotified` holds because the bound makes the load finite.
`TimersExpire` counts in rounds, not in seconds, for the same loop.

## 5. What the checks found

One run ends in a counterexample (`dtmf_server_lost_registration`): a datagram
that arrives while main registers the queue may lead to two framework objects; the
registration is lost with the first, and the server drops everything it
receives while it reports success.

Where the code does something other than a comment says, and the modules follow
the code:

* Emergency messages are read last, not first (`sdfmessagequeue.cpp:73-82,107`).
* `deleteWorker` ends a worker in the middle of `performTask`, although
  `sdfthreadpool.h:125-127` promises otherwise; the message is lost.
* `start()` after `stop()` starts nothing, as `numberOfWorkers` is 0 by then
  (`sdfthreadpool.cpp:112-113` says that it resumes).
* `add` with a given id may set the counter back to ids that are in use
  (`sdfhashtable.cpp:1277`), which its comment (1214-1215) says it prevents. With
  `LongLived = TRUE` TLC finds an element with the id that is generated next.
* The destructor of the plain hash "deletes all the elements" (44-45), but takes
  the id 0 for none (63-70): with `AnyGivenId = TRUE` TLC finds an element, added
  with the id 0 under a key of another bucket, that it leaves.
* The header says that iterating "when elements are removed from the hash gives
  unpredictable results" (`sdfhashtable.h:374-375`, of the plain table). The code is
  predictable: as long as the element under the iterator stays, which `next` reads,
  the caller may remove others, and the iteration comes to all that are left, once
  (`WalksAreComplete`). Removing the element under the iterator is what the warning is
  needed for, and what no iteration of the model does.
* The usage has `-t`, and the directory for the log after it, as optional
  (`Dtmfmain.cpp:212,229-230`). Without a directory `logInit` takes that of
  `DTMFServer_ROOT` and deletes the string that `getenv` returned (43), which is
  undefined if the variable is set, and modelled as the end of the program. So
  `ProperStartRuns` is about command lines with a directory, or an environment without
  the variable; without that clause TLC finds `-c conf` to end the server.
* The help text says that the server will not start if its file cannot be read
  (`Dtmfmain.cpp:219-221`); main does not look at the result of `ParseXmlFile`
  (131). A file that is cut off after `RTPPROXY_ip` starts a server with port 0,
  and one cut within a number a server with a shorter number. So
  `RunningIsConfigured` gives the values for whole files only.

Seen while modelling, with no line of the repository that denies it: `Stop()` of
the connection pool holds the mutex that `ReleaseConnection` needs while it
waits for the connection to be released, and wakes nobody who sleeps on the
semaphore; `Get_CDR_RateInfo` releases its connection twice when the query
throws (the exception in `ConnectionsAreExclusive`); `release` of the hash table
by key decrements the newest element of that key, so that `add` of a key that is
already there (the table's `usage = "key"` leaves it out) mixes up reference
counts; `initIterator` raises
the count of the first element without the bucket's mutex (1640-1643), which is why
`BucketsAreOwned` is about chains only; `enableRecursiveFetch` has no effect, so that a second `xFetch` by the same
thread blocks it, and so does `nextInChain` with an exclusive iterator (1798); the
timer's sleep is commented out (40), its callbacks run under its mutex (25), and
its destructor destroys the mutex of a thread that never ends (59); a
retransmitted end packet (the sender repeats it three times) is notified each
time. In the XML code: a declaration that is cut off after a blank fails an
assertion (`tinyxmlparser.cpp:543`), a comment or declaration that is cut off sets no
error, an ampersand that begins no entity vanishes (527), the values of a
declaration are printed unencoded (`tinyxml.cpp:1424`); `ParseXmlStr` adds to the
document that is there (`XML.cpp:54`), the cursor is followed unset, null and
dangling (200), and an element without text gives a null pointer to a string
(176), so that an empty setting ends the program. A second `-c`
deletes an argument of main (`Dtmfmain.cpp:381`). A value with a hexadecimal character
reference is printed as it is (`tinyxml.cpp:60-79`, on purpose) and so read back as
the character: `&#x61;` is saved and `a` is loaded, whether a program gave the one or
the other, and `SavedDocumentsAreReadBack` says so. The thread-safe table's
destructor removes what it can reach by itself only if there is a function that frees
elements (877); what is left goes to the base class, which passes over an element
with the id 0 that its key does not lead to, and so leaks it (`Unreachable`).

## 6. Proofs

Checked by TLAPS for any finite sets of posters and workers and any set of
messages, under `ThreadsAssumption` (posters and workers are disjoint finite
sets, `NoThread` is none of them) and `MessagesAssumption` (`Emergency` is a set
of messages), which TLC evaluates in every run on the queue.

| Theorem (`ThreadPoolProofs`, the queue) | States |
|---|---|
| `Invariance` | `Safety => []IInv` |
| `TypeCorrect` | `TypeOK` is an invariant |
| `QueueSafe` (with `PopsAreSafe`, `NullIsNoTask`, `OwnershipIsExclusive`) | `QueueIsSafe` is an invariant |
| `MutexSound` | `MutexIsSound` is an invariant |
| `WakeupsAreKept` | `NoLostWakeup` is an invariant |
| `Implementation` | the queue implements the mailbox |

`QueueIsSafe` is not inductive. What makes it so is that a
thread owns the mutex from where it tests the list to where it changes it
(`LockInv`), that a thread outside of `post`, `read` and `performTask` has no
message (`EmptyHands`), and that nobody inserted a poster's message while the
poster held the lock (`InsertFresh`). Their conjunction is `IInv`; there is one
lemma for the steps of a poster, one for those of a worker, one for the owner of
the threads.

`NoLostWakeup` is proved on top of `IInv`, which holds before and after each
step: a step adds to the queue only with a poster that becomes `Attending`, takes
a thread out of `Attending` only with a message (or when no worker sleeps, or
when a poster's signal turns a sleeping worker into a woken one), and makes a
worker sleep only on an empty queue. The lemmas `PostWakes`, `WorkerWakes` and
`PoolWakes` count this with the cardinalities of `FiniteSetTheorems`.

`Implementation` maps the list to the set of its messages; `ListLemmas` has what
insertion at either end and removal at the back do to that set.

| Theorem (`ThreadPoolProofs`, the pool) | States |
|---|---|
| `QueueSurvives` (with the lemma `QueueUsed`) | `QueueStaysUsable` is an invariant: of the queue of a pool, `MutexIsSound` and `NoLostWakeup` hold and no thread that ended has the mutex |
| `PoolInvariance` | `PoolSafety => []PInv` |
| `PoolTypeCorrect` | `PoolTypeOK` is an invariant |
| `PoolSound` (with `NoThreadIsLost`, `CountSuffices`) | `PoolIsSound` is an invariant |
| `StopsAndStarts` (with `StopIsComplete`, `StartIsComplete`) | `StopEmptiesStartFills` |

They add `SizesAssumption` (the number of threads to start with is at most the
number of thread identities; the arguments are natural numbers). `NoSurplus`, the
second half of `PoolIsSound`, speaks of the time between two calls. During a call,
`PInv` says how the list, the count and the loop counter fit together: `start` has
still to create what the list lacks (`StartCount`); `addWorker` counts each thread
it creates (`AddCount`); `deleteWorker` has still to delete at least what its new
count will not cover, the thread it is joining included (`DeleteCount`). The last
is stated for a counter above zero only: one that was zero from the start never
stops the loop, which then ends with the list. `stop` deletes what the count says
(`StopCount`), so that nothing is left.

| Theorem (`DtmfServerProofs`) | States |
|---|---|
| `ServerInvariance` | `ServerSafety => [](IInv /\ SInv)` |
| `BlocksAreSafe` | `BlocksInUse` is an invariant |
| `ServerKeepsWakeups` | `NoLostWakeup` holds of the server's queue |
| `DatagramInvariance` | `ServerSafety => [](IInv /\ SInv /\ BootInv /\ StackInv /\ DInv)` |
| `ServerTypeCorrect` | `ServerTypeOK` is an invariant |
| `NothingIsLost` | `NothingElseLeaks` is an invariant |
| `NoticesAreRight` | `NoticesAreGenuine` is an invariant |

They add `ServerAssumption` (one poster, the receiver; main is no thread of the
queue; no emergencies, and null is no message). `SInv` follows the blocks
of a message from hand to hand: the receiver's (`CurWhole`), the poster's
(`PostedWhole`), the list (`QueuedWhole`), the worker's before `performTask`
(`TakenWhole`) and in it (`BlocksInUse`). It needs the queue's `SingleOwner`, so
that one worker's frees are none of another's business; the queue's invariant
needs in turn that the receiver posts only messages that nobody else has
(`CurFresh`). They are therefore one induction: `ServerUses` and `NextIInv` give
`IInv'`, `NextSInv` gives `SInv'`, each from both.

The other two invariants and the types are three more inductions on top of that one.
`BootInv`: main and the receiver create one framework object each at most, and so
two identities suffice however long the server runs. `StackInv`: a worker creates a
handler only if it saw none on the stack, so that there is one a worker at most. `DInv`
follows a datagram from arrival to notice, by its number. The one in the receiver's
hands was neither posted nor dropped (`CurNew`), what the queue or a thread has was
posted (`HeldPosted`), no two messages carry the same one (`HeldDiffer`), of those on
their way the proxy was not told yet (`NotYetSent`), and a worker sends only what ends
an event (`ToSend`). So every notice is that of a posted datagram that ends an event
(`SentGenuine`), and of each datagram there is one (`SentOnce`). For the leaks: blocks
are allocated only for messages that somebody has (`LiveHeld`), and a datagram is
posted, dropped or in the receiver's hands (`NoneLost`), never posted and dropped
(`Apart`).

| Theorem (`ExpireTimerProofs`) | States |
|---|---|
| `TimersSound` | `TimersAreSound` is an invariant, for any number of timer threads, callers, elements and keys |
| `DeadlinesImplemented` | the timer implements `Deadlines` |

They rest on `TimerAssumption`. `TimersAreSound` is inductive as it stands: its
parts `OneSweeper` (the mutex is the sweeping thread's, whose iterator stands on an
element) and `ElementsOwned` (an element in the table is under one key and is no
caller's) need each other, and the clause that a call in progress has a key of the
table is there for them. There is one lemma per action. For the refinement,
`left` is the time of the element under each key and `done` the keys that the
iterator has passed; `InRound` says which these are, `TimeoutExpires` and
`CountDownTicks` that the two steps of the timer thread are steps of `Deadlines`, and
`CallersImplement` the same of the callers, whose steps under the mutex find
`done` empty.

| Theorem (`ConnectionPoolProofs`) | States |
|---|---|
| `Invariance` | `Safety => []IInv` |
| `SemaphoreSound` | `PoolIsSound` is an invariant |
| `ConnectionsExclusive` | `ConnectionsAreExclusive` is an invariant |
| `WokenAreServed` | `NotEmptyHanded`: a thread that the semaphore let through finds a connection |

They rest on `PoolAssumption` and hold for any number of users, connections,
uses before a replacement and throwing queries. The semaphore is right because its
value, the releases that have put but not yet posted and the threads that it let
through but that have not taken yet add up to the queue (`SemaphoreCounts`), while
the pool is not being stopped. This needs to know of each thread where it can be
(`WhereThreadsAre`, `WhereMainIs`) and how often it has still to put
(`WhatThreadsHave`), and it does not say whose the connections are: that is
`SingleUse`, which is inductive beside it. `LiveAreCounted` ties the connections that
exist to `m_num`, those that are being replaced and those that `Stop` has ended
included. `Moves` counts a thread that goes from one place to another, once for all
actions.

| Theorem (`CommonHashProofs`) | States |
|---|---|
| `Invariance` | `~ AnyGivenId => (Spec => []IInv)` |
| `TableSound` | `~ AnyGivenId => (Spec => []TableIsSound)` |
| `WalksComplete` | `~ AnyGivenId => (Spec => []WalksAreComplete)` |
| `StacksImplemented` | `~ AnyGivenId => (Spec => ImplementsStacks)` |

They rest on `HashAssumption` and hold for any nodes, keys, hash function, number of
buckets and largest id. Their hypothesis is the one of the run: the caller gives
the id 0 to keys of the first bucket only; section 5 says what happens otherwise, when
the first two properties are false. `IInv` has three parts. The table (`TInv`): a node is in one
place of one chain (`OnePlace`), which its references lead to (`Placed`), and the count
is right (`Counted`); that a generated id leads back to its bucket, also
when the counter starts again, is `GeneratedIds`. The iteration (`Walking`): nothing
that is still to come (`ToCome`) has been visited, and what was to be visited and is
not to come was visited once, so that at the end all were. The destructor
(`Destroying`): its iterator is on the first element that is left, whatever bucket that
is in, and those freed are those that are gone. What comes after what in a chain is
`Precedes`; `ListLemmas` says how it changes when a node is added at either end or
taken out (`PushedOrder`, `TakeOut`), that it is an order (`OrderIsStrict`), and where
its first element (`FirstInOrder`) and its next one are (`AfterNext`). `AdditionIs`,
`UnlinkIs` and `Advance` reduce all the methods to three changes. For
`StacksImplemented`, the list of a reference is what `Selected` takes from its chain.
`Selected` is a recursive function; what it gives when a node is added at either end or
taken out is proved step by step along the sequence (`SelectionsAgree`,
`SelectedBefore`, `SelectedWithout`). So an addition puts the node in front of the lists
of its references or behind them (`AdditionStacks`), a removal takes what was found out
of all lists (`RemovalStacks`), and what is found is the first of its list (`StackIs`).
The destructor may look an element up by its key in a table that is used by id; it
takes the first of the list of the id all the same, because the element is the head of a
chain to which both lead (`DestroyElementIsStacks`; `Placed` says where the id leads
in such a table, also when it is 0).

| Theorem (`HashIteratorsProofs`) | States |
|---|---|
| `Invariance` | `~ LongLived => (IterSpec => []IInv)` |
| `TableSound` | `~ LongLived => (IterSpec => []TableIsSound)` |
| `HeldSafe` | `~ LongLived => (IterSpec => []HeldIsSafe)` |
| `LocksAreGivenBack` | `~ LongLived => (IterSpec => []NoBucketLeftLocked)` |
| `OwnersOnly` | `~ LongLived => (IterSpec => BucketsAreOwned)` |
| `IteratesOnceOverAll` | `~ LongLived => (IterSpec => IterationsComplete)` |
| `Refinement` | `~ LongLived => (IterSpec => ImplementsRegister)` |

They are about the thread-safe table with its methods, iterators and destructor, rest on
`HashAssumption`, and hold for any threads, nodes, keys, hash function, number of
buckets and largest id. Their hypothesis is the run's: ids start again only in a bucket
that is empty. With `LongLived = TRUE` two elements may have one id (section 5), so that a
release decrements the count of the wrong one and the properties are false. `IInv` says
of each thread where its method or iterator can be and what that means for the table:

* *Locks.* A bucket is locked by the thread that `Has` it, whose method works on it or
  whose exclusive iterator is in it, and by nobody else (`LocksFit`). All that a thread
  knows of a chain, it knows of a bucket that it has.
* *References.* A thread has fetched the first element of its chain that its reference
  matches (`HeldFits`), so that `release` finds the element that was fetched:
  additions come behind it, or have another key or id. `RefsAccounted` needs this. An
  element whose count is one has no holder, so that `remove` takes away only what
  nobody has (`TakesIs`, `OneReference`).
* *Ids.* The counter of a bucket is beyond the ids in it, and has room for all the
  threads that wait to add there (`IdsFit`); a given id is new when its thread gets the
  bucket, and no other thread adds there before. A new id is therefore unique
  (`NewIdIsNew`).
* *Count.* `CountAccounted` is inductive with `ToCountIsThere`: a thread that has added
  and not counted yet keeps its chain from being empty.
* *Iterators.* `todo` is what was there at the start and lies ahead of the iterator
  (`TodoFits`, `Ahead`); a step goes to the next element ahead (`Onward`, `IntoBucket`),
  what is removed is not in `kept`, and at the end nothing is ahead (`AtEnd`).
* *Callers.* While a head is read without a lock nobody removes, and while the
  destructor runs nobody does anything (`Alone`).

A method changes the table in three ways: it adds a node (`LinkIs`), takes one out
(`TakesIs`), or leaves the chains as they are (`SameIs`); `MethodKinds` says that this
is all, and the parts of `IInv` are proved once for each way. The steps of the
iterators are proved one by one. For `Refinement`, `NobodyElse` says that an element in a
bucket that a thread has locked is nobody else's exclusively; `MethodRefines` and
`IterStepRefines` then map each step to an operation of the register or a stutter. This
proof is why the register has `Clear`: the end of the destructor removes all that is
left, which no removal of one element implements.

| Theorem (`XmlTreeProofs`) | States |
|---|---|
| `Invariance` | `Spec => []IInv` |
| `TreeSound` | `TreeIsSound` is an invariant |
| `Lookups` | `LookupsAgree` is an invariant |
| `ForestImplemented` | the heap of nodes implements `OrderedForest` |
| `AsAsked` | `OperationsDoAsAsked`: each operation makes its own change, at the place asked for |

They rest on `TreeAssumption` (finitely many nodes, `Null` is none of them, and a bound
on the number of attributes), and hold for trees of any size and shape and any values.
`TreeIsSound` says what is true of the links with functions that follow them; its proof
turns that around. `Forest(h, K, c)` says of the heap `h` that each node `p` has the
list of children `K[p]`, a sequence that the links of `p` and of its children spell in
both directions (`IsList`), that a node is in the list of its parent only, that what is
freed is blank and in no list, and that whoever goes from parent to parent leaves every
set of nodes (`NoCycle`), so that no node is below itself. `c` is the node that has just been taken out
of its list and still says whose it was, for the time between the unlinking and the
delete of `RemoveChild`. `IInv` is `Forest` of the lists that `ListOf` reads off the
links, with no attribute twice and no document in a list (`Content`).

* *One change at a time.* An operation puts a node into one list, exchanges one, takes
  one out, empties one, frees what is below a node, or copies it. `PutForest`,
  `SwapForest`, `DropForest` and their like say that `Forest` holds afterwards with that
  change of `K`, from the few links that `LinkedBetweenIs` and `JoinedIs` say are
  changed. `ReplaceChild` and the inserting operations are two or three of these steps in
  a row, so that one lemma per operation puts them together.
* *What the destructor reaches.* `Subtree` is computed in as many rounds as there are
  nodes. `SubtreeIs` says that it is the least set with the node and the children of
  its members: a set that grows in every round has all nodes in the end. `TreeIs`
  identifies it with the `Tree` of `OrderedForest`, which is defined that way.
* *The copy.* `CloneForest`: the fresh nodes have the lists of their originals, renamed,
  and nothing above them, so that they are apart from the tree that they are linked
  into.
* *Lookups.* `Along` has a value only where the links end. What it finds from each place
  of a list, by either link, follows from the last place backwards (`FirstOfIs`,
  `LastOfIs`); for `GetDocument` along the parents it follows from `NoCycle`. The
  element with number `i` is found by counting the elements before it.
* *Refinement.* `Seen(h, K)` is what `OrderedForest` sees of a heap. Each lemma that
  keeps the invariant also names the one change of the forest that the operation stands
  for (`CopiedBefore` for `InsertBeforeChild`), which gives `AsAsked`; `EveryStep` has
  for every operation that this is an `F!Step`.

Where these proofs need induction over the places of a list, or over rounds, they use
that a set of natural numbers has a least one (`LeastNatural`) in place of the library's
induction theorems.

Only model-checked, within the bounds above:

* the liveness properties (`Progress`, `CallsReturn`, `EndIsNotified`,
  `BootAndReceive`, `GetReturns`, `TimersExpire`), which are beyond the installed
  provers;
* what the recursive functions of `XmlText` and `CXML` compute (`XmlFiles`,
  `StartUp`), which cannot be proved by them either;
* `dtmf_server_lost_registration`, which is a counterexample and needs no proof.

## 7. Abstractions

Messages, keys, connections and nodes are addresses: model values that may be
used again once nothing refers to them. Logging, statistics, and the texts of the
notification are left out; a notification is its fields. Memory is not bounded
(`new` succeeds) except by the sets named above. Sockets deliver any datagram
at any time, and `sendto` succeeds or fails at will. A word of an XML text is one
symbol, which no damage splits, and so is the rest of a character reference: one
without its `;`, which `GetEntity` refuses (455-459), and decimal ones are left out.
Of an error only that there is one is kept, of white space only that it is there. The
functions that the user gives the timer do not call it, and free the element.
