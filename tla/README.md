# A TLA+ model of Ice

Ice (ZeroC, version 3.4) is an object-oriented RPC run time with a family of
services on top of it. The C++ implementation under `src/cpp` is the reference of
this project; `src/java` and `src/cs` reimplement the run time with the same
design, `src/py`, `src/php` and `src/rb` wrap it.

The project models the parts of it where the difficulty is in the order of
events (threads, callbacks, messages, failures): so far, of the run time, how a
connection is found, established and shared, the ends of a connection with the
retry rule, and the thread pool; of IceStorm, the subscriber queues and the election
and replication of the database. `PROJECT.json` lists, machine
readable, the components, the runs, the source lines of every definition, the
hazards and the theorems.

## 1. Inventory

| Component | State | Operations | What is hard |
|---|---|---|---|
| **Connections** (`Ice/ConnectionI`) | `_state`, `_exception`, send queue, request maps, `_dispatchCount` | start/validate, activate, hold, send, message (read/write), dispatch, close, destroy, monitor, finish | upcalls without the mutex, closure racing with calls in both directions, a stream that breaks anywhere |
| **Invocations** (`Ice/Outgoing`, `OutgoingAsync`, `ProxyFactory`) | state of a call, `_sent`, retry count | invoke, sent, finished, retry | at-most-once: may a failed call be sent again? |
| **Thread pool, selector** (`Ice/ThreadPool`, `Selector`) | handlers, in-use and I/O counts, leader | run, promote, register, finish | leader/follower hand-over, growth, shrinking |
| **Connection establishment** (`ConnectionFactory`, `ConnectRequestHandler`, `RetryQueue`) | pending connects, queued requests | create, getConnection, sendRequest, setConnection, flush | one connect for many callers, requests queued while the queue is flushed |
| **Object adapters** (`ObjectAdapterI`, `ServantManager`) | state, direct count, factories | activate, hold, deactivate, destroy | waits on each other during destruction |
| **Communicator, instance, plug-ins** | the parts of a run time | initialize, destroy | order of destruction |
| **Locators, routers, references** | endpoint caches | lookups, clear | caches stale when used, shared requests |
| **Garbage collector** (`Ice/GC`) | reference counts | collect | graph algorithm |
| **Marshalling, transports, endpoints** | streams, sockets | read, write | system calls, encoding |
| **IceUtil** | mutexes, conditions, timer | lock, wait, schedule | recursive read/write mutex with upgrade |
| **IceStorm subscribers** (`IceStorm/Subscriber`) | state, queue, `_outstanding`, retry | queue, flush, response, sent, error, doFlush, reap, shutdown | publishers, callbacks and the flusher thread on one queue |
| **IceStorm topics** (`TopicI`, `TopicManagerI`, `Service`) | topics, subscribers, links in the database with its LLU | create, subscribe, link, publish, reap, update | two views (memory and database), several locks |
| **IceStorm election, replication** (`NodeI`, `Observers`) | state, group, coordinator, members, observers, LLU | check, merge, invitation, accept, ready, recovery, updates | calls outside of the lock, lost calls, crashes, split groups |
| **Freeze evictors** | cache, stream list, element states | add, remove, locate, save | saving thread against servant locks |
| **IceGrid** (allocation; registry and replicas; node and servers; deployment) | sessions, allocatables, server states, descriptors | allocate, release, update, activate... | waiting requests, master/slave synchronization |
| **Glacier2** | sessions, request queues, routing table | createSession, expire, forward | expiry against use |
| IceBox, IcePatch2, IceSSL, Slice compilers | | | start-up code, I/O, wrappers and text processing |

How the parts interact. A proxy asks a request handler for a connection; the handler
asks the outgoing factory, which shares connections between requests and lets one
request at a time connect to an endpoint, and queues what is invoked until the factory
answers. The connection's mutex is held while a request is queued and
written, and the thread pool calls `message()` when the socket is ready. Requests
are dispatched and replies delivered to callbacks as upcalls without the mutex.
An IceStorm topic calls `queue()` of each subscriber; its events leave as AMI calls
whose callbacks come back to the subscriber. A replicated topic asks the
`NodeI` before an update (`updateMaster`, `startUpdate`), commits it to its
database and passes it to `Observers`, which calls the slaves; the election decides
which node is the master, and from which database the group starts.

What makes each part correct is given below for what is modelled, and in
section 6 for what is planned.

## 2. Modules

| Module | Models | Checked by |
|---|---|---|
| `IceInvocation` | abstract specification of a call over one connection: at-most-once | as a property of `IceConnection` |
| `IceConnection` | both ends of a connection and the calls over it | `MCIceConnection` |
| `IceConnectionMessages_proofs` | lemmas about its messages, queues and sets of calls | tlapm |
| `IceConnection_proofs` | its inductive invariant, seven theorems and the refinement of `IceInvocation` | tlapm |
| `IceStormSubscriber` | one subscriber of a topic | `MCIceStormSubscriber` |
| `IceStormSubscriber_proofs` | its inductive invariant and nine theorems | tlapm |
| `IceThreadPool` | the leader/follower thread pool over an epoll selector | `MCIceThreadPool` |
| `IceThreadPool_proofs` | its inductive invariant and four theorems | tlapm |
| `IceConnectRequestHandler` | the request handlers of a proxy while its connection is established | `MCIceConnectRequestHandler` |
| `IceConnectRequestHandler_proofs` | its inductive invariant and three theorems | tlapm |
| `IceConnectionFactory` | the outgoing connection factory | `MCIceConnectionFactory` |
| `IceConnectionFactory_proofs` | its inductive invariant and three theorems | tlapm |
| `IceStormElection` | the replicas of IceStorm: election, replication, crashes | `MCIceStormElection` |
| `IceStormElection_proofs` | its inductive invariant and four theorems | tlapm |
| `IceStormSurvival_proofs` | the theorem about acknowledged updates, with an invariant of its own | tlapm |

Definitions whose comment begins with "Mutant" are plausible bugs: with one of
them in the place of the definition that follows, the property named in
`PROJECT.json` fails. They are not part of the model.

### IceStormSubscriber

Every method of `Subscriber` runs under `_lock` and is one action; `doFlush()` of the
batch flusher releases the lock in the middle and is two (`DoFlush`, then `BatchFlush`
or `BatchThrew`). `flush()`, which `queue()`, `response()` and `sent()` call under
their lock, is part of their step: `Flush` has one disjunct for each class
(twoway, oneway, batch, link). Of the record that a subscriber is created from
the model keeps its kind, the maximum of outstanding calls, the retry count and
the cost of a link; `RecordsAssumption` says what `Subscriber::create` guarantees.
Events are numbers, in the order in which `queue()` accepts them. The monotonic
clock is one Boolean: whether the discard interval is over. `finders`,
`request` and the actions `Reap`, `ReapDone`, `ReapFailed` and `Update` are what `TopicImpl`
does with a subscriber in error. `published`, `delivered` and `lost` are history.

Left out: the publisher servants (they call `TopicImpl::publish`), events that a
link refuses because they were forwarded, and the
`catch` branches of the flush functions, which `begin_ice_invoke` cannot reach
before the communicator is destroyed.

### IceConnection

Two ends, "A" that connected and "B" that accepted. Each method under the mutex
is one step; upcalls are counted in `dispatchCount` and end in a step of their
own; `finish()` resolves the calls and then takes the mutex, in two steps. Messages are
written and read as a whole. One event of the selector may report reading and
writing (epoll, poll); the constant `ReadAndWrite` says so, and three
actions are the ways in which one event can then end
between the two: the write fails before the read is parsed
(`WriteFailedThenRead`), or the read blocks or fails before the write is
marked (`WriteThenReadBlocks`, `WriteThenReadFails`; `written` is the state that
remains). `Fault` is every failure of the network and every timeout.
Closing a socket whose input has not been read may destroy what
the peer has not read either (`FinishDone`).

`Finished` and `Retryable` are the rule by which `finish()`, `Outgoing` and
`OutgoingAsync` decide what a call ends with: "retry" if it was not sent or if
the peer closed gracefully, "fatal" otherwise. Whether the proxy then really retries (the
count and the intervals of `checkRetryAfterException`) does not matter to
the property, which says that it may.

Left out: batch requests, datagrams, compression, `setAdapter`, the IOCP
variant. The sent callbacks and an asynchronous reply of one event are two
upcalls here, one in the code.

### IceThreadPool

A section of `run()` under the pool's mutex is one step; `message()` of a handler is one
step with the section that follows it, be it `ioCompleted()` or the return to `run()`.
`pc` says where each thread is, `current` which handler it serves, `batch` what `select()`
returned to it before it has the mutex again. `NextHandler` is the end of the section in
`run()`: serve the next handler, give up the leadership, or select. `Notify` wakes any one
of the followers that wait. Names of threads are used again once
a thread has been joined, which a work item does (`Unjoined`). The work queue is a handler of
the pool, `WorkQueue`; the byte in its pipe stands for all items (`pipe`).
Handlers read a message or nothing, make an upcall or not, and may finish, be held
or activated at any time. `Many` is `_sizeMax > 1`: with one thread the code does no
bookkeeping at all.

Left out: IOCP and the other selectors, a thread that cannot be created, writing, thread
hooks and priorities.

### IceConnectRequestHandler

The callers of one proxy, each with a script of asynchronous, synchronous and batch requests, the
handlers that the proxy makes, and for each of them the thread that brings it the factory's answer
(`Establish`). `delegate` is the proxy's `_delegate`: <<h, "connect">> stands for the delegate
object with handler h, <<h, "connection">> for the one with the `ConnectionRequestHandler` that replaces it.
`via` says through which of them each request was made, `requests` is the queue of a
handler, `wire` what the connections have been given. Sections under a handler's mutex are steps, and so are the parts of
`flushRequests()` that run without it: `SendQueued` sends one request, `UpdateProxy` replaces
the handler in the proxy (`__setRequestHandler`, if the proxy still has it). A connection may be lost at any time
(`broken`); then a thread of the client thread pool fails what is left
(`FlushRequestsWithException`). `NotYet`, `Throws` and `MustWait` are the three ways in which
`initialized()` may end.

Every exception of a request goes through `__handleException` or one of its variants, which reset
`_delegate` if it still is the delegate that the request was made through (`Reset`): the exception of
an aborted batch request, of a connection, of the establishment, or of a reply that comes after the
request was sent (`RequestFails`). The next `__getDelegate` makes another handler, while the first may
still have a queue; `dropped` has the handlers to which that has happened. The mutex of the proxy is held from there to the end of
`connect()` (`ProxyFree`).

Left out: compression and the response flag, sent callbacks, several proxies that share one
handler (`addedProxy` of a second one), and whether a failed request is retried
(`IceConnection` has the rule; a retry is one more call of the script).

### IceConnectionFactory

Requests are `ConnectCallback`s (`Async`) and threads in `create()` (`Sync`). Each may use a set of
connectors, and tries those it has not tried yet (`iter`) in any order, which covers the shuffled
and the given one. `at` says where a request is in its protocol, `Connecting` where it is
registered in `_pending`, `Counted` where `_pendingConnectCount` has it. What a
thread does for the callbacks of `finishGetConnection()` after it has released the mutex is
done by steps of these callbacks, in any order. A connection is as much of `ConnectionI` as the
factory sees: it is validated, lost, closed, finished and reaped; `Ids` are reused.
`Destroyer` is the thread in `Instance::destroy()`.

Left out: the incoming factory, `setRouterInfo`, `removeAdapter`, the flushing of batch requests,
overrides and compression (a connection fits every endpoint of its connector).

### IceStormElection

One section under a node's lock is one step. A twoway call between nodes is one
step with what it does at the other node, and may fail before or after it; the oneway
calls `invitation` and `accept` are messages that may come late, or never. Timers
may fire at any time. `Observers::check`, `init` and `wait` drop slaves that do not answer, or
whose answer is lost.

A replica has its topics twice. `data` is the database, a set of updates with its log update stamp
(LLU). `topics` is what `_topics` holds of it and `getContent()` gives: what the replica serves, and all that
`sync()` and `initMaster()` transfer. They differ in two ways. A topic is committed
to the database with its LLU first, then replicated, and installed only if a majority
has answered (`UpdateCommit`, `UpdateSend`, `Replicate`, `UpdateFinish`; `creations` are the updates
that create a topic); if `Observers::wait` throws, it stays in the database only. And a subscriber
in error is left out by `getContent()` (`SubscriberFails`, `InError`). `observerInit()` replaces the
database by the content, but keeps the errors of subscribers it has already (`Initialized`).
A crash loses everything but the database; a restart installs what is in it and writes
the LLU <<0, 0>> to it, as the constructor of `TopicManagerImpl` does.

An update has five steps. `CheckObservers` is `Observers::check()`, which runs before the node is locked;
`UpdateStart` is the section of `startUpdate()` or `updateMaster()` that uses its result, perhaps
on a node that has become a slave, or the master of another group, meanwhile.
Then come the commit, the replication to each observer, and `wait()`'s count of the observers that are left. `call` is
where the client's call is between the first three.

The code allows seven things that replication does not survive. They are part
of the model, and `lapses` records which have happened:

- "reused": a generation is used again (`mergeContinue()` stamps with its members' generation);
- "crossed": a node is initialised by another coordinator than the one it waits for;
- "overtaken": an update overtakes an earlier one;
- "reset": a restart resets the LLU;
- "deserted": the database of a node changes while a coordinator that it has left
  still counts on the LLU that it was told when the node accepted;
- "mistaken": `invitation()` goes on in its second section with the group of the invitation, although
  the node has formed one of its own meanwhile;
- "overruled": the database of a node is updated in an older generation than one whose coordinator
  has counted on the LLU of the node. In a consensus protocol a node that tells its LLU
  also promises to take no such update; here it may recover, accept a late invitation
  of a group that lags behind, and replicate again.

Most properties hold without a lapse and say so in their
statement; `ElectionLost` and `ElectionStamp` show what a lapse leads to. The last three lapses
came from attempts to prove the properties: with the groups of the run they hold
without them, with more they do not. For "overruled" a behaviour of three nodes, written
out from where the proof failed and checked step by step with TLC, loses an acknowledged update in 67 steps, far
beyond the bounds of a run. `acked` (the updates whose clients were told so, with their LLUs), `stamped` (which
node has been stamped by which coordinator with which generation), `counted` (the newest generation whose
coordinator has counted on each node's LLU), `errored`, `shared` (what the group of a node was
given of its database) and `lapses` are history: no guard depends on them.

Left out: `destroy()`, cached reads, `recovery(generation)` on behalf of a client
of a slave, removal of topics and subscribers, more than one client's call at a node between
`check()` and the commit, calls of a crashed node that are still on their way to be
executed.

## 3. Runs

All runs use `CHECK_DEADLOCK FALSE`: a bounded number of events, calls or updates
comes to an end, and the system is then quiet.

| Run | Result | Question and bounds |
|---|---|---|
| `SubscriberQueue` | passes, 20 thousand states | Eight kinds of subscriber (ordered and unordered twoways with and without retries, oneway, batch, link with and without cost), 4 events in bursts of up to 2, two publishers between `queue()` and `reap()`. Four events are enough for the queue to be longer than the maximum of 2 or 3 outstanding calls, which is 5 in the code. |
| `SubscriberDrain` | violation | A link with a cost, 3 events: `shutdown()` may wait for ever. |
| `ConnectionSafety` | passes, 0.6 million states | A synchronous twoway and an AMI oneway from A, an AMI twoway from B; a graceful environment with `close(false)` and destruction of A, and a faulty one with forced closure of A; destruction of B, hold and ACM in both; a transport that takes 2 messages, so that queues of several messages build up. |
| `ConnectionLive` | passes, 35 thousand states | The two twoways, close, destroy, `waitUntilFinished` on both ends, no faults. |
| `ConnectionTorn` | violation | The two twoways, faults, a selector that reports both: at-most-once fails. |
| `ThreadPool` | passes, 0.1 million states | Six pools (one thread; two that both do I/O; one or two that grow to two or three and shrink; with and without Serialize and idle times), two handlers with a message each and the work queue, shutdown and destruction. Three threads are the leader, one in I/O or an upcall, and one that waits. |
| `RequestHandler` | passes, 0.1 million states | Three callers with three requests of all kinds, two handlers; the connection is established, fails, or is lost at any time, requests fail before or after they are sent. Two handlers are enough for one to be dropped with a queue while the other gets the connection. Of two owners of the batch stream one may abort while the other's request is queued and its next one goes through the second handler. |
| `RequestHandlerStream` | violation | The same: the batch stream is not given back. |
| `ConnectionFactory` | passes, 0.5 million states | Two callbacks and a thread: one wants both of two connectors, the others one each, so a callback may wait for two others at once, or they for it. Connections to one connector may be lost once established. Five names for connections are enough for every request to try all. |
| `Election` | passes, 0.7 million states | Three nodes that have formed a group, two group names (one more merge), one update, one failed call or subscriber, one crash. States after a lapse are not explored (`NoLapse`), for nothing is claimed of them but types, which are proved. It includes a topic whose replication fails after the commit and the election that follows, after which master and slave share an LLU with different databases. It starts in the state that the first election reaches from `Init` when no call is lost, because the way there does not interest again. |
| `ElectionLost` | violation | The same: an acknowledged update is missing in a master. |
| `ElectionStamp` | violation | Two more merges, no crash: the new stamp is not newer than the old one. |

Each passing property is tied to a mutant of the code that breaks it
(`PROJECT.json`, "mutants").

What the properties say:

- *Subscriber*: the counter is exact (`OutstandingCounted`), no lost wakeup
  (`NoStuckEvents`), every event is in one place (`EventsConserved`), reaped subscribers are reported
  (`ReapedIsReported`), `shutdown()` leaves nothing behind (`ShutdownDrains`) and
  returns (`ShutdownReturnsUnlessCostly`), "ordered" is (`OrderedDelivery`), and the
  asserts hold but one (`OnlyRetryAssertFails`).
- *Connection*: a close message is the last (`CloseIsLast`) and makes repeating
  safe (`CloseGuaranteesRepeat`); upcalls are counted (`DispatchCounted`),
  the reaper gets a connection once (`ReapedOnce`), replies are expected
  (`RepliesExpected`), graceful closure loses no call (`GracefulLosesNothing`), the
  connection implements `IceInvocation` but for torn requests
  (`AtMostOnceUnlessTorn`, a refinement); closing finishes, calls end, waiting threads return.
- *Thread pool*: one leader or a promotion on its way, and exact counters
  (`Consistent`); no call of a handler after `finished()` (`FinishedIsLast`), one upcall at a
  time with Serialize (`Serialized`); a thread is left for I/O unless as many as the pool may have
  are in upcalls (`ThreadAvailable`); ready handlers are served (`ReadyServed`), threads
  of a destroyed pool end (`ThreadsEnd`).
- *Request handler*: an accepted request is queued, sent or failed, once (`Conserved`); the
  requests of a caller stay in order across the queue, the flush and the handler that replaces it,
  unless they wait in a handler that the proxy has dropped (`InOrder`); the proxy does not keep a
  handler that has done its work (`HandlerReplaced`);
  callers return, but for those that wait for a lost batch stream (`RequestsEnd`).
- *Factory*: `_pending` and the count say who connects and who waits (`Consistent`); one live
  connection for each connector (`OneConnection`); nothing happens after `waitUntilFinished()` has found the
  factory quiet (`QuietOnceFinishing`); everyone is answered and the destruction ends (`EveryoneAnswered`).
- *Election*: slaves on duty have what the master serves and not more than its database (`InSync`); what was
  acknowledged is served by the next masters, if no subscriber of it has failed (`AckedSurviveUnless`); a generation names one group
  (`GenerationUnique`); of two nodes on duty with one LLU neither serves what the other's
  database lacks, and two slaves have one database (`StampNamesData`).

It would be too much to say that the databases of master and slaves are equal: a topic whose replication
failed remains in the database of the master. It is not served, and not transferred, but a restart
of the master, which loses the LLU too, installs it.

Fairness. `SubscriberQueue`: every AMI call ends (a reply, or an exception after
its timeout), the flusher's timer thread runs, a notified thread wakes up.
Publishers, reaping and the clock need not. `ConnectionLive`: the thread
pool serves a socket that stays ready, upcalls return, notified threads wake
up, the factory activates the connection. `ThreadPool`: each thread of the pool runs, once
the mutex or a notification lets it; an upcall need not return and no time-out need expire.
`RequestHandler`: each caller proceeds, the factory answers with a
connection or an exception (`ConnectionFactory` shows that it does), and the work
item that fails the queue is executed (`ThreadPool` shows that it is).
`ConnectionFactory`: as long as something can be done some of it is done, which is one
weak fairness condition because nothing can be done for ever; hosts are resolved, validation has
a time limit, closed connections are finished. Strong fairness is never needed. Nothing is assumed of
applications. Weak fairness of reading presumes that an end on hold
is activated again, so that run has no hold.

## 4. What the runs found

1. **A link with a cost may never shut down** (`SubscriberDrain`).
   `SubscriberLink::flush` drops events by cost without a notify, so `shutdown()`, which
   `TopicI.cpp` says "waits for the event queues to drain", waits on although the queue is empty.
2. **A request may be executed and retried** (`ConnectionTorn`). With epoll or
   poll, a request that has been written whole but not been marked as sent is
   reported as not sent when the connection closes at that moment.
3. **A restart makes a node forget how new its database is** (`ElectionLost`):
   the LLU is reset at every start, and an acknowledged update may be missing
   in a master that a majority follows.
4. **A new generation is not always new** (`ElectionStamp`): its stamp is
   computed from the members' LLUs only, against the comment in `initMaster()`.

5. **A batch stream is never given back** (`RequestHandlerStream`).
   `ConnectRequestHandler::finishBatchRequest` and `abortBatchRequest` throw the exception of the
   failed connection before they reset `_batchRequestInProgress`; callers that wait for
   the stream wait for ever.

Also met, without a run of their own: the assert of `parseMessage()`
(`ConnectionI.cpp:2629`) and the second assert of `invitation()`
(`NodeI.cpp:812`) can fail, and so can the one in the retry branch of
`Subscriber::error` (`OnlyRetryAssertFails` says exactly when). An exception of one request may make
requests of another caller overtake each other (`InOrder` names the case): the proxy forgets the
handler that has the queue. And a topic whose creation failed for lack of a majority stays in the
database of the master under an LLU that the next group takes for its own.

## 5. Proofs

Each module with proofs has an inductive invariant `IInv`, proved to hold in every
reachable state (`Invariance`), and derives from it properties that TLC
checks. The assumptions are those the modules name (`...Assumption`); TLC evaluates them
in every run. TLC has also checked every `IInv` on the instances of the runs.

### IceStormSubscriber_proofs

For every set of records that satisfies `RecordsAssumption` and all values of the bounds:
`TypeOK`, `OutstandingCounted`, `NoStuckEvents`, `ShutdownDrains`, `ReapedIsReported`,
`EventsConserved`, `OnlyRetryAssertFails`, `OrderedDelivery`, that is every safety property of the run, and
`QueueOnlyOnline` (the queue is empty off line), which no run checks because it is part of the argument only.
None of the safety properties is inductive alone:

- `OutstandingCounted` counts calls by the cardinality of a set, so two calls
  must never be equal, and a removed call must have been there. `Consistent` adds
  that for subscribers other than batches: the queue is sorted, every call carries events older than
  all that are queued, none is empty, and there are finitely many.
- `NoStuckEvents` needs the counter to be exact, because `sent()` and `response()`
  look at the queue again only through it.
- `ShutdownDrains` needs `QueueOnlyOnline` and `NoStuckEvents`, and that `queue()` comes
  no more after `shutdown()`.
- `OnlyBatchesFlush` ties `timer` and `flushing` to batch subscribers.
- `AssertInv`, for `OnlyRetryAssertFails`: who is between `queue()` and `reap()` has found a subscriber
  that is dead, and a scheduled flush of a batch that is on line has events to take.
- `PlacesInv`, for `EventsConserved`: each published event is in one of the places, and in none of the others;
  with the queue sorted, the events taken by a flush are not those that stay.
- `OrderInv`, for `OrderedDelivery`: what is delivered to an ordered subscriber is older than what its one call
  carries, and that is older than the queue. `OrderedDelivery` is an action property, proved from `IInv`
  for each step.

The flush functions are treated once: `FlushKept` says that each of them, from any consistent
counter, queue and calls, leaves consistent ones with the counter exact and no stuck event
(`FlushTwowayKept`, `FlushOnewayKept`, `FlushLinkKept`, `FlushBatchKept`, on top of
`SuffixOf`, `PrefixSent` and `CallsAdded`). `QueueStep`, `ResponseStep`, `SentStep` cite it;
the other actions have a lemma each, and `NextIInv` puts them together.

### IceThreadPool_proofs

For all finite sets of handlers and threads and all pools that `PoolsAssumption` admits (there are names
for `sizeMax` threads and those that are not joined yet): `Consistent`, `FinishedIsLast`, `Serialized` and
`ThreadAvailable`, that is every invariant of the run. The invariant in parts:

- `LeadersOK`: a leader of a pool of many threads selects or does I/O, so that a thread in an upcall is never the leader;
  while somebody selects the list is empty and nobody does I/O. A pool of one thread does not count its
  I/O; `ThreadsOK` says that its thread never waits, which is why it need not.
- `CountsOK` has the counters after `destroy()` too, where threads that have ended stay in `_inUse`.
- `ListsOK`: a handler is at one place only: in the list, in the batch of the thread that has selected, or
  served. `NextHandler` takes it from the first to the last, and `select()` is called when there is none.
- `QueueOK`: the byte in the pipe stands for the items, and the work queue is listed only while there
  are items. So a thread finds it empty after `destroy()` only (`ThreadPoolDestroyedKept`), and
  nobody ends earlier.
- `FinishOK`, for `FinishedIsLast`: `finish()` clears the list but not the threads that serve the handler
  already. Its item is the next one of a listed work queue only when the handler is at no place any more:
  the work queue was listed with an item before it, which it takes first, and is listed again only by a
  `select()` for which everybody has left I/O and which does not report the handler.
- `SerialOK`: a disabled handler is at no place, and those in upcalls are disabled and distinct.
- `RoomOK`, for `ThreadAvailable`: `_inUse` is less than the number of threads until it is `sizeMax`. A thread
  that leaves (`ShrinkLeaves`) has seen a leader or I/O under way.

All that a thread does after `message()` or `select()` is one of four turns (`Waits`, `Serves`,
`Yields`, `Selects`); `FollowTurns`, `ReturnTurns`, `UpcallTurns` and `FinishSelectTurns` show that
the actions take turns, and `TurnKept` that turns keep the invariant. `CompletedStep` and `CompletedKept` do
the same for `ioCompleted()`.

### IceConnectRequestHandler_proofs

For every set of callers, handlers, connections and scripts: `Conserved`, `InOrder` and `HandlerReplaced`. `Control` says
what the flags and the proxy's delegate are while the thread that answers a handler is at each of its places; `History`
what has become of the requests:

- `Balanced`: a request occurs in the queue of its handler, on the wire and among the failures once if its caller has
  made it and not at all otherwise. `OccurrencesAppend` and `OccurrencesTail` count
  them; the last is proved with a bijection of positions.
- `QueueInOrder` strengthens `InOrder`: what is queued is newer than what is on the wire or in the queues of
  other handlers, and a caller with a request in a queue goes on with that handler, unless the
  handler is gone (dropped, or failed, so that it will send no more). It is kept because a caller gets past
  the queue (`at[c] = "direct"`) only when the queue has been sent (`QueueSent`), which
  is where `_flushing`, `_initialized` and the replacement of the handler must
  happen in the order in which they do.
- `DelegateOK` is the rendezvous of `connect()` with the flush and with the resets: the proxy has a handler only if
  its flush has been told to replace it (`updateRequestHandler`) and has not yet; a handler that has been told is
  the proxy's, has sent its queue, or is gone. So only a handler that is gone can have a queue
  beside another one.

A step changes the requests in one of six ways, each a lemma (`HistorySame`, `HistoryFailed`, `HistoryQueued`,
`HistoryWired`, `HistorySent`, `HistoryFlushed`), which the lemmas of the actions cite. `CallerControl` and `AnswerControl` treat
`Control` for the steps of a caller and of the thread that answers, `ResetStep` and `ResetControl` the resets.

### IceConnectionFactory_proofs

For all sets of requests, connectors and connections: `Consistent`, `OneConnection` and
`QuietOnceFinishing`. The invariant in parts:

- `PendingOK`: the connectors of two requests that connect are disjoint, every entry of `_pending` belongs to one
  that does, and a callback is in entries of its own connectors only. So
  `addToPending()` finds its connectors free, and `removeFromPending()` takes no one else's.
- `SharedOK`: while a request connects, only its own connection is live among its connectors. At
  the start that follows from `findConnection()` and from `StartsOK`, by which a connection
  that is being validated belongs to a request that connects to its connector, whose entry
  in `_pending` would have been found (`NoneLive`).
- `KnownOK`: what the factory does not map has finished, and the reaper has what it maps and has finished.
- `QuietOK`: from `CountOK` (cardinalities) and `PendingOK`, nothing can connect or
  be answered once both are empty (`Quiet`).

`MoveKept`, `StepTo` and `FinishKept` treat the steps that are alike: a request that does not connect moves, one that
connects goes on, one ends and takes all those along that wait for it.

### IceConnection_proofs

For every set of calls, all capacities and bounds, and both kinds of selector: every invariant of
`ConnectionSafety`, and that the connection implements `IceInvocation` but for torn requests
(`AtMostOnceUnlessTorn`). The invariant has parts for each end and for each call:

- `Counting`: `dispatchCount` is the number of dispatches and callbacks that run, and the end is in the hands of the reaper
  when it has finished and there are none (`DispatchCounted`, `ReapedOnce`).
- `SendQueue` and `Ordering`: what is in the send queue and on the wire, and that nothing follows a
  close message there; `EndOK` says in which states an end may have queued one, which requests
  it may still wait for, and what its upcalls are about. A close message goes out only when no
  dispatch runs, so none of the requests that were read before it lacks its reply (`CloseIsLast`).
- `CallOK`: where a call is (a request in a queue, on the wire, dispatched; a reply in a queue or on the
  wire) and how often it was executed. A call is at one of these places at most, which is what
  `RepliesExpected` and `CloseGuaranteesRepeat` need.
- `Unaccepted`: what an end does with requests that come after it has begun to close: nothing. `Graceful`: what a
  call may end with where nothing is forced and nothing fails (`GracefulLosesNothing`).

The refinement maps each step to a step of `IceInvocation`, or to none: `Told` says what the caller knows at the
time, `Moves` and `AllMove` that only the calls that the action ends move, and `MapStep`
puts the actions together. The lemmas about sequences without duplicates and about the places of a message are in
`IceConnectionMessages_proofs`.

### IceStormElection_proofs

For every number of replicas and all bounds: `TypeOK` in every run, and `GenerationUnique`,
`InSync` and `StampNamesData` as long as nothing lapses (which is part of their statement). The invariant is
`TypesOK` and `ReplicasOK`, and as long as nothing lapses and no assertion has failed `ElectionOK`, `SyncOK`, `NamesOK` and
`ContentOK`. The second and third of these are about `shared`, what a node's group was given of its database, because that is
what an LLU stands for; `ContentOK` relates it to the two copies of the code:

- `StampsOK`: a node is stamped with each generation once, and a group stamps with one. `Won` says that a
  generation has been stamped on more than half of the nodes: two that are won have a node in common (`WonMeet`,
  from the cardinalities), so they are different or of one coordinator.
- `RoleOK`: a node on duty is stamped with its generation by its coordinator, and the generation is won. So
  two nodes on duty in one generation have one coordinator and group, which is `GenerationUnique`.
- `MergeOK`, `GroupsApart` and `InitOK`: coordinators under way have groups of their own, whose
  members they have stamped, or still count on with the LLU that was told. Here the lapses matter:
  an LLU that is not what was told, or is above the new stamp, could be stamped twice.
- `UpdateOK`: updates under way belong to a master on duty and its generation.
- `FormingOK` and `DutyOK` (`SyncOK`), for `InSync`: from the initialisation of a member to its duty nothing changes its database but
  its coordinator's; on duty it lacks what is still to be sent. Slaves that
  lose an update are dropped from the observers in the same step.
- `MasterOK` and `CopiesOK` (`NamesOK`), for `StampNamesData`: the updates under way at a master have LLUs of their
  own, the one being sent the oldest (`VersionsInOrder`; this is what "overtaken" breaks); a slave has the LLU of the
  last update it took, and then what the master had then (`SlaveOK`), an observer all that is not
  still to be sent (`ObserverOK`); while a group forms, who has been stamped and has the
  coordinator's LLU has its content.
- `ContentOK`: what a node serves was shared, and what was shared is in its database. A database has more only
  on a node that stamped itself with the generation of its LLU, that is the master (`initMaster()` left it there), for
  `observerInit()` replaces the database. From this follows what `InSync` and `StampNamesData` say of `topics` and `data`.

`...Types`, `...Election`, `...Sync` (`...Calm`), `...Names` and `...Content` are the lemmas for the actions; `NextTypes`, `NextElection`,
`NextSync`, `NextNames` and `NextContent` put them together. The step that fails an assertion changes one node, which is off duty then
(`FailingStep`), so the properties hold in the state that remains. `MinimalElement`, a strict order on a finite
set has a minimal element, shows that `mergeContinue()` finds the best member whatever the number of nodes.

### IceStormSurvival_proofs

`AckedSurviveUnless`, for every number of replicas and any number of elections, updates, crashes and lost calls without
a lapse. The invariant `SurvivalOK` stands on that of the election. It is about `Served`: what a node has in `_topics`, or
would have if no subscriber had failed, or has committed and still replicates. The database alone would not
do, since the next coordinator may fetch the content from any of the nodes, and the content is made of `_topics`.

- `CountedOK`: a generation that has been stamped has counted on a majority (`counted`), and every
  database with an LLU has one of a stamp. `IterationsOK`: an LLU within a generation is one its master has given.
- `PendingOK`: an update under way is served by every node that has reached its LLU, or it is `Lost`: newer coordinators
  have counted on a majority of nodes that have not answered, so `Observers::wait()` will not find a majority. A
  slave that answers was not overruled, so it does not become one of them.
- `AckedOK`: an acknowledged update has been reached by a majority, and every node that has reached it serves it.
  `UpdateFinishHeld` gets this from `PendingOK`: the observers that are left and the master are a majority, so it is
  not lost. `SyncHeld` keeps it: the majority that was counted on has a node that has reached the
  update, and the best database has reached as much.
- `ErroredOK`: beyond what is served a database has only subscribers in error and topics that were not installed, the latter only
  on the node that stamped itself. So what a fetch or `observerInit()` leaves out of `_topics` is in error.
- `InfosOK`: who has told its LLU to a coordinator is no master as long as it has that LLU, so the content that the
  coordinator fetches lacks no update that its owner is still replicating.
- `ObserversOK`, `PendingApart` and `ApartOK`: majorities are counted without a node twice, and a coordinator
  is not a member of its own group.

A master that a majority follows then has reached every acknowledged update (`SurvivalImplies`), because the followers
and the majority that has reached it meet, and no follower is newer than its master (`SlaveOK`). `...Held`, `...Still`,
`...Errored`, `...Infos` and `...Apart` are the lemmas for the actions, `...Advances` says that no database gets older.

Only model-checked: liveness (the prover has no rule for fairness here). Every safety property that a passing run
checks is a theorem. Facts about recursive definitions over data cannot be proved with
the installed provers; there are none in the models.

## 6. Plan

Order: what is most important to the correctness of the system first.

1. Done: subscriber, connection, election, thread pool, request handler and outgoing factory with their
   runs, and proofs of all their safety properties.
2. Next proofs: when exactly the asserts of `NodeI` fail, as is done for the subscriber (a property and a run of its
   own first); that the lapses "deserted", "mistaken" and "overruled" cannot happen with a check of the group in
   `mergeContinue()` and a promise in `accept()`.
3. Next modules, each in the place of a run that has become less interesting than it, so that
   the whole project can still be checked in one go
   - `IceObjectAdapter`: activate, hold, deactivate and destroy against
     dispatches and `waitFor...` calls, with the incoming factory; destruction ends.
   - `FreezeBackgroundSaveEvictor`: no servant is lost between cache and store; savers,
     lookups and evictions do not deadlock.
   - `IceGridAllocatable`: an allocatable has one owner; waiting requests are
     served, time out or are cancelled, once.
   - `IceStormTopic`: the database of topics, links and subscribers behind the set
     of updates of `IceStormElection`.

## 7. Not modelled

`PROJECT.json` gives the reason for each component. In short: the parts that only compute
(compilers, deployment descriptors, marshalling), wrap a library (IceSSL, Freeze maps) or start and
stop things one after the other (IceBox, plug-ins) have little that depends on the order of
events; the other service parts (IceGrid, Glacier2, Freeze evictors) and the object adapters
do, and are left for lack of room. Java and C# have run times of their own with the same
design, which these modules do not cover.
