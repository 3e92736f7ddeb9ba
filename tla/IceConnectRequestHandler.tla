---------------------- MODULE IceConnectRequestHandler ----------------------
(***************************************************************************)
(* The request handlers of a proxy whose connection is being established   *)
(* (cpp/src/Ice/ConnectRequestHandler.cpp), together with the delegate     *)
(* pointer of the proxy (Proxy.cpp).                                       *)
(*                                                                         *)
(* Callers of one proxy invoke while the connection factory looks for a    *)
(* connection.  Asynchronous and batch requests are queued until it        *)
(* answers, synchronous ones wait.  The thread that answers sends the      *)
(* queue without the handler's mutex, replaces the handler in the proxy    *)
(* and then lets the callers go; if the connection cannot be established   *)
(* or is lost during this, a thread of the client thread pool fails what   *)
(* is still queued.  An exception of any request resets the delegate of    *)
(* the proxy, and the next call makes another handler, while this one may  *)
(* still have a queue.                                                     *)
(*                                                                         *)
(* A section under a mutex is one step, and so is a call of a connection.  *)
(* Compression, the response flag and the sent callbacks are left out, and *)
(* a retry is one more call of the caller.                                 *)
(***************************************************************************)
EXTENDS Naturals, Sequences, FiniteSets

CONSTANTS
    Callers,       \* threads of the application
    Handlers,      \* bound: the ConnectRequestHandlers that the proxy makes
    Connections,   \* connections of the factory
    Scripts,       \* what the callers may do: functions from Callers to
                   \* sequences of "async", "sync" and "batch"
    MaxCalls,      \* bound: the calls of a caller
    None

ASSUME CallersAssumption == /\ Callers \cap Handlers = {}
                            /\ None \notin Callers \cup Connections
                            /\ None \notin Handlers \X {"connect", "connection"}
ASSUME ScriptsAssumption ==
    /\ MaxCalls \in Nat
    /\ \A s \in Scripts :
          DOMAIN s = Callers /\ \A c \in Callers : s[c] \in Seq({"async", "sync", "batch"})
                                               /\ Len(s[c]) <= MaxCalls

VARIABLES  \* of each handler
    initialized,             \* _initialized
    flushing,                \* _flushing
    exception,               \* _exception is set
    connection,              \* _connection
    batchRequestInProgress,  \* _batchRequestInProgress
    requests,                \* _requests
    updateRequestHandler,    \* _updateRequestHandler
    workItems,   \* its FlushRequestsWithException items in the client thread pool
    creator      \* the caller that made it

VARIABLES
    delegate,    \* _delegate of the proxy: <<h, "connect">> is the delegate that has handler
                 \* h, <<h, "connection">> the one with the ConnectionRequestHandler that
                 \* replaces h
    via,         \* the delegate that each request was made through
    at,          \* where each thread is; the thread that brings handler h the answer of
                 \* the factory (or of the router) has the name of the handler
    waiting,     \* the threads in wait() of each handler's monitor
    script,      \* what the callers do, one of Scripts
    call,        \* the number of each caller's current or next call
    broken,      \* the connections that have been lost
    wire,        \* the requests handed to connections
    failures,    \* how often each request was ended by an exception before it was sent
    dropped      \* the handlers whose delegate was reset while they could still send
                 \* (for the properties)

handlerVars == <<initialized, flushing, exception, connection, batchRequestInProgress,
                 requests, updateRequestHandler>>
proxyVars   == <<delegate, creator, dropped>>
threadVars  == <<at, waiting, script, call, via>>
fateVars    == <<workItems, broken, wire, failures>>
vars == <<handlerVars, proxyVars, threadVars, fateVars>>

Threads == Callers \cup Handlers

Places == {"idle",       \* a caller outside the proxy
           "connect",    \* in connect(), before its section, with the proxy's mutex
           "invoke",     \* in a call of the handler, before its section
           "marshal",    \* with the handler's batch stream
           "direct",     \* about to call the connection
           "failed",     \* with an exception, before __handleException()
           "establish",  \* before the factory has answered
           "router",     \* before the router has answered
           "flush",      \* in flushRequests(), before its first section
           "send",       \* sending the queue
           "update",     \* before the proxy is given its new handler
           "finish",     \* before the last section
           "done"}

\* The requests of a script: the i-th call of caller c is <<c, i>>.
Requests == {<<c, i>> : c \in Callers, i \in 1..MaxCalls}
Current(c) == <<c, call[c]>>
Kind(c) == script[c][call[c]]

\* The handler of a request and of a caller's current call.
Delegates == Handlers \X {"connect", "connection"}
HandlerOf(r) == via[r][1]
Handler(c) == HandlerOf(Current(c))

Init ==
    /\ initialized = [h \in Handlers |-> FALSE] /\ flushing = [h \in Handlers |-> FALSE]
    /\ exception = [h \in Handlers |-> FALSE] /\ connection = [h \in Handlers |-> None]
    /\ batchRequestInProgress = [h \in Handlers |-> FALSE]
    /\ requests = [h \in Handlers |-> <<>>]
    /\ updateRequestHandler = [h \in Handlers |-> FALSE]
    /\ workItems = [h \in Handlers |-> 0]
    /\ delegate = None /\ creator = [h \in Handlers |-> None] /\ dropped = {}
    /\ via = [r \in Requests |-> None]
    /\ at = [t \in Threads |-> IF t \in Callers THEN "idle" ELSE "establish"]
    /\ waiting = [h \in Handlers |-> {}]
    /\ script \in Scripts /\ call = [c \in Callers |-> 1]
    /\ broken = {} /\ wire = <<>>
    /\ failures = [r \in Requests |-> 0]

-----------------------------------------------------------------------------
(***************************************************************************)
(* Parts of steps                                                          *)
(***************************************************************************)

\* The outcomes of initialized(), besides "initialized".
MustWait(h) == ~initialized[h] /\ flushing[h] /\ ~exception[h]
Throws(h)   == ~initialized[h] /\ exception[h]
NotYet(h)   == ~initialized[h] /\ ~flushing[h] /\ ~exception[h]

Goes(t, place) == at' = [at EXCEPT ![t] = place]

\* t is before a section of handler h, and not in wait().
Runs(t, h, place) == at[t] = place /\ t \notin waiting[h]
Calls(c, place) == Runs(c, Handler(c), place)

\* t releases the mutex of h in wait() and repeats its section when it has been notified.
Wait(t, h) == /\ waiting' = [waiting EXCEPT ![h] = @ \cup {t}]
              /\ UNCHANGED <<handlerVars, proxyVars, at, script, call, via, fateVars>>
NotifyAll(h) == waiting' = [waiting EXCEPT ![h] = {}]

\* Caller c is done with its call, or has an exception to handle.
Return(c) == /\ Goes(c, "idle")
             /\ call' = [call EXCEPT ![c] = @ + 1]
             /\ UNCHANGED <<script, via>>
Fail(c) == /\ Goes(c, "failed")
           /\ UNCHANGED <<script, call, via>>

\* The mutex of the proxy: connect() is called with it.
ProxyFree == \A c \in Callers : at[c] # "connect"

\* __handleException() and its variants, for a request that was made through delegate d:
\* the proxy forgets d, but not a delegate that it has got since then.
Reset(d) ==
    /\ ProxyFree
    /\ delegate' = IF delegate = d THEN None ELSE delegate
    /\ dropped' = dropped \cup {h \in Handlers : delegate = d /\ d = <<h, "connect">>
                                                 /\ ~exception[h]}
    /\ UNCHANGED creator

\* initialized() makes c's section wait, throw or go to the connection.
EndsInInitialized(c) ==
    \/ /\ MustWait(Handler(c))
       /\ Wait(c, Handler(c))
    \/ /\ Throws(Handler(c))
       /\ Fail(c)
       /\ UNCHANGED <<handlerVars, proxyVars, waiting, fateVars>>
    \/ /\ initialized[Handler(c)]
       /\ Goes(c, "direct")
       /\ UNCHANGED <<handlerVars, proxyVars, waiting, script, call, via, fateVars>>

-----------------------------------------------------------------------------
(***************************************************************************)
(* The callers                                                             *)
(***************************************************************************)

\* __getDelegate(): without a delegate the caller makes one with a new handler, and
\* holds the proxy's mutex until connect() has returned.
Invoke(c) ==
    /\ at[c] = "idle" /\ call[c] \in DOMAIN script[c] /\ ProxyFree
    /\ \/ /\ delegate = None
          /\ \E h \in Handlers :
                /\ creator[h] = None /\ h = CHOOSE g \in Handlers : creator[g] = None
                /\ creator' = [creator EXCEPT ![h] = c]
                /\ via' = [via EXCEPT ![Current(c)] = <<h, "connect">>]
          /\ Goes(c, "connect")
       \/ /\ delegate # None
          /\ via' = [via EXCEPT ![Current(c)] = delegate]
          /\ Goes(c, IF delegate[2] = "connect" THEN "invoke" ELSE "direct")
          /\ UNCHANGED creator
    /\ UNCHANGED <<handlerVars, delegate, dropped, waiting, script, call, fateVars>>

\* connect(), after getConnection(this): the factory may have answered already.
ConnectUnless(c, h, waits) ==
    /\ Runs(c, h, "connect")
    /\ \/ /\ initialized[h]
          /\ delegate' = <<h, "connection">>
          /\ via' = [via EXCEPT ![Current(c)] = <<h, "connection">>]
          /\ Goes(c, "direct")
          /\ UNCHANGED <<handlerVars, creator, dropped, waiting, script, call, fateVars>>
       \/ /\ MustWait(h) /\ waits
          /\ Wait(c, h)
       \/ /\ Throws(h)
          /\ Fail(c)
          /\ UNCHANGED <<handlerVars, proxyVars, waiting, fateVars>>
       \/ /\ NotYet(h) \/ (MustWait(h) /\ ~waits)
          /\ updateRequestHandler' = [updateRequestHandler EXCEPT ![h] = TRUE]
          /\ delegate' = <<h, "connect">>
          /\ Goes(c, "invoke")
          /\ UNCHANGED <<initialized, flushing, exception, connection, batchRequestInProgress,
                         requests, creator, dropped, waiting, script, call, via, fateVars>>
\* Mutant: the caller gets this handler while the queue is being sent.
ConnectAtOnce(c) == ConnectUnless(c, Handler(c), FALSE)
Connect(c) == ConnectUnless(c, Handler(c), TRUE)

\* sendAsyncRequest() and flushAsyncBatchRequests().
SendAsyncRequest(c) ==
    /\ Calls(c, "invoke") /\ Kind(c) = "async"
    /\ \/ EndsInInitialized(c)
       \/ /\ NotYet(Handler(c))
          /\ requests' = [requests EXCEPT ![Handler(c)] = Append(@, Current(c))]
          /\ Return(c)
          /\ UNCHANGED <<initialized, flushing, exception, connection, batchRequestInProgress,
                         updateRequestHandler, proxyVars, waiting, fateVars>>

\* sendRequest() and flushBatchRequests(): getConnection(true) waits for the answer.
SendRequestWhen(c, ready) ==
    /\ Calls(c, "invoke") /\ Kind(c) = "sync"
    /\ \/ /\ ~ready /\ ~exception[Handler(c)]
          /\ Wait(c, Handler(c))
       \/ /\ exception[Handler(c)]
          /\ Fail(c)
          /\ UNCHANGED <<handlerVars, proxyVars, waiting, fateVars>>
       \/ /\ ready /\ ~exception[Handler(c)]
          /\ Goes(c, "direct")
          /\ UNCHANGED <<handlerVars, proxyVars, waiting, script, call, via, fateVars>>
\* Mutant: a connection is enough.
SendRequestConnected(c) == SendRequestWhen(c, connection[Handler(c)] # None)
SendRequest(c) == SendRequestWhen(c, initialized[Handler(c)])

\* prepareBatchRequest(): the caller becomes the one that has the batch stream.
PrepareBatchRequest(c) ==
    /\ Calls(c, "invoke") /\ Kind(c) = "batch"
    /\ \/ /\ batchRequestInProgress[Handler(c)]
          /\ Wait(c, Handler(c))
       \/ /\ ~batchRequestInProgress[Handler(c)]
          /\ EndsInInitialized(c)
       \/ /\ ~batchRequestInProgress[Handler(c)] /\ NotYet(Handler(c))
          /\ batchRequestInProgress' = [batchRequestInProgress EXCEPT ![Handler(c)] = TRUE]
          /\ Goes(c, "marshal")
          /\ UNCHANGED <<initialized, flushing, exception, connection, requests,
                         updateRequestHandler, proxyVars, waiting, script, call, via, fateVars>>

\* finishBatchRequest(): when initialized() throws, the batch stream stays in use.
FinishBatch(c, notified) ==
    /\ Calls(c, "marshal")
    /\ \/ EndsInInitialized(c)
       \/ /\ NotYet(Handler(c))
          /\ batchRequestInProgress' = [batchRequestInProgress EXCEPT ![Handler(c)] = FALSE]
          /\ waiting' = [waiting EXCEPT ![Handler(c)] = @ \ notified]
          /\ requests' = [requests EXCEPT ![Handler(c)] = Append(@, Current(c))]
          /\ Return(c)
          /\ UNCHANGED <<initialized, flushing, exception, connection, updateRequestHandler,
                         proxyVars, fateVars>>
\* Mutant: only the callers are notified.
FinishBatchRequestSilent(c) == FinishBatch(c, Callers)
FinishBatchRequest(c) == FinishBatch(c, Threads)

\* abortBatchRequest(), or finishBatchRequest() with a batch above the size limit.
AbortBatchRequest(c) ==
    /\ Calls(c, "marshal")
    /\ \/ EndsInInitialized(c)
       \/ /\ NotYet(Handler(c))
          /\ batchRequestInProgress' = [batchRequestInProgress EXCEPT ![Handler(c)] = FALSE]
          /\ NotifyAll(Handler(c))
          /\ Fail(c)
          /\ UNCHANGED <<initialized, flushing, exception, connection, requests,
                         updateRequestHandler, proxyVars, fateVars>>

\* The same calls of the connection, by a caller that has been let through or that
\* found the new handler in the proxy.
CallConnection(c) ==
    /\ at[c] = "direct"
    /\ \/ /\ connection[Handler(c)] \notin broken
          /\ wire' = Append(wire, Current(c))
          /\ Return(c)
          /\ UNCHANGED broken
       \/ /\ broken' = broken \cup {connection[Handler(c)]}
          /\ Fail(c)
          /\ UNCHANGED wire
    /\ UNCHANGED <<handlerVars, proxyVars, waiting, workItems, failures>>

\* The caller's exception reaches the catch clause of the invocation.
HandleException(c) ==
    /\ at[c] = "failed"
    /\ Reset(via[Current(c)])
    /\ failures' = [failures EXCEPT ![Current(c)] = @ + 1]
    /\ Return(c)
    /\ UNCHANGED <<handlerVars, waiting, workItems, broken, wire>>

\* OutgoingAsync::__finished(): a request that has been sent ends with an exception
\* (of the connection, or ObjectNotExistException and the like in the reply).
RequestFails(r) ==
    /\ \E i \in DOMAIN wire : wire[i] = r
    /\ Reset(via[r])
    /\ UNCHANGED <<handlerVars, threadVars, fateVars>>

-----------------------------------------------------------------------------
(***************************************************************************)
(* The thread that brings the answer to handler h                          *)
(***************************************************************************)

\* setConnection(), with a connection that the factory has activated and that other
\* handlers may have got before; a router that does not know the proxy yet is asked
\* to add it.
SetConnection(h) ==
    /\ at[h] = "establish" /\ creator[h] # None
    /\ \E k \in Connections : connection' = [connection EXCEPT ![h] = k]
    /\ Goes(h, "flush") \/ Goes(h, "router")
    /\ UNCHANGED <<initialized, flushing, exception, batchRequestInProgress, requests,
                   updateRequestHandler, proxyVars, waiting, script, call, via, fateVars>>

\* addedProxy().
AddedProxy(h) ==
    /\ at[h] = "router"
    /\ Goes(h, "flush")
    /\ UNCHANGED <<handlerVars, proxyVars, waiting, script, call, via, fateVars>>

\* setException(), called by the factory or for the router.
SetException(h) ==
    /\ (at[h] = "establish" /\ creator[h] # None) \/ at[h] = "router"
    /\ exception' = [exception EXCEPT ![h] = TRUE]
    /\ workItems' = [workItems EXCEPT ![h] = IF requests[h] # <<>> THEN @ + 1 ELSE @]
    /\ NotifyAll(h)
    /\ Goes(h, "done")
    /\ UNCHANGED <<initialized, flushing, connection, batchRequestInProgress, requests,
                   updateRequestHandler, proxyVars, script, call, via, broken, wire, failures>>

\* flushRequests(): nothing is queued any more from here on.
BeginFlush(h) ==
    /\ Runs(h, h, "flush")
    /\ \/ /\ batchRequestInProgress[h]
          /\ Wait(h, h)
       \/ /\ ~batchRequestInProgress[h]
          /\ flushing' = [flushing EXCEPT ![h] = TRUE]
          /\ Goes(h, "send")
          /\ UNCHANGED <<initialized, exception, connection, batchRequestInProgress, requests,
                         updateRequestHandler, proxyVars, waiting, script, call, via, fateVars>>

\* The loop, without the mutex; after an exception the others are left in the queue.
SendQueuedLeaving(h, left) ==
    /\ at[h] = "send"
    /\ \/ /\ requests[h] # <<>> /\ connection[h] \notin broken
          /\ wire' = Append(wire, Head(requests[h]))
          /\ requests' = [requests EXCEPT ![h] = Tail(@)]
          /\ UNCHANGED <<exception, at, workItems, broken>>
       \/ /\ requests[h] # <<>>
          /\ broken' = broken \cup {connection[h]}
          /\ exception' = [exception EXCEPT ![h] = TRUE]
          /\ requests' = [requests EXCEPT ![h] = left]
          /\ workItems' = [workItems EXCEPT ![h] = @ + 1]
          /\ Goes(h, "update")
          /\ UNCHANGED wire
       \/ /\ requests[h] = <<>>
          /\ Goes(h, "update")
          /\ UNCHANGED <<exception, requests, workItems, broken, wire>>
    /\ UNCHANGED <<initialized, flushing, connection, batchRequestInProgress,
                   updateRequestHandler, proxyVars, waiting, script, call, via, failures>>
\* Mutant: a request leaves the queue before it is sent.
SendQueuedPopped(h) == SendQueuedLeaving(h, Tail(requests[h]))
SendQueued(h) == SendQueuedLeaving(h, requests[h])

\* __setRequestHandler(): the proxy gets a ConnectionRequestHandler, if connect() has
\* given it this handler and no exception has reset the delegate since then.
UpdateProxy(h) ==
    /\ at[h] = "update"
    /\ \/ /\ updateRequestHandler[h] /\ ~exception[h] /\ ProxyFree
          /\ delegate' = IF delegate = <<h, "connect">> THEN <<h, "connection">> ELSE delegate
       \/ /\ ~updateRequestHandler[h] \/ exception[h]
          /\ UNCHANGED delegate
    /\ Goes(h, "finish")
    /\ UNCHANGED <<handlerVars, creator, dropped, waiting, script, call, via, fateVars>>

FinishFlush(h) ==
    /\ at[h] = "finish"
    /\ initialized' = [initialized EXCEPT ![h] = ~exception[h]]
    /\ flushing' = [flushing EXCEPT ![h] = exception[h]]
    /\ NotifyAll(h)
    /\ Goes(h, "done")
    /\ UNCHANGED <<exception, connection, batchRequestInProgress, requests,
                   updateRequestHandler, proxyVars, script, call, via, fateVars>>

\* flushRequestsWithException(), in a thread of the client thread pool: the requests end,
\* and the asynchronous ones reset the delegate (a flush of batch requests does not).
FlushRequestsWithException(h) ==
    /\ workItems[h] > 0
    /\ workItems' = [workItems EXCEPT ![h] = @ - 1]
    /\ failures' = [r \in Requests |->
                       IF \E i \in DOMAIN requests[h] : requests[h][i] = r
                       THEN failures[r] + 1 ELSE failures[r]]
    /\ requests' = [requests EXCEPT ![h] = <<>>]
    /\ \/ /\ \E i \in DOMAIN requests[h] :
                script[requests[h][i][1]][requests[h][i][2]] = "async"
          /\ Reset(<<h, "connect">>)
       \/ UNCHANGED proxyVars
    /\ UNCHANGED <<initialized, flushing, exception, connection, batchRequestInProgress,
                   updateRequestHandler, threadVars, broken, wire>>

-----------------------------------------------------------------------------
\* A step of caller c inside a call.
Proceed(c) == \/ Connect(c) \/ SendAsyncRequest(c) \/ SendRequest(c)
              \/ PrepareBatchRequest(c) \/ FinishBatchRequest(c) \/ AbortBatchRequest(c)
              \/ CallConnection(c) \/ HandleException(c)

Establish(h) == \/ SetConnection(h) \/ AddedProxy(h) \/ SetException(h)
                \/ BeginFlush(h) \/ SendQueued(h) \/ UpdateProxy(h) \/ FinishFlush(h)

Next == \/ \E c \in Callers : Invoke(c) \/ Proceed(c)
        \/ \E r \in Requests : RequestFails(r)
        \/ \E h \in Handlers : Establish(h) \/ FlushRequestsWithException(h)

Spec == Init /\ [][Next]_vars

\* Threads run, the factory and the router answer, and the client thread pool executes
\* its work items.  Nobody has to start a call, and no request has to fail.
Fairness == /\ \A c \in Callers : WF_vars(Proceed(c))
            /\ \A h \in Handlers : WF_vars(Establish(h)) /\ WF_vars(FlushRequestsWithException(h))

FairSpec == Spec /\ Fairness

-----------------------------------------------------------------------------
(***************************************************************************)
(* Properties                                                              *)
(***************************************************************************)

TypeOK ==
    /\ {initialized, flushing, exception, batchRequestInProgress, updateRequestHandler}
          \subseteq [Handlers -> BOOLEAN]
    /\ connection \in [Handlers -> Connections \cup {None}] /\ broken \subseteq Connections
    /\ requests \in [Handlers -> Seq(Requests)] /\ wire \in Seq(Requests)
    /\ delegate \in Delegates \cup {None} /\ via \in [Requests -> Delegates \cup {None}]
    /\ creator \in [Handlers -> Callers \cup {None}] /\ dropped \subseteq Handlers
    /\ at \in [Threads -> Places] /\ waiting \in [Handlers -> SUBSET Threads]
    /\ script \in Scripts /\ call \in [Callers -> Nat]
    /\ workItems \in [Handlers -> Nat] /\ failures \in [Requests -> Nat]

Occurrences(s, r) == Cardinality({i \in DOMAIN s : s[i] = r})

\* Every request whose call has returned is in one place, once: in the queue of the
\* handler it was made through, handed to a connection, or ended by one exception; one
\* whose call is under way is nowhere.  The queue is emptied without the mutex, so this
\* needs that nothing is queued while it is (initialized() waits), and that an exception
\* leaves the rest to one work item.
Conserved ==
    /\ TypeOK
    /\ \A r \in Requests :
          IF r[2] < call[r[1]]
          THEN Occurrences(requests[HandlerOf(r)], r) + Occurrences(wire, r) + failures[r] = 1
          ELSE Occurrences(wire, r) + failures[r] = 0
    /\ \A h \in Handlers, r \in Requests :
          Occurrences(requests[h], r) > 0 => r[2] < call[r[1]] /\ HandlerOf(r) = h

\* The requests of a caller are handed to connections in the order of its calls, although
\* some are queued, some go through the handler that has the queue and some through the
\* one that replaces it.  The exception is a request in the queue of a handler that the
\* proxy has dropped because another request failed: later calls go through another
\* handler, which may be given the connection first.
InOrder ==
    \A i, j \in DOMAIN wire :
        i < j /\ wire[i][1] = wire[j][1]
        => wire[i][2] < wire[j][2] \/ HandlerOf(wire[j]) \in dropped

\* Once the queue of a handler has been sent the proxy does not keep that handler, and
\* what it has instead is the replacement of a handler that has sent its queue: connect()
\* either found the handler initialized or has asked for the replacement in time.
HandlerReplaced ==
    \A h \in Handlers :
        /\ initialized[h] => delegate # <<h, "connect">>
        /\ delegate = <<h, "connection">> => requests[h] = <<>> /\ connection[h] # None

\* The callers that wait for a batch stream whose owner met the exception in
\* finishBatchRequest() or abortBatchRequest() (see BatchStreamReleased).
WaitsForLostStream(c) ==
    /\ at[c] = "invoke" /\ Kind(c) = "batch"
    /\ exception[Handler(c)] /\ batchRequestInProgress[Handler(c)]

\* A call that was started returns, and what was queued does not stay in the queue
\* (with Conserved: it goes to the connection or ends with an exception), although the
\* establisher waits for the batch stream and the callers wait for the establisher.
RequestsEnd ==
    /\ \A c \in Callers : (at[c] # "idle") ~> (at[c] = "idle" \/ WaitsForLostStream(c))
    /\ \A h \in Handlers : (requests[h] # <<>>) ~> (requests[h] = <<>>)

\* The batch stream of a handler has an owner whenever it is in use.  "If we didn't
\* finish a batch oneway or datagram request, we must notify the connection about that
\* we give up ownership of the batch stream" (Outgoing.cpp:330): but initialized()
\* throws before finishBatchRequest() and abortBatchRequest() have done so.
BatchStreamReleased ==
    \A h \in Handlers :
        batchRequestInProgress[h] => \E c \in Callers : at[c] = "marshal" /\ Handler(c) = h
=============================================================================
