--------------------------- MODULE IceThreadPool ----------------------------
(***************************************************************************)
(* The leader/follower thread pool of the Ice run time                     *)
(* (cpp/src/Ice/ThreadPool.cpp) over an epoll selector (Selector.cpp).     *)
(*                                                                         *)
(* One thread, the leader, waits in select() and then shares out the       *)
(* handlers that are ready: it serves one itself and promotes a follower   *)
(* for the next.  A handler that is about to call the application calls    *)
(* ioCompleted(), by which its thread stops to count as one that does I/O. *)
(* select() is called again only when no thread does I/O any more.         *)
(*                                                                         *)
(* A section under the pool's mutex is one step.  What a handler does with *)
(* its own mutex is one step with the section that follows.                *)
(***************************************************************************)
EXTENDS Naturals, Sequences, FiniteSets

CONSTANTS
    Handlers,      \* connections (and incoming connection factories)
    Threads,       \* names of threads; the name of a joined thread is used again
    Pools,         \* configurations: records with size, sizeMax,
                   \* sizeIO, serialize, and whether threadIdle and serverIdle times are set
    MaxMessages,   \* bound: messages that arrive for a handler
    MaxUnjoined,   \* bound: threads that have left and are not joined yet
    WorkQueue,     \* the handler of the pool's own work queue
    None           \* no handler, no work item

ASSUME PoolsAssumption ==
    \A p \in Pools :
        /\ p.size \in Nat \ {0} /\ p.sizeMax \in Nat /\ p.sizeMax >= p.size
        /\ p.sizeIO \in 1..p.sizeMax
        /\ p.serialize \in BOOLEAN /\ p.threadIdle \in BOOLEAN /\ p.serverIdle \in BOOLEAN
        /\ IsFiniteSet(Threads) /\ Cardinality(Threads) >= p.sizeMax + MaxUnjoined
ASSUME NamesAssumption ==
    /\ WorkQueue \notin Handlers /\ None \notin Handlers /\ None # WorkQueue
    /\ MaxMessages \in Nat /\ MaxUnjoined \in Nat /\ IsFiniteSet(Handlers)

VARIABLES
    pool,          \* the configuration, one of Pools
    destroyed,     \* _destroyed, of the pool and of its work queue
    threads,       \* _threads
    inUse,         \* _inUse: threads in the application's code
    inUseIO,       \* _inUseIO: threads that do I/O
    handlers,      \* _handlers from _nextHandler on
    promote,       \* _promote: a follower may become the leader
    leaders,       \* the threads whose _leader is set
    current,       \* the handler that each thread serves
    item,          \* the work item that each thread executes
    batch,         \* what select() returned to a thread
    pc,            \* where each thread is
    workItems,     \* _workItems
    pipe,          \* bytes in the pipe by which the work queue is ready
    registered,    \* handlers registered for reading
    disabled,      \* handlers whose _disabled is set
    toArrive,      \* messages still to arrive for each handler
    pending,       \* messages that have arrived and are not read
    closed         \* "open"; "finishing" after finish(), "finished" after finished()

poolVars  == <<inUse, inUseIO, handlers, promote, leaders, current, threads>>
queueVars == <<workItems, pipe>>
envVars   == <<toArrive, pending, closed>>
vars == <<pool, destroyed, poolVars, item, batch, pc, queueVars, registered, disabled, envVars>>

Sources == Handlers \cup {WorkQueue}
Items == ({"finished"} \X Handlers) \cup ({"join"} \X Threads) \cup {<<"shutdown">>}
ASSUME ItemsAssumption == None \notin Items

Places == {"ended",     \* run() has returned, or the thread was never started
           "follow",    \* before the lock, neither leader nor with a handler
           "waiting",   \* in followerWait()
           "notified",  \* woken from there
           "select",    \* in select()
           "timedout",  \* select() has timed out
           "selected",  \* select() has returned
           "message",   \* in message(), doing I/O
           "execute",   \* in message() of the work queue, with an item
           "upcall"}    \* in message() after ioCompleted()

IO   == {"message", "execute"}
Many == pool.sizeMax > 1

\* Threads that have left the pool and are not joined yet.
Unjoined == {t \in Threads : \/ \E i \in DOMAIN workItems : workItems[i] = <<"join", t>>
                             \/ \E x \in Threads : item[x] = <<"join", t>>}

\* The sequences that hold each element of S once.
Orders(S) == {s \in [1..Cardinality(S) -> S] : \A x \in S : \E i \in DOMAIN s : s[i] = x}

Init ==
    /\ pool \in Pools
    /\ destroyed = FALSE
    /\ threads = CHOOSE T \in SUBSET Threads : Cardinality(T) = pool.size
    /\ pc = [t \in Threads |-> IF t \in threads THEN "follow" ELSE "ended"]
    /\ inUse = 0 /\ inUseIO = 0
    /\ handlers = <<>> /\ promote = TRUE /\ leaders = {}
    /\ current = [t \in Threads |-> None]
    /\ item = [t \in Threads |-> None]
    /\ batch = [t \in Threads |-> <<>>]
    /\ workItems = <<>> /\ pipe = 0
    /\ registered = Sources /\ disabled = {}
    /\ toArrive = [h \in Handlers |-> MaxMessages]
    /\ pending = [h \in Handlers |-> 0]
    /\ closed = [h \in Handlers |-> "open"]

-----------------------------------------------------------------------------
(***************************************************************************)
(* Parts of steps                                                          *)
(***************************************************************************)

\* notify(): the threads may be at p afterwards; one of those that wait is woken.
Notify(p, when) ==
    LET waiting == {t \in Threads : p[t] = "waiting"} IN
    IF when /\ waiting # {} THEN {[p EXCEPT ![t] = "notified"] : t \in waiting} ELSE {p}

\* ThreadPoolWorkQueue::queue(): the byte in the pipe stands for all items.
QueueItem(i) ==
    /\ workItems' = Append(workItems, i)
    /\ pipe' = IF workItems = <<>> THEN pipe + 1 ELSE pipe

\* What a follower waits for, in followerWait(): to be promoted, and that there
\* is a handler to serve, or no thread left that does I/O.
Blocked(io) == \/ ~promote
               \/ Many /\ io = pool.sizeIO
               \/ handlers = <<>> /\ io > 0

\* The end of run()'s section: t is the leader, io threads do I/O and the handlers
\* of hs are left.  It takes the next one, or gives up the leadership because there
\* is I/O under way, or selects.
NextHandler(t, io, hs) ==
    \/ LET n     == IF Many THEN io + 1 ELSE io
           gives == Many /\ Len(hs) > 1 /\ n < pool.sizeIO IN
       /\ hs # <<>>
       /\ current' = [current EXCEPT ![t] = Head(hs)]
       /\ handlers' = Tail(hs)
       /\ inUseIO' = n
       /\ promote' = gives
       /\ leaders' = IF gives THEN leaders \ {t} ELSE leaders \cup {t}
       /\ pc' \in Notify([pc EXCEPT ![t] = "message"], gives)
    \/ /\ hs = <<>> /\ io > 0
       /\ promote' = TRUE /\ leaders' = leaders \ {t}
       /\ pc' = [pc EXCEPT ![t] = "follow"]
       /\ current' = [current EXCEPT ![t] = None]
       /\ handlers' = hs /\ inUseIO' = io
    \/ /\ hs = <<>> /\ io = 0
       /\ promote' = FALSE /\ leaders' = leaders \cup {t}
       /\ pc' = [pc EXCEPT ![t] = "select"]
       /\ current' = [current EXCEPT ![t] = None]
       /\ handlers' = hs /\ inUseIO' = io

\* What run() does after message() has returned: followerWait() unless t is the
\* leader, and the next handler.
Continue(t, io) ==
    IF t \notin leaders /\ Blocked(io)
    THEN /\ pc' = [pc EXCEPT ![t] = "waiting"]
         /\ current' = [current EXCEPT ![t] = None]
         /\ inUseIO' = io
         /\ UNCHANGED <<handlers, promote, leaders>>
    ELSE NextHandler(t, io, handlers)

\* Mutant: a message that needed no upcall leaves its thread counted as doing I/O.
ReturnFromIOUncounted(t) == Continue(t, inUseIO) /\ UNCHANGED <<inUse, threads, disabled>>

\* message() returned without a call of ioCompleted().
ReturnFromIO(t) ==
    /\ Continue(t, IF Many THEN inUseIO - 1 ELSE inUseIO)
    /\ UNCHANGED <<inUse, threads, disabled>>

\* Mutants: the pool grows when a thread is still left; no follower is woken by the
\* last thread that does I/O; upcalls are not serialized.
GrowsLate(n) == ~destroyed /\ n < pool.sizeMax /\ n > Cardinality(threads)
WakesForHandlersOnly(io) == handlers # <<>>
NeverDisables(t) == disabled

\* The parts of ioCompleted(): the pool grows when all of its threads are in use,
\* a follower is woken when it has something to do, and the handler is
\* disabled if its upcalls are serialized.
Grows(n) == ~destroyed /\ n < pool.sizeMax /\ n = Cardinality(threads)
WakesFollower(io) == handlers # <<>> \/ io = 0
Disables(t) == IF pool.serialize /\ ~destroyed THEN disabled \cup {current[t]} ELSE disabled

\* ioCompleted(), which leaves t at place p: other threads may do I/O now.
IoCompleted(t, p) ==
    IF ~Many
    THEN /\ pc' = [pc EXCEPT ![t] = p]
         /\ UNCHANGED <<inUse, inUseIO, promote, leaders, threads, disabled>>
    ELSE /\ inUseIO' = inUseIO - 1
         /\ disabled' = Disables(t)
         /\ promote' = (promote \/ t \in leaders)
         /\ leaders' = leaders \ {t}
         /\ inUse' = inUse + 1
         /\ \E woken \in Notify([pc EXCEPT ![t] = p], promote' /\ WakesFollower(inUseIO')) :
              IF Grows(inUse')
              THEN LET n == CHOOSE n \in Threads : n \notin threads \cup Unjoined IN
                   /\ pc' = [woken EXCEPT ![n] = "follow"]
                   /\ threads' = threads \cup {n}
              ELSE pc' = woken /\ UNCHANGED threads

-----------------------------------------------------------------------------
(***************************************************************************)
(* run()                                                                   *)
(***************************************************************************)

\* A thread without a handler enters followerWait(), or looks again when it
\* has been notified.
Follow(t) ==
    /\ pc[t] \in {"follow", "notified"}
    /\ Continue(t, inUseIO)
    /\ UNCHANGED <<pool, destroyed, inUse, threads, item, batch, queueVars, registered,
                   disabled, envVars>>

\* timedWait() has timed out: the thread leaves if there is still nothing to do,
\* and the next thread that serves the work queue joins it.
Shrink(t) ==
    /\ pc[t] = "waiting" /\ pool.threadIdle
    /\ ~destroyed /\ Blocked(inUseIO)
    /\ Cardinality(Unjoined) < MaxUnjoined
    /\ threads' = threads \ {t}
    /\ QueueItem(<<"join", t>>)
    /\ pc' = [pc EXCEPT ![t] = "ended"]
    /\ UNCHANGED <<pool, destroyed, inUse, inUseIO, handlers, promote, leaders, current, item,
                   batch, registered, disabled, envVars>>

\* What the selector reports: registered handlers that are not disabled.
Ready == {s \in registered \ disabled :
             IF s = WorkQueue THEN pipe > 0 ELSE pending[s] > 0}

Select(t) ==
    /\ pc[t] = "select"
    /\ \/ /\ Ready # {}
          /\ \E s \in Orders(Ready) : batch' = [batch EXCEPT ![t] = s]
          /\ pc' = [pc EXCEPT ![t] = "selected"]
       \/ /\ Ready = {} /\ pool.serverIdle
          /\ pc' = [pc EXCEPT ![t] = "timedout"]
          /\ UNCHANGED batch
    /\ UNCHANGED <<pool, destroyed, poolVars, item, queueVars, registered, disabled, envVars>>

\* The server has been idle: a work item will shut it down.
SelectTimedOut(t) ==
    /\ pc[t] = "timedout"
    /\ pc' = [pc EXCEPT ![t] = "select"]
    /\ IF ~destroyed /\ inUse = 0 THEN QueueItem(<<"shutdown">>) ELSE UNCHANGED queueVars
    /\ UNCHANGED <<pool, destroyed, poolVars, item, batch, registered, disabled, envVars>>

\* The batch becomes the handlers of the pool.
FinishSelect(t) ==
    /\ pc[t] = "selected"
    /\ NextHandler(t, inUseIO, batch[t])
    /\ batch' = [batch EXCEPT ![t] = <<>>]
    /\ UNCHANGED <<pool, destroyed, inUse, threads, item, queueVars, registered, disabled,
                   envVars>>

\* message() of a handler reads a message, unless the handler has closed.
Reads(h) ==
    /\ pending' = IF closed[h] = "open" /\ pending[h] > 0
                  THEN [pending EXCEPT ![h] = @ - 1] ELSE pending
    /\ UNCHANGED <<toArrive, closed>>

\* It returns without an upcall: the handler has closed, there was nothing to
\* read, part of a message, or a reply that wakes a waiting thread.
MessageReturns(t) ==
    /\ pc[t] = "message" /\ current[t] \in Handlers
    /\ Reads(current[t])
    /\ ReturnFromIO(t)
    /\ UNCHANGED <<pool, destroyed, item, batch, queueVars, registered>>

\* It has something to dispatch.
MessageDispatches(t) ==
    /\ pc[t] = "message" /\ current[t] \in Handlers
    /\ closed[current[t]] = "open" /\ pending[current[t]] > 0
    /\ Reads(current[t])
    /\ IoCompleted(t, "upcall")
    /\ UNCHANGED <<pool, destroyed, handlers, current, item, batch, queueVars, registered>>

\* The end of an upcall: the handler is enabled again.
UpcallReturns(t) ==
    /\ pc[t] = "upcall"
    /\ disabled' = IF Many THEN disabled \ {current[t]} ELSE disabled
    /\ inUse' = IF Many THEN inUse - 1 ELSE inUse
    /\ Continue(t, inUseIO)
    /\ item' = [item EXCEPT ![t] = None]
    /\ UNCHANGED <<pool, destroyed, threads, batch, queueVars, registered, envVars>>

\* message() of the work queue takes an item, and the byte with the last one.
TakeItem(t) ==
    /\ pc[t] = "message" /\ current[t] = WorkQueue /\ workItems # <<>> /\ pipe > 0
    /\ item' = [item EXCEPT ![t] = Head(workItems)]
    /\ workItems' = Tail(workItems)
    /\ pipe' = IF Len(workItems) = 1 THEN pipe - 1 ELSE pipe
    /\ pc' = [pc EXCEPT ![t] = "execute"]
    /\ UNCHANGED <<pool, destroyed, poolVars, batch, registered, disabled, envVars>>

\* Mutant: the thread ends without ioCompleted().
ThreadPoolDestroyedSilently(t) ==
    /\ pc[t] = "message" /\ current[t] = WorkQueue /\ workItems = <<>>
    /\ pc' = [pc EXCEPT ![t] = "ended"]
    /\ current' = [current EXCEPT ![t] = None]
    /\ UNCHANGED <<pool, destroyed, inUse, inUseIO, promote, leaders, threads, disabled,
                   handlers, item, batch, queueVars, registered, envVars>>

\* There are no items left: the queue is destroyed, and the thread ends.  The
\* byte of destroy() stays for the other threads.
ThreadPoolDestroyed(t) ==
    /\ pc[t] = "message" /\ current[t] = WorkQueue /\ workItems = <<>>
    /\ IoCompleted(t, "ended")
    /\ current' = [current EXCEPT ![t] = None]
    /\ UNCHANGED <<pool, destroyed, handlers, item, batch, queueVars, registered, envVars>>

\* Items that do not call the application: finished() of a handler without
\* outstanding calls, and JoinThreadWorkItem.
ExecuteReturns(t) ==
    /\ pc[t] = "execute"
    /\ \/ \E h \in Handlers : /\ item[t] = <<"finished", h>>
                              /\ closed' = [closed EXCEPT ![h] = "finished"]
       \/ \E x \in Threads : /\ item[t] = <<"join", x>> /\ pc[x] = "ended"
                             /\ UNCHANGED closed
    /\ item' = [item EXCEPT ![t] = None]
    /\ ReturnFromIO(t)
    /\ UNCHANGED <<pool, destroyed, batch, queueVars, registered, toArrive, pending>>

\* Items that do: finished() of a handler with outstanding calls,
\* ShutdownWorkItem, and likewise DispatchWorkItem.
ExecuteDispatches(t) ==
    /\ pc[t] = "execute"
    /\ \/ \E h \in Handlers : /\ item[t] = <<"finished", h>>
                              /\ closed' = [closed EXCEPT ![h] = "finished"]
       \/ item[t] = <<"shutdown">> /\ UNCHANGED closed
    /\ item' = [item EXCEPT ![t] = None]
    /\ IoCompleted(t, "upcall")
    /\ UNCHANGED <<pool, destroyed, handlers, current, batch, queueVars, registered, toArrive,
                   pending>>

-----------------------------------------------------------------------------
(***************************************************************************)
(* Calls by the handlers, from any thread, and by Instance::destroy()      *)
(***************************************************************************)

\* A message arrives on the socket.
Arrive(h) ==
    /\ closed[h] # "finished" /\ toArrive[h] > 0
    /\ toArrive' = [toArrive EXCEPT ![h] = @ - 1]
    /\ pending' = [pending EXCEPT ![h] = @ + 1]
    /\ UNCHANGED <<pool, destroyed, poolVars, item, batch, pc, queueVars, registered, disabled,
                   closed>>

\* _register() and unregister(): the handler is activated or held.
Update(h) ==
    /\ ~destroyed /\ closed[h] = "open"
    /\ registered' = IF h \in registered THEN registered \ {h} ELSE registered \cup {h}
    /\ UNCHANGED <<pool, destroyed, poolVars, item, batch, pc, queueVars, disabled, envVars>>

\* Mutant: finish() leaves the handler in the selector.
FinishRegistered(h) ==
    /\ ~destroyed /\ closed[h] = "open"
    /\ closed' = [closed EXCEPT ![h] = "finishing"]
    /\ QueueItem(<<"finished", h>>)
    /\ handlers' = <<>>
    /\ UNCHANGED <<pool, destroyed, inUse, inUseIO, promote, leaders, current, threads, item,
                   batch, pc, registered, disabled, toArrive, pending>>

\* finish(): the handler has closed.
Finish(h) ==
    /\ ~destroyed /\ closed[h] = "open"
    /\ closed' = [closed EXCEPT ![h] = "finishing"]
    /\ registered' = registered \ {h}
    /\ QueueItem(<<"finished", h>>)
    /\ handlers' = <<>>
    /\ UNCHANGED <<pool, destroyed, inUse, inUseIO, promote, leaders, current, threads, item,
                   batch, pc, disabled, toArrive, pending>>

\* destroy(), when all connections have finished.
Destroy ==
    /\ ~destroyed /\ \A h \in Handlers : closed[h] = "finished"
    /\ destroyed' = TRUE
    /\ pipe' = pipe + 1
    /\ UNCHANGED <<pool, poolVars, item, batch, pc, workItems, registered, disabled, envVars>>

-----------------------------------------------------------------------------
Run(t) ==
    \/ Follow(t) \/ Select(t) \/ SelectTimedOut(t) \/ FinishSelect(t)
    \/ MessageReturns(t) \/ MessageDispatches(t)
    \/ TakeItem(t) \/ ThreadPoolDestroyed(t) \/ ExecuteReturns(t) \/ ExecuteDispatches(t)

Next ==
    \/ \E t \in Threads : Run(t) \/ Shrink(t) \/ UpcallReturns(t)
    \/ \E h \in Handlers : Arrive(h) \/ Update(h) \/ Finish(h)
    \/ Destroy

Spec == Init /\ [][Next]_vars

\* The threads of the pool run.  An upcall need not return, and no time-out
\* need expire.
Fairness == \A t \in Threads : WF_vars(Run(t))

FairSpec == Spec /\ Fairness

-----------------------------------------------------------------------------
(***************************************************************************)
(* Properties                                                              *)
(***************************************************************************)

\* The values of the variables.
TypeOK ==
    /\ pool \in Pools /\ destroyed \in BOOLEAN
    /\ threads \subseteq Threads /\ leaders \subseteq Threads
    /\ inUse \in Nat /\ inUseIO \in Nat /\ pipe \in Nat
    /\ handlers \in Seq(Sources) /\ batch \in [Threads -> Seq(Sources)]
    /\ promote \in BOOLEAN
    /\ current \in [Threads -> Sources \cup {None}]
    /\ item \in [Threads -> Items \cup {None}]
    /\ pc \in [Threads -> Places]
    /\ workItems \in Seq(Items)
    /\ registered \subseteq Sources /\ disabled \subseteq Sources
    /\ toArrive \in [Handlers -> Nat] /\ pending \in [Handlers -> Nat]
    /\ closed \in [Handlers -> {"open", "finishing", "finished"}]

Alive == {t \in Threads : pc[t] # "ended"}
At(P) == {t \in Threads : pc[t] \in P}

\* There is one leader, or a follower may become one, as promoteFollower()
\* asserts; the leader alone selects, and nobody does I/O then.
OneLeader ==
    /\ Cardinality(leaders) = (IF promote THEN 0 ELSE 1)
    /\ At({"select", "timedout", "selected"}) \subseteq leaders
    /\ (Many /\ At({"select", "timedout", "selected"}) # {})
          => At(IO) = {} /\ handlers = <<>>

\* The counters by which threads are promoted and the pool grows are exact:
\* threads in I/O, at most sizeIO of them, and threads in upcalls.
ThreadsCounted ==
    Many => /\ inUseIO = Cardinality(At(IO)) /\ inUseIO <= pool.sizeIO
            /\ ~destroyed => inUse = Cardinality(At({"upcall"}))

\* The bookkeeping by which threads are promoted and the pool grows.
Consistent == TypeOK /\ OneLeader /\ ThreadsCounted

\* After finished() a handler may be gone: no thread is or will be in the I/O part
\* of its message(), although the lists of ready handlers hold plain pointers.
FinishedIsLast ==
    \A h \in Handlers : closed[h] = "finished" =>
        /\ \A t \in Threads : pc[t] = "message" => current[t] # h
        /\ \A i \in DOMAIN handlers : handlers[i] # h
        /\ \A t \in Threads : \A i \in DOMAIN batch[t] : batch[t][i] # h

\* ThreadPool.Serialize: no two upcalls of one handler at a time.
Serialized ==
    pool.serialize /\ ~destroyed =>
        \A t, u \in At({"upcall"}) : t # u => current[t] # current[u]

\* The pool grows in time and does not shrink too much: while fewer than sizeMax
\* threads are in upcalls there is another one to do the I/O.
ThreadAvailable ==
    ~destroyed /\ Cardinality(At({"upcall"})) < pool.sizeMax
        => threads \ At({"upcall"}) # {}

\* A handler that is ready is served, and so is the work queue, although upcalls
\* may block for ever: unless all the threads that the pool may have are in upcalls.
AllInUse == Cardinality(At({"upcall"})) = pool.sizeMax
ReadyServed ==
    \A s \in Sources : s \in Ready /\ ~destroyed ~> s \notin Ready \/ AllInUse \/ destroyed

\* After destroy() every thread ends but those that are in an upcall.  With
\* Serialize an upcall made by a work item disables the work queue, and with it
\* the end of all the other threads, until it returns.
ThreadsEnd == destroyed ~> \/ At({"upcall", "ended"}) = Threads
                           \/ WorkQueue \in disabled
=============================================================================
