------------------------ MODULE IceConnectionFactory ------------------------
(***************************************************************************)
(* The outgoing connection factory of the Ice run time                     *)
(* (cpp/src/Ice/ConnectionFactory.cpp): it shares connections between the  *)
(* requests for the same connectors and lets only one request at a time    *)
(* connect to a connector.                                                 *)
(*                                                                         *)
(* An asynchronous request is a ConnectCallback, called by whatever thread *)
(* has something for it; a synchronous one is a thread in create().  A     *)
(* section under the factory's mutex is one step.  The calls that a thread *)
(* makes one after the other for the callbacks of finishGetConnection()    *)
(* are steps of these callbacks, in any order.                             *)
(*                                                                         *)
(* An endpoint stands for its connectors, which are tried in any order     *)
(* (they are shuffled unless the endpoint selection is "Ordered").         *)
(* Connections are as much of ConnectionI as the factory sees.  Overrides, *)
(* compression, adapters and the flushing of batch requests are left out.  *)
(***************************************************************************)
EXTENDS Naturals, FiniteSets

CONSTANTS
    Async, Sync,   \* the requests
    Destroyer,     \* the thread in Instance::destroy()
    Connectors,
    Resolutions,   \* what the endpoints of each request may be resolved to: sets of
                   \* connectors, some without those of an endpoint that was not
    Ids,           \* bound: names for connections, used again
    Fragile,       \* bound: the connectors whose connections may be lost once established
    None

Requests == Async \cup Sync

ASSUME RequestsAssumption ==
    /\ IsFiniteSet(Requests) /\ Async \cap Sync = {} /\ Destroyer \notin Requests
    /\ \A r \in Requests : Resolutions[r] # {} /\ Resolutions[r] \subseteq (SUBSET Connectors) \ {{}}
    /\ Fragile \subseteq Connectors /\ IsFiniteSet(Connectors) /\ None \notin Ids \cup Connectors

VARIABLES
    destroyed,            \* _destroyed
    connections,          \* _connections and _connectionsByEndpoint
    reaper,               \* the connections in _reaper
    pending,              \* _pending: callbacks by connector
    pendingConnectCount,  \* _pendingConnectCount
    connectors,           \* _connectors: what each request may still use
    iter,                 \* those it has not tried yet, from _iter on
    at,                   \* where each request is
    result,               \* what it is to be answered: "connection" or "exception"
    answers,              \* how often it was answered
    conn,                 \* the connection that it starts
    state,                \* of each connection
    connectorOf,          \* the connector of each connection
    byDestroy,            \* connections closed with CommunicatorDestroyedException
    waiting,              \* threads in wait() of the factory's monitor
    toFinish              \* the copy of _connections in waitUntilFinished()

factoryVars == <<destroyed, connections, reaper, pending, pendingConnectCount>>
requestVars == <<connectors, iter, at, result, answers, conn>>
connVars    == <<state, connectorOf, byDestroy>>
vars == <<factoryVars, requestVars, connVars, waiting, toFinish>>

Places == {"idle",
           "count",      \* a callback, before incPendingConnectCount()
           "resolve",    \* before all endpoints have answered
           "get",        \* before getConnection()
           "again",      \* a thread in the loop of getConnection()
           "pending",    \* a callback in _pending
           "connect",    \* before connect() and createConnection()
           "starting",   \* its connection is being validated
           "started",    \* its connection has been
           "failed",     \* no connector is left
           "answer",     \* a counted callback, before it is answered
           "decrement",  \* before decPendingConnectCount()
           "reply",      \* another request, before it is answered
           "answered",
           "running", "wait", "finish", "finished"}   \* the destroyer

\* Where a request is the one that connects to its connectors, and where it is counted.
Connecting == {"connect", "starting", "started", "failed"}
Counted    == {"resolve", "get", "pending", "answer", "decrement"} \cup Connecting

States == {"none", "starting", "active", "closed", "finished"}

Init ==
    /\ destroyed = FALSE /\ connections = {} /\ reaper = {}
    /\ pending = <<>> /\ pendingConnectCount = 0
    /\ connectors = [r \in Requests |-> {}] /\ iter = [r \in Requests |-> {}]
    /\ at = [r \in Requests \cup {Destroyer} |-> IF r = Destroyer THEN "running" ELSE "idle"]
    /\ result = [r \in Requests |-> None] /\ answers = [r \in Requests |-> 0]
    /\ conn = [r \in Requests |-> None]
    /\ state = [i \in Ids |-> "none"] /\ connectorOf = [i \in Ids |-> None]
    /\ byDestroy = {}
    /\ waiting = {} /\ toFinish = {}

-----------------------------------------------------------------------------
(***************************************************************************)
(* Parts of steps                                                          *)
(***************************************************************************)

Wanted(r) == UNION Resolutions[r]

Runs(t, place) == at[t] = place /\ t \notin waiting
Goes(t, place) == at' = [at EXCEPT ![t] = place]
NotifyAll == waiting' = {}

\* isActiveOrHolding().
Usable(C) == \E i \in connections : connectorOf[i] \in C /\ state[i] = "active"

\* Request r has its result, which create() returns or getConnection() gives to the
\* callback.
Answer(r, res) ==
    /\ Goes(r, IF r \in Async /\ at[r] \in Counted THEN "answer" ELSE "reply")
    /\ result' = [result EXCEPT ![r] = res]
    /\ UNCHANGED <<connectors, iter, answers, conn>>

-----------------------------------------------------------------------------
(***************************************************************************)
(* A request                                                               *)
(***************************************************************************)

\* create() and its findConnection().
Create(r) ==
    /\ Runs(r, "idle")
    /\ \/ destroyed /\ Answer(r, "exception")
       \/ ~destroyed /\ Usable(Wanted(r)) /\ Answer(r, "connection")
       \/ /\ ~destroyed /\ ~Usable(Wanted(r))
          /\ Goes(r, IF r \in Async THEN "count" ELSE "resolve")
          /\ UNCHANGED <<connectors, iter, result, answers, conn>>
    /\ UNCHANGED <<factoryVars, connVars, waiting, toFinish>>

\* getConnectors() with incPendingConnectCount().
GetConnectors(r) ==
    /\ Runs(r, "count")
    /\ \/ /\ destroyed
          /\ Answer(r, "exception")
          /\ UNCHANGED pendingConnectCount
       \/ /\ ~destroyed
          /\ pendingConnectCount' = pendingConnectCount + 1
          /\ Goes(r, "resolve")
          /\ UNCHANGED <<connectors, iter, result, answers, conn>>
    /\ UNCHANGED <<destroyed, connections, reaper, pending, connVars, waiting, toFinish>>

\* connectors() or exception() for the last endpoint: some or all host names may not be
\* resolved, and the connectors may be shuffled.
Resolve(r) ==
    /\ Runs(r, "resolve")
    /\ \/ Answer(r, "exception")
       \/ \E cs \in Resolutions[r] :
             /\ connectors' = [connectors EXCEPT ![r] = cs]
             /\ Goes(r, "get")
             /\ UNCHANGED <<iter, result, answers, conn>>
    /\ UNCHANGED <<factoryVars, connVars, waiting, toFinish>>

\* getConnection() reaps when it is entered.  A connection that nobody starts or maps
\* any more is gone.
Reap(r) ==
    LET old  == IF at[r] = "get" THEN reaper ELSE {}
        gone == {i \in old : \A x \in Requests : conn[x] # i} IN
    /\ connections' = connections \ old /\ reaper' = reaper \ old
    /\ state' = [i \in Ids |-> IF i \in gone THEN "none" ELSE state[i]]
    /\ connectorOf' = [i \in Ids |-> IF i \in gone THEN None ELSE connectorOf[i]]
    /\ byDestroy' = byDestroy \ gone

\* addToPending(): the connectors that are pending while r connects to one of them.
\* Mutant: only one of them.
RegistersFirst(r) == {CHOOSE c \in connectors[r] : TRUE}
Registers(r) == connectors[r]

\* Its loop: looks for a connection to a connector to which nobody connects, and else
\* waits for those who do or begins to connect (addToPending()).
GetConnection(r) ==
    LET mine == connectors[r]
        busy == mine \cap DOMAIN pending IN
    /\ Runs(r, "get") \/ Runs(r, "again")
    /\ \/ /\ destroyed
          /\ Answer(r, "exception")
          /\ UNCHANGED <<factoryVars, connVars, waiting>>
       \/ /\ ~destroyed
          /\ Reap(r)
          /\ UNCHANGED <<destroyed, pendingConnectCount>>
          /\ \/ /\ Usable(mine \ busy)
                /\ Answer(r, "connection")
                /\ UNCHANGED <<pending, waiting>>
             \/ /\ ~Usable(mine \ busy) /\ busy # {} /\ r \in Async
                /\ pending' = [c \in DOMAIN pending |->
                                  IF c \in busy THEN pending[c] \cup {r} ELSE pending[c]]
                /\ Goes(r, "pending")
                /\ UNCHANGED <<connectors, iter, result, answers, conn, waiting>>
             \/ /\ ~Usable(mine \ busy) /\ busy # {} /\ r \in Sync
                /\ waiting' = waiting \cup {r}
                /\ Goes(r, "again")
                /\ UNCHANGED <<pending, connectors, iter, result, answers, conn>>
             \/ /\ ~Usable(mine \ busy) /\ busy = {}
                /\ pending' = [c \in DOMAIN pending \cup Registers(r) |->
                                  IF c \in DOMAIN pending THEN pending[c] ELSE {}]
                /\ Goes(r, "connect")
                /\ iter' = [iter EXCEPT ![r] = connectors[r]]
                /\ UNCHANGED <<connectors, result, answers, conn, waiting>>
    /\ UNCHANGED toFinish

\* After a failure, the next connector of those left or finishGetConnection().
NextConnector(r, left, noNeed) == Goes(r, IF noNeed \/ left = {} THEN "failed" ELSE "connect")

\* nextConnector(), or the body of the loop in create(), with createConnection().
CreateConnection(r) ==
    LET free == {i \in Ids \ connections : \A x \in Requests : conn[x] # i} IN
    /\ Runs(r, "connect")
    /\ \E c \in iter[r] :
          /\ iter' = [iter EXCEPT ![r] = @ \ {c}]
          /\ \/ /\ \/ NextConnector(r, iter[r] \ {c}, FALSE)
                   \/ destroyed /\ NextConnector(r, iter[r] \ {c}, TRUE)
                /\ UNCHANGED <<connections, conn, connVars>>
             \/ /\ ~destroyed /\ free # {}
                /\ LET i == CHOOSE x \in free : TRUE IN
                   /\ connections' = connections \cup {i}
                   /\ conn' = [conn EXCEPT ![r] = i]
                   /\ state' = [state EXCEPT ![i] = "starting"]
                   /\ connectorOf' = [connectorOf EXCEPT ![i] = c]
                /\ Goes(r, "starting")
                /\ UNCHANGED byDestroy
    /\ UNCHANGED <<destroyed, reaper, pending, pendingConnectCount, connectors, result, answers,
                   waiting, toFinish>>

\* The connection has been validated.
Started(r) ==
    /\ Runs(r, "starting") /\ state[conn[r]] = "starting"
    /\ state' = [state EXCEPT ![conn[r]] = "active"]
    /\ Goes(r, "started")
    /\ UNCHANGED <<factoryVars, connectors, iter, result, answers, conn, connectorOf, byDestroy,
                   waiting, toFinish>>

\* connectionStartFailed(), or the exception of start(), which is thrown when the
\* connection has finished.
StartFailed(r) ==
    /\ \/ r \in Async /\ Runs(r, "starting") /\ state[conn[r]] \in {"closed", "finished"}
       \/ r \in Sync /\ (Runs(r, "starting") \/ Runs(r, "started")) /\ state[conn[r]] = "finished"
    /\ NextConnector(r, iter[r], conn[r] \in byDestroy)
    /\ conn' = [conn EXCEPT ![r] = None]
    /\ UNCHANGED <<factoryVars, connectors, iter, result, answers, connVars, waiting, toFinish>>

\* finishGetConnection(): those that waited for connectors of r are answered with res,
\* or try again.
Finish(r, answered, retry, res) ==
    /\ at' = [t \in DOMAIN at |-> CASE t \in answered -> IF t \in Async THEN "answer" ELSE "reply"
                                    [] t \in retry    -> "get"
                                    [] OTHER          -> at[t]]
    /\ result' = [t \in Requests |-> IF t \in answered THEN res ELSE result[t]]
    /\ NotifyAll
    /\ UNCHANGED <<destroyed, connections, reaper, pendingConnectCount, iter, answers, connVars,
                   toFinish>>

WaitingFor(C) == UNION {pending[c] : c \in C \cap DOMAIN pending}

\* connectionStartCompleted(), or create(), with the connection.
FinishConnected(r) ==
    LET mine   == connectors[r]
        others == WaitingFor(mine)
        share  == {w \in others : connectorOf[conn[r]] \in connectors[w]} IN
    /\ Runs(r, "started")
    /\ pending' = [c \in DOMAIN pending \ mine |-> pending[c] \ others]
    /\ Finish(r, share \cup {r}, others \ share, "connection")
    /\ conn' = [conn EXCEPT ![r] = None]
    /\ UNCHANGED connectors

\* The same with the exception of the last connector; those that have other connectors
\* try again.
Left(w, r) == connectors[w] \ connectors[r]
Retry(r) == {w \in WaitingFor(connectors[r]) : Left(w, r) # {}}
FinishRemoving(r, removed) ==
    LET others == WaitingFor(connectors[r]) IN
    /\ Runs(r, "failed")
    /\ connectors' = [w \in Requests |-> IF w \in others THEN Left(w, r) ELSE connectors[w]]
    /\ pending' = [c \in DOMAIN pending \ connectors[r] |-> pending[c] \ removed]
    /\ Finish(r, (others \ Retry(r)) \cup {r}, Retry(r), "exception")
    /\ UNCHANGED conn
\* Mutant: they are still in _pending for their other connectors.
FinishFailedOnly(r) == FinishRemoving(r, {})
FinishFailed(r) == FinishRemoving(r, Retry(r))

\* The request is answered, and has no more use for its connectors.
Reply(r) ==
    /\ Runs(r, "reply") \/ Runs(r, "answer")
    /\ Goes(r, IF at[r] = "answer" THEN "decrement" ELSE "answered")
    /\ answers' = [answers EXCEPT ![r] = @ + 1]
    /\ connectors' = [connectors EXCEPT ![r] = {}]
    /\ iter' = [iter EXCEPT ![r] = {}]
    /\ result' = [result EXCEPT ![r] = None]
    /\ UNCHANGED <<factoryVars, conn, connVars, waiting, toFinish>>

Decrement(r, last) ==
    /\ Runs(r, "decrement")
    /\ pendingConnectCount' = pendingConnectCount - 1
    /\ waiting' = IF destroyed /\ last THEN {} ELSE waiting
    /\ Goes(r, "answered")
    /\ UNCHANGED <<destroyed, connections, reaper, pending, connectors, iter, result, answers,
                   conn, connVars, toFinish>>
\* Mutant: the count is tested before it is decremented.
DecPendingConnectCountLate(r) == Decrement(r, pendingConnectCount = 0)
DecPendingConnectCount(r) == Decrement(r, pendingConnectCount' = 0)

-----------------------------------------------------------------------------
(***************************************************************************)
(* Connections                                                             *)
(***************************************************************************)

\* A connection is lost or closed.
Close(i) ==
    /\ state[i] = "starting" \/ (state[i] = "active" /\ connectorOf[i] \in Fragile)
    /\ state' = [state EXCEPT ![i] = "closed"]
    /\ UNCHANGED <<factoryVars, requestVars, connectorOf, byDestroy, waiting, toFinish>>

\* finish() ends by adding the connection to the reaper.
FinishConnection(i) ==
    /\ state[i] = "closed"
    /\ state' = [state EXCEPT ![i] = "finished"]
    /\ reaper' = reaper \cup {i}
    /\ UNCHANGED <<destroyed, connections, pending, pendingConnectCount, requestVars, connectorOf,
                   byDestroy, waiting, toFinish>>

-----------------------------------------------------------------------------
(***************************************************************************)
(* The destruction of the communicator                                     *)
(***************************************************************************)

Destroy ==
    LET live == {i \in connections : state[i] \in {"starting", "active"}} IN
    /\ Runs(Destroyer, "running")
    /\ destroyed' = TRUE
    /\ state' = [i \in Ids |-> IF i \in live THEN "closed" ELSE state[i]]
    /\ byDestroy' = byDestroy \cup live
    /\ NotifyAll
    /\ Goes(Destroyer, "wait")
    /\ UNCHANGED <<connections, reaper, pending, pendingConnectCount, connectors, iter, result,
                   answers, conn, connectorOf, toFinish>>

\* waitUntilFinished(): its first section.
WaitWhile(more) ==
    /\ Runs(Destroyer, "wait")
    /\ \/ /\ more
          /\ waiting' = waiting \cup {Destroyer}
          /\ UNCHANGED <<at, toFinish>>
       \/ /\ ~more
          /\ toFinish' = connections
          /\ Goes(Destroyer, "finish")
          /\ UNCHANGED waiting
    /\ UNCHANGED <<factoryVars, connectors, iter, result, answers, conn, connVars>>
\* Mutant: it does not wait for the callbacks to be answered.
WaitUntilNonePending == WaitWhile(DOMAIN pending # {})
WaitUntilFinished == WaitWhile(DOMAIN pending # {} \/ pendingConnectCount > 0)

\* Its last section, when the connections have finished.
Finished ==
    /\ Runs(Destroyer, "finish")
    /\ \A i \in toFinish : state[i] = "finished"
    /\ connections' = {} /\ reaper' = {}
    /\ Goes(Destroyer, "finished")
    /\ UNCHANGED <<destroyed, pending, pendingConnectCount, connectors, iter, result, answers,
                   conn, connVars, waiting, toFinish>>

-----------------------------------------------------------------------------
Proceed(r) == \/ GetConnectors(r) \/ Resolve(r) \/ GetConnection(r) \/ CreateConnection(r)
              \/ Started(r) \/ StartFailed(r) \/ FinishConnected(r) \/ FinishFailed(r)
              \/ Reply(r) \/ DecPendingConnectCount(r)

EndDestroy == WaitUntilFinished \/ Finished

Next == \/ \E r \in Requests : Create(r) \/ Proceed(r)
        \/ \E i \in Ids : Close(i) \/ FinishConnection(i)
        \/ Destroy \/ EndDestroy

Spec == Init /\ [][Next]_vars

\* Threads run, hosts are resolved, validation has a time limit and closed connections
\* are finished: as long as some of this can be done some of it is (nothing can be done
\* for ever).  Nobody has to make a request or to destroy the communicator.
Fairness ==
    WF_vars(\/ \E r \in Requests : Proceed(r) \/ (at[r] = "starting" /\ Close(conn[r]))
            \/ \E i \in Ids : FinishConnection(i)
            \/ EndDestroy)

FairSpec == Spec /\ Fairness

-----------------------------------------------------------------------------
(***************************************************************************)
(* Properties                                                              *)
(***************************************************************************)

TypeOK ==
    /\ destroyed \in BOOLEAN
    /\ connections \subseteq Ids /\ reaper \subseteq connections
    /\ pendingConnectCount \in Nat
    /\ connectors \in [Requests -> SUBSET Connectors]
    /\ iter \in [Requests -> SUBSET Connectors]
    /\ at \in [Requests \cup {Destroyer} -> Places]
    /\ result \in [Requests -> {"connection", "exception", None}]
    /\ answers \in [Requests -> {0, 1}] /\ conn \in [Requests -> Ids \cup {None}]
    /\ state \in [Ids -> States] /\ connectorOf \in [Ids -> Connectors \cup {None}]
    /\ byDestroy \subseteq Ids /\ toFinish \subseteq Ids
    /\ waiting \subseteq Sync \cup {Destroyer}

\* _pending has an entry for a connector exactly while one request, and only one,
\* connects to it; the callbacks in it are those that wait, each in an entry of one of
\* its connectors; and _pendingConnectCount counts the callbacks that are under way.
\* A callback may be in the entries of several requests, and each of these may end first.
Consistent ==
    /\ TypeOK
    /\ \A c \in Connectors :
          Cardinality({r \in Requests : at[r] \in Connecting /\ c \in connectors[r]})
              = IF c \in DOMAIN pending THEN 1 ELSE 0
    /\ \A c \in DOMAIN pending :
          pending[c] \subseteq {r \in Async : at[r] = "pending" /\ c \in connectors[r]}
    /\ \A r \in Async : at[r] = "pending" => \E c \in DOMAIN pending : r \in pending[c]
    /\ pendingConnectCount = Cardinality({r \in Async : at[r] \in Counted})

\* There are never two connections to one connector that are used or being established.
OneConnection ==
    \A i, j \in connections :
        i # j /\ {state[i], state[j]} \subseteq {"starting", "active"}
            => connectorOf[i] # connectorOf[j]

\* "We also wait until there are no pending connections anymore.  Only then we can be
\* sure the _connections contains all connections" (ConnectionFactory.cpp:135), and
\* "this ensures that the communicator client thread pool isn't destroyed too soon"
\* (line 541): no callback is answered and no connection is made once waitUntilFinished()
\* has got past its first section, and in the end the reaper has all connections.
QuietOnceFinishing ==
    at[Destroyer] \in {"finish", "finished"} =>
        /\ \A r \in Async : at[r] \notin Counted
        /\ \A r \in Sync : at[r] \notin Connecting
        /\ at[Destroyer] = "finish" => connections = toFinish
        /\ (\A i \in toFinish : state[i] = "finished") => reaper = connections

\* In the end every request that was made has been answered, and waitUntilFinished()
\* has returned if the communicator was destroyed.
EveryoneAnswered ==
    <>[](/\ \A r \in Requests : at[r] \in {"idle", "answered"}
         /\ destroyed => at[Destroyer] = "finished")
=============================================================================
