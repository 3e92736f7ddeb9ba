--------------------------- MODULE IceConnection ----------------------------
(***************************************************************************)
(* The two ends of an Ice connection (cpp/src/Ice/ConnectionI.cpp) over a  *)
(* byte stream: validation, requests and replies in both directions, the   *)
(* send queue, graceful and forced closure, active connection management,  *)
(* failures, and the rule by which a failed call may be sent again         *)
(* (Outgoing.cpp, OutgoingAsync.cpp).  "A" connected, "B" accepted.        *)
(*                                                                         *)
(* Each method runs under the connection's mutex and is one step; upcalls  *)
(* (dispatching a request, the sent and reply callbacks) run without it,   *)
(* counted in _dispatchCount, and end in a step of their own; finish()     *)
(* resolves the calls without the mutex and then takes it, in two steps.   *)
(* A message is written and read as a whole: of a message that is only     *)
(* partly written the peer dispatches nothing.                             *)
(***************************************************************************)
EXTENDS Naturals, Sequences, FiniteSets

CONSTANTS
    Calls,         \* invocations, each made once on this connection
    Caller,        \* the end that makes each call
    Twoway,        \* calls with a reply; the others are oneways
    Async,         \* AMI calls; their sent and reply callbacks are upcalls
    Environments,  \* "graceful": no fault, timeout or forced closure; "faulty"
    Ops,           \* what the applications do in each: <<operation, end>>
    ReadAndWrite,  \* whether the selector reports a socket ready for both in
                   \* one event (epoll, poll) or for each alone (kqueue, select)
    Capacity       \* messages the transport takes before a write blocks

Ends == {"A", "B"}
Peer(e) == IF e = "A" THEN "B" ELSE "A"

ASSUME CallsAssumption ==
    /\ Caller \in [Calls -> Ends]
    /\ Twoway \subseteq Calls /\ Async \subseteq Calls
ASSUME OpsAssumption ==
    Ops \in [Environments ->
        SUBSET ({"hold", "close", "force", "destroy", "monitor", "wait"} \X Ends)]
ASSUME TransportAssumption ==
    /\ Environments \subseteq {"graceful", "faulty"}
    /\ ReadAndWrite \in BOOLEAN /\ Capacity \in Nat \ {0}

VARIABLES
    environment,   \* which of Environments this behaviour runs in
    state,         \* _state of each end
    exception,     \* _exception, "none" while it is not set
    dispatchCount, \* _dispatchCount
    sendStreams,   \* _sendStreams: messages still to be written, head under way
    written,       \* the head has been written whole, but is not marked as sent
    requests,      \* _requests and _asyncRequests: twoways that wait for a reply
    dispatching,   \* requests received whose dispatch has not finished
    callbacks,     \* sent and reply callbacks that are running
    waiters,       \* threads in close(false) and waitUntilFinished()
    reaped,        \* how often the connection was given to the reaper
    socketOpen,    \* the end has not closed its transceiver
    channel,       \* messages on their way to each end
    outcome,       \* how each call ended
    executions,    \* how often each call was dispatched
    torn,          \* history: written requests that finish() reported as not sent
    assertFailed   \* an assert() of the code has failed: the program stops

connection == <<state, exception, sendStreams, channel>>
callVars   == <<outcome, executions, torn>>
vars == <<environment, state, exception, dispatchCount, sendStreams, written, requests, dispatching, callbacks,
          waiters, reaped, socketOpen, channel, callVars, assertFailed>>

States == {"NotValidated", "Holding", "Active", "Closing", "Closed", "Finished"}
\* "Lost" stands for the failures of the network, timeouts among them, "Destroyed"
\* for the exceptions of destroy().
Exceptions == {"none", "CloseConnection", "Forced", "Destroyed", "Idle", "Lost"}
Open   == {"Holding", "Active"}
Ending == {"Closed", "Finished"}              \* _state >= StateClosed
Running == {"Holding", "Active", "Closing"}   \* validated, transceiver in use
Reading == {"Active", "Closing"}              \* registered for reading

Request(c) == [type |-> "request", call |-> c]
Reply(c)   == [type |-> "reply", call |-> c]
Messages   == [type : {"request", "reply"}, call : Calls]
              \cup {[type |-> "validate"], [type |-> "close"]}
Validate == [type |-> "validate"]
Close    == [type |-> "close"]

Elems(s) == {s[i] : i \in DOMAIN s}
Prefix(s, n) == SubSeq(s, 1, n)
Suffix(s, n) == SubSeq(s, n + 1, Len(s))
Requested(ms) == {m.call : m \in {x \in Elems(ms) : x.type = "request"}}

\* The messages of e that the transceiver has not taken yet.
Unwritten(e) == IF written[e] THEN Tail(sendStreams[e]) ELSE sendStreams[e]

Threads == {"close", "finish"}
WaiterStates == {"idle", "waiting", "notified", "done"}

Faulty == environment = "faulty"
May(op, e) == <<op, e>> \in Ops[environment]

Init ==
    /\ environment \in Environments
    /\ state = [e \in Ends |-> "NotValidated"]
    /\ exception = [e \in Ends |-> "none"]
    /\ dispatchCount = [e \in Ends |-> 0]
    /\ sendStreams = [e \in Ends |-> <<>>]
    /\ written = [e \in Ends |-> FALSE]
    /\ requests = [e \in Ends |-> {}]
    /\ dispatching = [e \in Ends |-> {}]
    /\ callbacks = [e \in Ends |-> {}]
    /\ waiters = [e \in Ends |-> [t \in Threads |-> "idle"]]
    /\ reaped = [e \in Ends |-> 0]
    /\ socketOpen = [e \in Ends |-> TRUE]
    /\ channel = [e \in Ends |-> <<>>]
    /\ outcome = [c \in Calls |-> "idle"]
    /\ executions = [c \in Calls |-> 0]
    /\ torn = {}
    /\ assertFailed = FALSE

-----------------------------------------------------------------------------
(***************************************************************************)
(* Parts of steps                                                          *)
(***************************************************************************)

\* No assert() has stopped the program.
NoAssertFails == ~assertFailed /\ UNCHANGED <<assertFailed, environment>>

\* Mutants: notify() that wakes one thread only.
WokenFinishOnly(w) == [w EXCEPT !["finish"] = IF @ = "waiting" THEN "notified" ELSE @]
WokenCloseOnly(w) == [w EXCEPT !["close"] = IF @ = "waiting" THEN "notified" ELSE @]

\* notifyAll() on the connection.
Woken(w) == [t \in Threads |-> IF w[t] = "waiting" THEN "notified" ELSE w[t]]
NotifyAll(e, when) ==
    waiters' = IF when THEN [waiters EXCEPT ![e] = Woken(@)] ELSE waiters

\* The exception set first is kept.
Keep(old, new) == IF old = "none" THEN new ELSE old

\* A write fails when the network does or when the peer has closed.
WriteMayFail(e) == Faulty \/ ~socketOpen[Peer(e)]

\* The transceiver takes n messages of ms; those to a closed peer vanish.
Write(e, ms, n) ==
    /\ n = 0 \/ ~socketOpen[Peer(e)] \/ Len(channel[Peer(e)]) + n <= Capacity
    /\ channel' = IF socketOpen[Peer(e)]
                  THEN [channel EXCEPT ![Peer(e)] = @ \o Prefix(ms, n)]
                  ELSE channel

\* sendMessage() of each of ms: behind the queue if there is one, otherwise
\* written until the transport blocks.  s and x are the state and exception
\* of the end at that point; a failed write closes the connection.
SendMessages(e, ms, s, x) ==
    \/ /\ sendStreams[e] # <<>>
       /\ sendStreams' = [sendStreams EXCEPT ![e] = @ \o ms]
       /\ state' = [state EXCEPT ![e] = s] /\ exception' = [exception EXCEPT ![e] = x]
       /\ UNCHANGED channel
    \/ /\ sendStreams[e] = <<>>
       /\ \E n \in 0..Len(ms) :
            /\ Write(e, ms, n)
            /\ sendStreams' = [sendStreams EXCEPT ![e] = Suffix(ms, n)]
       /\ state' = [state EXCEPT ![e] = s] /\ exception' = [exception EXCEPT ![e] = x]
    \/ /\ sendStreams[e] = <<>> /\ WriteMayFail(e)
       /\ \E n \in 0..Len(ms) - 1 : Write(e, ms, n)
       /\ state' = [state EXCEPT ![e] = "Closed"]
       /\ exception' = [exception EXCEPT ![e] = Keep(x, "Lost")]
       /\ UNCHANGED sendStreams

\* Mutants: the close message goes out while requests are dispatched, or is
\* forgotten when the last dispatch ends.
CloseIfIdleAnyCount(s, count) == IF s = "Closing" THEN <<Close>> ELSE <<>>
CloseIfIdleOffByOne(s, count) == IF s = "Closing" /\ count = 1 THEN <<Close>> ELSE <<>>

\* initiateShutdown() is due when the end is Closing and dispatches nothing.
CloseIfIdle(s, count) == IF s = "Closing" /\ count = 0 THEN <<Close>> ELSE <<>>

\* setState(StateClosed, x).
SetClosed(e, x) ==
    /\ state' = [state EXCEPT ![e] = IF @ \in Ending THEN @ ELSE "Closed"]
    /\ exception' = [exception EXCEPT ![e] = Keep(@, x)]
    /\ NotifyAll(e, state[e] \notin Ending)
    /\ UNCHANGED <<sendStreams, channel>>

\* setState(StateClosing, x): before validation it closes at once.
SetClosing(e, x) ==
    \/ /\ state[e] = "NotValidated"
       /\ state' = [state EXCEPT ![e] = "Closed"]
       /\ exception' = [exception EXCEPT ![e] = x]
       /\ UNCHANGED <<sendStreams, channel>>
    \/ /\ state[e] \in Open
       /\ SendMessages(e, CloseIfIdle("Closing", dispatchCount[e]), "Closing", x)
    \/ /\ state[e] \in Ending \cup {"Closing"}
       /\ UNCHANGED connection

\* Mutants: the end of an upcall is not counted when the connection has closed
\* meanwhile, or leaves the reaping to finish().
CountDownWhileOpen(e) ==
    /\ dispatchCount' = IF state[e] \in Ending THEN dispatchCount
                        ELSE [dispatchCount EXCEPT ![e] = @ - 1]
    /\ UNCHANGED reaped
CountDownNoReap(e) ==
    /\ dispatchCount' = [dispatchCount EXCEPT ![e] = @ - 1]
    /\ UNCHANGED reaped

\* A dispatch or callback ended: the last one of a finished connection
\* gives it to the reaper, and the last one of any wakes the waiters.
CountDown(e) ==
    /\ dispatchCount' = [dispatchCount EXCEPT ![e] = @ - 1]
    /\ reaped' = IF dispatchCount[e] = 1 /\ state[e] = "Finished"
                 THEN [reaped EXCEPT ![e] = @ + 1] ELSE reaped

-----------------------------------------------------------------------------
(***************************************************************************)
(* start(), activate(), hold()                                             *)
(***************************************************************************)

\* validate() of the accepting end: it sends the validation message.
Accept ==
    /\ state["B"] = "NotValidated"
    /\ SendMessages("B", <<Validate>>, "Holding", "none")
    /\ sendStreams' = sendStreams
    /\ NotifyAll("B", TRUE)
    /\ UNCHANGED <<dispatchCount, requests, dispatching, callbacks, reaped, socketOpen,
                   callVars>>
    /\ NoAssertFails /\ UNCHANGED written

\* validate() of the connecting end: it waits for that message.
Connect ==
    /\ state["A"] = "NotValidated" /\ channel["A"] # <<>>
    /\ state' = [state EXCEPT !["A"] = "Holding"]
    /\ channel' = [channel EXCEPT !["A"] = Tail(@)]
    /\ NotifyAll("A", TRUE)
    /\ UNCHANGED <<exception, dispatchCount, sendStreams, requests, dispatching, callbacks,
                   reaped, socketOpen, callVars>>
    /\ NoAssertFails /\ UNCHANGED written

\* The factory and the object adapter activate and hold; in any other state
\* setState() does nothing.
Activate(e) ==
    /\ state[e] = "Holding"
    /\ state' = [state EXCEPT ![e] = "Active"]
    /\ NotifyAll(e, TRUE)
    /\ UNCHANGED <<exception, dispatchCount, sendStreams, requests, dispatching, callbacks,
                   reaped, socketOpen, channel, callVars>>
    /\ NoAssertFails /\ UNCHANGED written

Hold(e) ==
    /\ May("hold", e) /\ state[e] = "Active"
    /\ state' = [state EXCEPT ![e] = "Holding"]
    /\ NotifyAll(e, TRUE)
    /\ UNCHANGED <<exception, dispatchCount, sendStreams, requests, dispatching, callbacks,
                   reaped, socketOpen, channel, callVars>>
    /\ NoAssertFails /\ UNCHANGED written

-----------------------------------------------------------------------------
(***************************************************************************)
(* Calls                                                                   *)
(***************************************************************************)

\* sendRequest(), sendAsyncRequest() on a connection that has been refused
\* further requests: LocalExceptionWrapper(ex, true), the call is retried.
InvokeRefused(c) ==
    LET e == Caller[c] IN
    /\ outcome[c] = "idle" /\ exception[e] # "none"
    /\ outcome' = [outcome EXCEPT ![c] = "retry"]
    /\ UNCHANGED <<connection, dispatchCount, requests, dispatching, callbacks, waiters,
                   reaped, socketOpen, executions, torn>>
    /\ NoAssertFails /\ UNCHANGED written

\* sendRequest(), sendAsyncRequest(): a twoway waits for its reply; a oneway
\* is done when it is written.  If the write fails the call was not sent.
Invoke(c) ==
    LET e == Caller[c] IN
    /\ outcome[c] = "idle" /\ exception[e] = "none" /\ state[e] \in Open
    /\ SendMessages(e, <<Request(c)>>, state[e], "none")
    /\ IF state'[e] = "Closed"
       THEN /\ outcome' = [outcome EXCEPT ![c] = "retry"]
            /\ UNCHANGED requests
       ELSE /\ outcome' = [outcome EXCEPT ![c] =
                              IF c \in Twoway \/ sendStreams'[e] # <<>>
                              THEN "pending" ELSE "ok"]
            /\ requests' = IF c \in Twoway THEN [requests EXCEPT ![e] = @ \cup {c}]
                           ELSE requests
    /\ NotifyAll(e, state'[e] = "Closed")
    /\ UNCHANGED <<dispatchCount, dispatching, callbacks, reaped, socketOpen, executions, torn>>
    /\ NoAssertFails /\ UNCHANGED written

\* Mutant: a oneway is answered too.
ReplyToAll(c) == <<Reply(c)>>

ReplyTo(c) == IF c \in Twoway THEN <<Reply(c)>> ELSE <<>>

\* dispatch() of a request ended: sendResponse() or sendNoResponse().
DispatchDone(e, c) ==
    /\ c \in dispatching[e]
    /\ dispatching' = [dispatching EXCEPT ![e] = @ \ {c}]
    /\ CountDown(e)
    /\ IF state[e] \in Ending
       THEN UNCHANGED connection
       ELSE SendMessages(e, ReplyTo(c) \o CloseIfIdle(state[e], dispatchCount[e] - 1),
                         state[e], exception[e])
    /\ NotifyAll(e, dispatchCount[e] = 1 \/ state'[e] # state[e])
    /\ UNCHANGED <<requests, callbacks, socketOpen, callVars>>
    /\ NoAssertFails /\ UNCHANGED written

\* invokeException(): the dispatch failed inside the run time.
DispatchFailed(e, c) ==
    /\ Faulty /\ c \in dispatching[e]
    /\ dispatching' = [dispatching EXCEPT ![e] = @ \ {c}]
    /\ CountDown(e)
    /\ state' = [state EXCEPT ![e] = IF @ \in Ending THEN @ ELSE "Closed"]
    /\ exception' = [exception EXCEPT ![e] = Keep(@, "Lost")]
    /\ NotifyAll(e, TRUE)
    /\ UNCHANGED <<sendStreams, channel, requests, callbacks, socketOpen, callVars>>
    /\ NoAssertFails /\ UNCHANGED written

\* The end of dispatch() after sent callbacks, or after the reply of an
\* asynchronous call, which completes the call.
CallbackDone(e, cb) ==
    /\ cb \in callbacks[e]
    /\ callbacks' = [callbacks EXCEPT ![e] = @ \ {cb}]
    /\ outcome' = [c \in Calls |-> IF cb.type = "reply" /\ c \in cb.calls
                                   THEN "ok" ELSE outcome[c]]
    /\ CountDown(e)
    /\ IF state[e] \in Ending
       THEN UNCHANGED connection
       ELSE SendMessages(e, CloseIfIdle(state[e], dispatchCount[e] - 1),
                         state[e], exception[e])
    /\ NotifyAll(e, dispatchCount[e] = 1 \/ state'[e] # state[e])
    /\ UNCHANGED <<requests, dispatching, socketOpen, executions, torn>>
    /\ NoAssertFails /\ UNCHANGED written

-----------------------------------------------------------------------------
(***************************************************************************)
(* message(): the transceiver is ready                                     *)
(***************************************************************************)

\* Mutant: the sent callback is not counted in _dispatchCount.
SentUncounted(e, n) ==
    LET done == Requested(Prefix(sendStreams[e], n))
        cb   == [type |-> "sent", calls |-> done \cap Async] IN
    /\ sendStreams' = [sendStreams EXCEPT ![e] = Suffix(@, n)]
    /\ outcome' = [c \in Calls |-> IF c \in done \ Twoway THEN "ok" ELSE outcome[c]]
    /\ callbacks' = IF cb.calls = {} THEN callbacks ELSE [callbacks EXCEPT ![e] = @ \cup {cb}]
    /\ UNCHANGED dispatchCount

\* sendNextMessage() when n messages at the head have been written: oneways
\* among them are done, AMI calls among them have a sent callback.
Sent(e, n) ==
    LET done == Requested(Prefix(sendStreams[e], n))
        cb   == [type |-> "sent", calls |-> done \cap Async] IN
    /\ sendStreams' = [sendStreams EXCEPT ![e] = Suffix(@, n)]
    /\ outcome' = [c \in Calls |-> IF c \in done \ Twoway THEN "ok" ELSE outcome[c]]
    /\ IF cb.calls = {}
       THEN UNCHANGED <<callbacks, dispatchCount>>
       ELSE /\ callbacks' = [callbacks EXCEPT ![e] = @ \cup {cb}]
            /\ dispatchCount' = [dispatchCount EXCEPT ![e] = @ + 1]

\* The next m of them are written, and n messages are marked as sent: the head
\* may have been written before.
WriteAndMark(e, n) ==
    /\ Write(e, Unwritten(e), IF written[e] THEN n - 1 ELSE n)
    /\ Sent(e, n)
    /\ written' = [written EXCEPT ![e] = FALSE]

WriteReady(e) ==
    /\ state[e] \in Running
    /\ \E n \in 1..Len(sendStreams[e]) : WriteAndMark(e, n)
    /\ UNCHANGED <<state, exception, requests, dispatching, waiters, reaped, socketOpen,
                   executions, torn>>
    /\ NoAssertFails

\* The write fails, of the head (n = 0) or of a message behind it.
WriteFailed(e) ==
    /\ state[e] \in Running /\ WriteMayFail(e)
    /\ \E n \in (IF written[e] THEN 1 ELSE 0)..Len(sendStreams[e]) - 1 : WriteAndMark(e, n)
    /\ state' = [state EXCEPT ![e] = "Closed"]
    /\ exception' = [exception EXCEPT ![e] = Keep(@, "Lost")]
    /\ NotifyAll(e, TRUE)
    /\ UNCHANGED <<requests, dispatching, reaped, socketOpen, executions, torn>>
    /\ NoAssertFails

\* One event for reading and writing: a message has been read, then
\* sendNextMessage() fails on the message behind the head and closes the
\* connection, and parseMessage() asserts that it is not closed.
WriteFailedThenRead(e) ==
    /\ ReadAndWrite /\ state[e] \in Reading /\ channel[e] # <<>>
    /\ WriteMayFail(e) /\ Len(sendStreams[e]) > 1
    /\ ~assertFailed /\ assertFailed' = TRUE
    /\ UNCHANGED <<environment, connection, written, dispatchCount, requests, dispatching,
                   callbacks, waiters, reaped, socketOpen, callVars>>

\* One event for both: the head has been written, then the read would block
\* (a message has arrived in part), and message() returns before
\* sendNextMessage() could mark it as sent.
WriteThenReadBlocks(e) ==
    /\ ReadAndWrite /\ state[e] \in Reading /\ channel[e] # <<>>
    /\ sendStreams[e] # <<>> /\ ~written[e] /\ Write(e, sendStreams[e], 1)
    /\ written' = [written EXCEPT ![e] = TRUE]
    /\ UNCHANGED <<state, exception, sendStreams, dispatchCount, requests, dispatching,
                   callbacks, waiters, reaped, socketOpen, callVars>>
    /\ NoAssertFails

\* The same, but the read fails and closes the connection.
WriteThenReadFails(e) ==
    /\ ReadAndWrite /\ Faulty /\ state[e] \in Reading /\ channel[e] # <<>>
    /\ sendStreams[e] # <<>> /\ ~written[e] /\ Write(e, sendStreams[e], 1)
    /\ written' = [written EXCEPT ![e] = TRUE]
    /\ state' = [state EXCEPT ![e] = "Closed"]
    /\ exception' = [exception EXCEPT ![e] = Keep(@, "Lost")]
    /\ NotifyAll(e, TRUE)
    /\ UNCHANGED <<sendStreams, dispatchCount, requests, dispatching, callbacks, reaped,
                   socketOpen, callVars>>
    /\ NoAssertFails

\* The head of the channel is read.  What the peer sends after it has read
\* our head finds that head marked: the socket is ready for writing by then,
\* and in one event sendNextMessage() comes before parseMessage().
Receive(e, type) ==
    /\ state[e] \in Reading /\ channel[e] # <<>> /\ Head(channel[e]).type = type
    /\ written[e] => channel[Peer(e)] # <<>>
    /\ channel' = [channel EXCEPT ![e] = Tail(@)]

\* parseMessage(), closeConnectionMsg.
ReceiveClose(e) ==
    /\ Receive(e, "close")
    /\ state' = [state EXCEPT ![e] = "Closed"]
    /\ exception' = [exception EXCEPT ![e] = Keep(@, "CloseConnection")]
    /\ NotifyAll(e, TRUE)
    /\ UNCHANGED <<sendStreams, dispatchCount, requests, dispatching, callbacks, reaped,
                   socketOpen, callVars>>
    /\ NoAssertFails /\ UNCHANGED written

\* Mutant: requests are dispatched although the connection is closing.
ReceiveRequestWhenClosing(e) ==
    /\ Receive(e, "request")
    /\ LET c == Head(channel[e]).call IN
         /\ dispatchCount' = [dispatchCount EXCEPT ![e] = @ + 1]
         /\ dispatching' = [dispatching EXCEPT ![e] = @ \cup {c}]
         /\ executions' = [executions EXCEPT ![c] = @ + 1]
    /\ UNCHANGED <<state, exception, sendStreams, requests, callbacks, waiters, reaped,
                   socketOpen, outcome, torn>>
    /\ NoAssertFails /\ UNCHANGED written

\* parseMessage(), requestMsg: ignored when Closing, dispatched otherwise.
ReceiveRequest(e) ==
    /\ Receive(e, "request")
    /\ LET c == Head(channel[e]).call IN
         IF state[e] = "Closing"
         THEN UNCHANGED <<dispatchCount, dispatching, executions>>
         ELSE /\ dispatchCount' = [dispatchCount EXCEPT ![e] = @ + 1]
              /\ dispatching' = [dispatching EXCEPT ![e] = @ \cup {c}]
              /\ executions' = [executions EXCEPT ![c] = @ + 1]
    /\ UNCHANGED <<state, exception, sendStreams, requests, callbacks, waiters, reaped,
                   socketOpen, outcome, torn>>
    /\ NoAssertFails /\ UNCHANGED written

\* parseMessage(), replyMsg: it ends a synchronous call at once; the reply
\* of an asynchronous call is an upcall.
ReceiveReply(e) ==
    /\ Receive(e, "reply")
    /\ LET c == Head(channel[e]).call IN
         /\ requests' = [requests EXCEPT ![e] = @ \ {c}]
         /\ IF c \in Async
            THEN /\ callbacks' = [callbacks EXCEPT ![e] =
                                     @ \cup {[type |-> "reply", calls |-> {c}]}]
                 /\ dispatchCount' = [dispatchCount EXCEPT ![e] = @ + 1]
                 /\ UNCHANGED outcome
            ELSE /\ outcome' = [outcome EXCEPT ![c] = "ok"]
                 /\ UNCHANGED <<callbacks, dispatchCount>>
    /\ NotifyAll(e, TRUE)
    /\ UNCHANGED <<state, exception, sendStreams, dispatching, reaped, socketOpen,
                   executions, torn>>
    /\ NoAssertFails /\ UNCHANGED written

\* read() reports the end of the stream: ConnectionLostException.
EndOfStream(e) ==
    /\ state[e] \in Reading \cup {"NotValidated"}
    /\ channel[e] = <<>> /\ ~socketOpen[Peer(e)]
    /\ SetClosed(e, "Lost")
    /\ UNCHANGED <<dispatchCount, requests, dispatching, callbacks, reaped, socketOpen,
                   callVars>>
    /\ NoAssertFails /\ UNCHANGED written

\* read() fails, or a timeout expires: of connecting, of a write, of a call,
\* or the close timeout.  A connection on hold does not read.
Fault(e) ==
    /\ Faulty
    /\ \/ state[e] \in {"NotValidated"} \cup Reading
       \/ state[e] = "Holding" /\ (sendStreams[e] # <<>> \/ requests[e] # {})
    /\ SetClosed(e, "Lost")
    /\ UNCHANGED <<dispatchCount, requests, dispatching, callbacks, reaped, socketOpen,
                   callVars>>
    /\ NoAssertFails /\ UNCHANGED written

-----------------------------------------------------------------------------
(***************************************************************************)
(* close(), destroy(), monitor(), finish(), waitUntilFinished()            *)
(***************************************************************************)

\* close(false): it waits until no twoway is outstanding, then it closes
\* gracefully.  The waiting thread looks again when it is notified.
CloseGracefully(e) ==
    /\ May("close", e) /\ state[e] # "NotValidated"
    /\ waiters[e]["close"] \in {"idle", "notified"}
    /\ IF requests[e] # {}
       THEN /\ waiters' = [waiters EXCEPT ![e]["close"] = "waiting"]
            /\ UNCHANGED connection
       ELSE /\ SetClosing(e, "CloseConnection")
            /\ waiters' = [waiters EXCEPT ![e] =
                  [(IF state'[e] # state[e] THEN Woken(@) ELSE @) EXCEPT !["close"] = "done"]]
    /\ UNCHANGED <<dispatchCount, requests, dispatching, callbacks, reaped, socketOpen,
                   callVars>>
    /\ NoAssertFails /\ UNCHANGED written

\* close(true).
CloseForcefully(e) ==
    /\ Faulty /\ May("force", e) /\ state[e] \notin Ending \cup {"NotValidated"}
    /\ SetClosed(e, "Forced")
    /\ UNCHANGED <<dispatchCount, requests, dispatching, callbacks, reaped, socketOpen,
                   callVars>>
    /\ NoAssertFails /\ UNCHANGED written

\* destroy(): the adapter is deactivated or the communicator destroyed.
Destroy(e) ==
    /\ May("destroy", e) /\ state[e] \in Open \cup {"NotValidated"}
    /\ SetClosing(e, "Destroyed")
    /\ NotifyAll(e, TRUE)
    /\ UNCHANGED <<dispatchCount, requests, dispatching, callbacks, reaped, socketOpen,
                   callVars>>
    /\ NoAssertFails /\ UNCHANGED written

\* monitor(): the connection has been idle for the ACM timeout.
Monitor(e) ==
    /\ May("monitor", e) /\ state[e] = "Active"
    /\ requests[e] = {} /\ dispatchCount[e] = 0 /\ sendStreams[e] = <<>>
    /\ SetClosing(e, "Idle")
    /\ NotifyAll(e, TRUE)
    /\ UNCHANGED <<dispatchCount, requests, dispatching, callbacks, reaped, socketOpen,
                   callVars>>
    /\ NoAssertFails /\ UNCHANGED written

\* Mutants: a call that was sent is never retried, or after a lost connection.
NeverRetryable(x) == FALSE
RetryableWhenLost(x) == x \in {"CloseConnection", "Lost"}

\* What was sent may be retried only after CloseConnectionException.
Retryable(x) == x = "CloseConnection"

\* Mutant: only what is still queued is finished.
FinishedUnsentOnly(e, c) ==
    IF c \in Requested(sendStreams[e]) THEN "retry" ELSE outcome[c]

\* Queued messages fail as not sent, the other outstanding calls as sent.
Finished(e, c) ==
    CASE c \in Requested(sendStreams[e]) -> "retry"
      [] c \in requests[e] \ Requested(sendStreams[e]) ->
            IF Retryable(exception[e]) THEN "retry" ELSE "fatal"
      [] OTHER -> outcome[c]

\* finish(), first part: it resolves the calls of this end.
FinishCalls(e) ==
    /\ state[e] = "Closed" /\ (sendStreams[e] # <<>> \/ requests[e] # {})
    /\ outcome' = [c \in Calls |-> Finished(e, c)]
    /\ torn' = IF written[e] THEN torn \cup Requested(Prefix(sendStreams[e], 1)) ELSE torn
    /\ sendStreams' = [sendStreams EXCEPT ![e] = <<>>]
    /\ written' = [written EXCEPT ![e] = FALSE]
    /\ requests' = [requests EXCEPT ![e] = {}]
    /\ UNCHANGED <<state, exception, dispatchCount, dispatching, callbacks, waiters, reaped,
                   socketOpen, channel, executions>>
    /\ NoAssertFails

\* finish(), second part: setState(StateFinished) closes the transceiver.
\* Closing it with unread data resets the stream: what the peer has not read
\* may be lost from some message on.
FinishDone(e) ==
    /\ state[e] = "Closed" /\ sendStreams[e] = <<>> /\ requests[e] = {}
    /\ state' = [state EXCEPT ![e] = "Finished"]
    /\ socketOpen' = [socketOpen EXCEPT ![e] = FALSE]
    /\ \E n \in 0..Len(channel[Peer(e)]) :
         /\ channel[e] = <<>> => n = Len(channel[Peer(e)])
         /\ channel' = [channel EXCEPT ![e] = <<>>, ![Peer(e)] = Prefix(@, n)]
    /\ reaped' = IF dispatchCount[e] = 0 THEN [reaped EXCEPT ![e] = @ + 1] ELSE reaped
    /\ NotifyAll(e, TRUE)
    /\ UNCHANGED <<exception, dispatchCount, sendStreams, requests, dispatching, callbacks,
                   callVars>>
    /\ NoAssertFails /\ UNCHANGED written

\* waitUntilFinished(), called by the factories.
WaitUntilFinished(e) ==
    /\ May("wait", e)
    /\ waiters[e]["finish"] \in {"idle", "notified"}
    /\ waiters' = [waiters EXCEPT ![e]["finish"] =
          IF state[e] = "Finished" /\ dispatchCount[e] = 0 THEN "done" ELSE "waiting"]
    /\ UNCHANGED <<connection, dispatchCount, requests, dispatching, callbacks, reaped,
                   socketOpen, callVars>>
    /\ NoAssertFails /\ UNCHANGED written

-----------------------------------------------------------------------------
IO(e) ==
    \/ WriteReady(e) \/ WriteFailed(e)
    \/ ReceiveClose(e) \/ ReceiveRequest(e) \/ ReceiveReply(e) \/ EndOfStream(e)
    \/ FinishCalls(e) \/ FinishDone(e)

Upcall(e) ==
    \/ \E c \in dispatching[e] : DispatchDone(e, c) \/ DispatchFailed(e, c)
    \/ \E cb \in callbacks[e] : CallbackDone(e, cb)

Application(e) ==
    \/ Hold(e) \/ CloseGracefully(e) \/ CloseForcefully(e) \/ Destroy(e) \/ Monitor(e)
    \/ WaitUntilFinished(e)

Next ==
    \/ Accept \/ Connect
    \/ \E c \in Calls : Invoke(c) \/ InvokeRefused(c)
    \/ \E e \in Ends :
         \/ Activate(e) \/ IO(e) \/ Fault(e)
         \/ WriteFailedThenRead(e) \/ WriteThenReadBlocks(e) \/ WriteThenReadFails(e)
         \/ Upcall(e) \/ Application(e)

Spec == Init /\ [][Next]_vars

\* The thread pool serves sockets, upcalls return, woken threads run.
Fairness ==
    /\ WF_vars(Accept \/ Connect)
    /\ \A e \in Ends :
         /\ WF_vars(Activate(e))
         /\ WF_vars(WriteReady(e) \/ WriteFailed(e))
         /\ WF_vars(ReceiveClose(e) \/ ReceiveRequest(e)
                  \/ ReceiveReply(e) \/ EndOfStream(e))
         /\ WF_vars(FinishCalls(e) \/ FinishDone(e))
         /\ \A c \in Calls : WF_vars(DispatchDone(e, c))
         /\ WF_vars(\E cb \in callbacks[e] : CallbackDone(e, cb))
         /\ WF_vars(waiters[e]["close"] = "notified" /\ CloseGracefully(e))
         /\ WF_vars(waiters[e]["finish"] = "notified" /\ WaitUntilFinished(e))

FairSpec == Spec /\ Fairness

-----------------------------------------------------------------------------
(***************************************************************************)
(* Properties                                                              *)
(***************************************************************************)

\* The values of the variables.
TypeOK ==
    /\ environment \in Environments
    /\ state \in [Ends -> States]
    /\ exception \in [Ends -> Exceptions]
    /\ dispatchCount \in [Ends -> Nat]
    /\ sendStreams \in [Ends -> Seq(Messages)]
    /\ written \in [Ends -> BOOLEAN]
    /\ requests \in [Ends -> SUBSET Calls]
    /\ dispatching \in [Ends -> SUBSET Calls]
    /\ callbacks \in [Ends -> SUBSET [type : {"sent", "reply"}, calls : SUBSET Calls]]
    /\ waiters \in [Ends -> [Threads -> WaiterStates]]
    /\ reaped \in [Ends -> Nat]
    /\ socketOpen \in [Ends -> BOOLEAN]
    /\ channel \in [Ends -> Seq(Messages)]
    /\ outcome \in [Calls -> {"idle", "pending", "ok", "retry", "fatal"}]
    /\ executions \in [Calls -> Nat]
    /\ torn \subseteq Calls
    /\ assertFailed \in BOOLEAN

\* At-most-once: the connection implements the abstract invocation, in which
\* a call that may be retried was not executed and never will be.
Invocation == INSTANCE IceInvocation
AtMostOnce == Invocation!Spec

\* It does so but for the torn requests, which finish() reports as not sent:
\* at-most-once holds when those that may be retried count as failed.
Repaired == INSTANCE IceInvocation WITH
    outcome <- [c \in Calls |-> IF c \in torn /\ outcome[c] = "retry"
                                THEN "fatal" ELSE outcome[c]]
AtMostOnceUnlessTorn == Repaired!Spec

\* What e has sent or queued and its peer has not read.
InTransit(e) == channel[Peer(e)] \o Unwritten(e)

\* A close message is followed only by another one: once it is queued, the
\* end sends no request and no reply.
CloseIsLast ==
    \A e \in Ends : \A i, j \in DOMAIN InTransit(e) :
        i < j /\ InTransit(e)[i] = Close => InTransit(e)[j] = Close

\* "By sending a close connection message, the server guarantees that all
\* outstanding requests can safely be repeated": when an end reads a close
\* message, no request it still waits for was or will be executed.
CloseGuaranteesRepeat ==
    \A e \in Ends :
        (state[e] \in Reading /\ channel[e] # <<>> /\ Head(channel[e]) = Close)
        => \A c \in requests[e] :
             executions[c] = 0 /\ state[Peer(e)] \notin {"NotValidated", "Holding", "Active"}

\* _dispatchCount counts the upcalls that are running, in every state.
DispatchCounted ==
    \A e \in Ends :
        dispatchCount[e] = Cardinality(dispatching[e]) + Cardinality(callbacks[e])

\* Every reply that arrives finds the request it answers: the run time never
\* throws UnknownRequestIdException at a peer that is an Ice run time.
RepliesExpected ==
    \A e \in Ends : state[e] \in Running =>
        \A i \in DOMAIN channel[e] :
            channel[e][i].type = "reply" => channel[e][i].call \in requests[e]

\* A connection is given to the reaper once, when it is finished and its
\* last upcall has returned, whichever comes last.
ReapedOnce ==
    \A e \in Ends : reaped[e] =
        IF state[e] = "Finished" /\ dispatchCount[e] = 0 THEN 1 ELSE 0

\* Graceful closure loses no call: without faults and forced closure a call
\* fails for good only if its own end was destroyed, or if it was made by the
\* accepting end and never executed, the connecting end having been destroyed
\* before it was validated, when it sends no close message.
GracefulLosesNothing ==
    environment = "graceful" => \A c \in Calls : outcome[c] = "fatal" =>
        \/ exception[Caller[c]] = "Destroyed"
        \/ Caller[c] = "B" /\ exception["A"] = "Destroyed" /\ executions[c] = 0

\* A connection that starts to close finishes, and is given to the reaper.
ClosingFinishes ==
    \A e \in Ends : state[e] = "Closing" ~> reaped[e] = 1

\* Every call comes to an end.
CallsEnd == \A c \in Calls : outcome[c] = "pending" ~> outcome[c] \in {"ok", "retry", "fatal"}

\* close(false) returns, and so does waitUntilFinished() on a connection
\* that closes.
CloseReturns ==
    \A e \in Ends : waiters[e]["close"] = "waiting" ~> waiters[e]["close"] = "done"
WaitReturns ==
    \A e \in Ends : (waiters[e]["finish"] = "waiting" /\ state[e] \in Ending \cup {"Closing"})
                    ~> waiters[e]["finish"] = "done"
=============================================================================
