------------------------ MODULE IceConnection_proofs -------------------------
(***************************************************************************)
(* Proofs about IceConnection, for every set of calls, every capacity of   *)
(* the transport and everything the applications may do.                   *)
(***************************************************************************)
EXTENDS IceConnectionMessages_proofs

-----------------------------------------------------------------------------
(***************************************************************************)
(* The inductive invariant                                                 *)
(***************************************************************************)

Stopping == {"Closing"} \cup Ending
Unopened == {"NotValidated"} \cup Open

\* The upcalls of e are counted, and tell whether it was given to the reaper.
Counting(e) ==
    /\ IsFiniteSet(dispatching[e]) /\ IsFiniteSet(callbacks[e])
    /\ dispatchCount[e] = Cardinality(dispatching[e]) + Cardinality(callbacks[e])
    /\ reaped[e] = IF state[e] = "Finished" /\ dispatchCount[e] = 0 THEN 1 ELSE 0

\* What the state of an end says of its exception, its calls and its messages.
EndState(e) ==
    /\ socketOpen[e] = (state[e] # "Finished")
    /\ state[e] = "Finished" => sendStreams[e] = <<>> /\ requests[e] = {}
    /\ exception[e] = "none" <=> state[e] \in Unopened
    /\ Close \in InT(e) => state[e] \in Stopping /\ dispatching[e] = {}
    /\ state[e] = "NotValidated" =>
         /\ requests[e] = {}
         /\ \A c \in Calls : Caller[c] = Peer(e) => executions[c] = 0
    /\ exception[e] = "Idle" => requests[e] = {}

\* The end that each message, call and upcall belongs to.
Routes(e) ==
    /\ \A c \in Calls : Request(c) \in InT(e) => Caller[c] = e
    /\ \A c \in Calls : Reply(c) \in InT(e) => Caller[c] = Peer(e)
    /\ \A c \in requests[e] : Caller[c] = e
    /\ \A c \in dispatching[e] : Caller[c] = Peer(e)
    /\ \A c \in Requested(sendStreams[e]) : Caller[c] = e

\* The calls of the callbacks that are running.
Upcalls(e) ==
    \A cb \in callbacks[e] :
        /\ \A c \in cb.calls : /\ Caller[c] = e /\ outcome[c] # "idle"
                               /\ c \notin Requested(sendStreams[e])
        /\ cb.type = "reply" =>
             \E c \in Calls : /\ cb.calls = {c} /\ c \notin requests[e]
                              /\ outcome[c] = "pending" /\ executions[c] = 1

EndOK(e) == EndState(e) /\ Routes(e) /\ Upcalls(e)

\* A call is in one place at a time: its request is in transit, it is being
\* executed, or its reply is in transit; and its caller waits for it.
CallOK(c) ==
    LET e == Caller[c]
        p == Peer(Caller[c]) IN
    /\ executions[c] \in {0, 1}
    /\ outcome[c] = "idle" => executions[c] = 0
    /\ Request(c) \in InT(e) =>
         /\ executions[c] = 0 /\ outcome[c] # "idle"
         /\ c \in Twoway /\ state[e] \notin Ending => c \in requests[e]
    /\ Reply(c) \in InT(p) =>
         /\ executions[c] = 1 /\ c \in Twoway /\ c \notin dispatching[p]
         /\ state[e] \notin Ending => c \in requests[e]
    /\ c \in dispatching[p] =>
         /\ executions[c] = 1
         /\ c \in Twoway /\ state[e] \notin Ending => c \in requests[e]
    /\ c \in Requested(sendStreams[e]) => outcome[c] = "pending"
    /\ c \in requests[e] =>
         /\ c \in Twoway /\ outcome[c] = "pending"
         /\ executions[c] = 1 /\ state[p] \notin Ending =>
              c \in dispatching[p] \/ Reply(c) \in InT(p)
         /\ exception[e] = "CloseConnection" => executions[c] = 0 /\ state[p] \in Stopping
    /\ outcome[c] = "retry" /\ c \notin torn =>
         executions[c] = 0 /\ (Request(c) \in InT(e) => state[p] \in Stopping)

\* Before it has accepted the connection, B has sent nothing.
Unaccepted ==
    state["B"] = "NotValidated" => state["A"] \notin Running /\ InTransit("B") = <<>>

\* The call was made by the accepting end and cannot have been executed, nor
\* ever be: the connecting end was destroyed.
Harmless(c) ==
    /\ Caller[c] = "B" /\ exception["A"] = "Destroyed" /\ state["A"] \in Ending
    /\ executions[c] = 0

\* Without faults an end closes because it was destroyed before it was
\* validated, or it has exchanged the close message with its peer.
Graceful ==
    environment = "graceful" =>
    /\ \A e \in Ends : exception[e] # "Forced"
    /\ state["A"] \in Ending /\ exception["B"] = "none" =>
         /\ exception["A"] = "Destroyed"
         /\ \A c \in Calls : Caller[c] = "B" => executions[c] = 0
    /\ state["B"] \in Ending /\ exception["A"] = "none" =>
         state["A"] = "NotValidated" /\ InTransit("B") = <<>>
    /\ \A c \in Calls :
         c \in requests[Caller[c]] /\ exception[Caller[c]] = "Lost" => Harmless(c)
    /\ \A c \in Calls :
         outcome[c] = "fatal" => exception[Caller[c]] = "Destroyed" \/ Harmless(c)

IInv ==
    /\ TypeOK
    /\ \A e \in Ends : Counting(e) /\ SendQueue(e) /\ Ordering(e) /\ EndOK(e)
    /\ \A c \in Calls : CallOK(c)
    /\ Unaccepted /\ Graceful

-----------------------------------------------------------------------------
(***************************************************************************)
(* What most steps keep                                                    *)
(***************************************************************************)

\* Nothing of the end but what is on its way to it changes.
Untouched(e) ==
    /\ state'[e] = state[e] /\ exception'[e] = exception[e]
    /\ dispatchCount'[e] = dispatchCount[e] /\ sendStreams'[e] = sendStreams[e]
    /\ written'[e] = written[e] /\ requests'[e] = requests[e]
    /\ dispatching'[e] = dispatching[e] /\ callbacks'[e] = callbacks[e]
    /\ reaped'[e] = reaped[e] /\ socketOpen'[e] = socketOpen[e]

\* The other end executes calls for the first time only, and resolves none of
\* this end's.
OnlyOwnCalls(e) ==
    \A c \in Calls :
        /\ Caller[c] = e => outcome'[c] = outcome[c]
        /\ Caller[c] # e => executions'[c] = executions[c]
        /\ executions[c] # 0 => executions'[c] = executions[c]

LEMMA UntouchedEnd ==
    ASSUME IInv, NEW e \in Ends, Untouched(e), OnlyOwnCalls(e), InT(e)' \subseteq InT(e)
    PROVE  EndOK(e)' /\ Counting(e)'
<1>0. Peer(e) \in Ends /\ Peer(e) # e /\ Peer(e)' = Peer(e)
  BY PeerOfPeer DEF Peer
<1>1. EndState(e) /\ Routes(e) /\ Upcalls(e) /\ Counting(e) /\ TypeOK
  BY DEF IInv, EndOK
<1>2. requests[e] \subseteq Calls /\ dispatching[e] \subseteq Calls /\ Caller \in [Calls -> Ends]
      /\ \A cb \in callbacks[e] : cb.calls \subseteq Calls
  BY <1>1, CallsAssumption DEF TypeOK
<1>3. EndState(e)'
  BY <1>0, <1>1, <1>2 DEF EndState, Untouched, OnlyOwnCalls
<1>4. Routes(e)'
  BY <1>0, <1>1, <1>2 DEF Routes, Untouched
<1>5. Upcalls(e)'
  <2>1. SUFFICES ASSUME NEW cb \in callbacks[e]
        PROVE  /\ \A c \in cb.calls : /\ Caller[c] = e /\ outcome'[c] # "idle"
                                      /\ c \notin Requested(sendStreams[e])
               /\ cb.type = "reply" =>
                    \E c \in Calls : /\ cb.calls = {c} /\ c \notin requests[e]
                                     /\ outcome'[c] = "pending" /\ executions'[c] = 1
    BY DEF Upcalls, Untouched
  <2>2. \A c \in cb.calls : /\ Caller[c] = e /\ outcome[c] # "idle"
                            /\ c \notin Requested(sendStreams[e])
                            /\ outcome'[c] = outcome[c]
    BY <1>1, <1>2 DEF Upcalls, OnlyOwnCalls
  <2>3. ASSUME cb.type = "reply"
        PROVE  \E c \in Calls : /\ cb.calls = {c} /\ c \notin requests[e]
                                /\ outcome'[c] = "pending" /\ executions'[c] = 1
    <3>1. PICK c \in Calls : /\ cb.calls = {c} /\ c \notin requests[e]
                             /\ outcome[c] = "pending" /\ executions[c] = 1
      BY <1>1, <2>3 DEF Upcalls
    <3>2. outcome'[c] = outcome[c] /\ executions'[c] = executions[c]
      BY <2>2, <3>1 DEF OnlyOwnCalls
    <3>3. QED
      BY <3>1, <3>2
  <2>4. QED
    BY <2>2, <2>3
<1>6. Counting(e)'
  BY <1>1 DEF Counting, Untouched
<1>7. QED
  BY <1>3, <1>4, <1>5, <1>6 DEF EndOK

\* A step that moves a call on, if it moves it at all: from its execution to
\* its reply, or to its result.
Keeps(c) ==
    LET e == Caller[c]
        p == Peer(Caller[c]) IN
    /\ executions'[c] = executions[c] /\ (c \in torn => c \in torn')
    /\ Request(c) \in InT(e)' => Request(c) \in InT(e)
    /\ Reply(c) \in InT(p)' => \/ Reply(c) \in InT(p)
                               \/ c \in dispatching[p] /\ c \notin dispatching'[p] /\ c \in Twoway
    /\ c \in dispatching'[p] => c \in dispatching[p]
    /\ c \in requests'[e] => c \in requests[e]
    /\ c \in Requested(sendStreams'[e]) => c \in Requested(sendStreams[e])
    /\ state[e] \in Ending => state'[e] \in Ending
    /\ state[p] \in Ending => state'[p] \in Ending
    /\ state[p] \in Stopping => state'[p] \in Stopping
    /\ c \in requests[e] /\ c \notin requests'[e] =>
         \/ state'[e] \in Ending
         \/ /\ Request(c) \notin InT(e)' /\ Reply(c) \notin InT(p)'
            /\ c \notin dispatching'[p]
    /\ c \in requests'[e] /\ state'[p] \notin Ending =>
         (c \in dispatching[p] \/ Reply(c) \in InT(p)
            => c \in dispatching'[p] \/ Reply(c) \in InT(p)')
    /\ \/ outcome'[c] = outcome[c]
       \/ /\ outcome'[c] = "ok" /\ outcome[c] # "idle"
          /\ c \notin requests'[e] /\ c \notin Requested(sendStreams'[e])
    /\ c \in requests'[e] /\ exception'[e] = "CloseConnection" =>
         \/ exception[e] = "CloseConnection"
         \/ executions[c] = 0 /\ state'[p] \in Stopping

LEMMA CallKept ==
    ASSUME NEW c \in Calls, CallOK(c), Keeps(c)
    PROVE  CallOK(c)'
<1> DEFINE e == Caller[c]
           p == Peer(Caller[c])
<1>1. InT(e)' = Elems(InTransit(Caller[c])') /\ InT(p)' = Elems(InTransit(Peer(Caller[c]))')
  BY DEF InT, Peer
<1>2. Ending \subseteq Stopping
  BY DEF Stopping
<1>3. Peer(Caller[c])' = Peer(Caller[c])
  BY DEF Peer
<1>4. QED
  BY <1>2, <1>3 DEF CallOK, Keeps

\* The exceptions are those of before, and no end closes or is validated.
LEMMA GracefulKept ==
    ASSUME IInv, UNCHANGED environment,
           \A e \in Ends : /\ exception'[e] = exception[e]
                           /\ state'[e] \in Ending <=> state[e] \in Ending,
           state["A"] = "NotValidated" /\ InTransit("B") = <<>> => state'["A"] = "NotValidated",
           state["B"] \in Ending /\ InTransit("B") = <<>> => InTransit("B")' = <<>>,
           \A c \in Calls : c \in requests'[Caller[c]] =>
               c \in requests[Caller[c]] \/ exception[Caller[c]] = "none",
           \A c \in Calls : outcome'[c] = "fatal" =>
               \/ outcome[c] = "fatal" \/ exception[Caller[c]] = "Destroyed" \/ Harmless(c)
               \/ environment # "graceful",
           \A c \in Calls : Caller[c] = "B" /\ state["A"] \in Ending =>
               executions'[c] = executions[c]
    PROVE  Graceful'
<1>1. "A" \in Ends /\ "B" \in Ends /\ \A c \in Calls : Caller[c] \in Ends
  BY CallsAssumption DEF Ends
<1>2. \A c \in Calls : Harmless(c) => Harmless(c)'
  BY <1>1 DEF Harmless
<1>3. Graceful
  BY DEF IInv
<1>4. SUFFICES ASSUME environment = "graceful"
      PROVE  /\ \A e \in Ends : exception'[e] # "Forced"
             /\ state'["A"] \in Ending /\ exception'["B"] = "none" =>
                  /\ exception'["A"] = "Destroyed"
                  /\ \A c \in Calls : Caller[c] = "B" => executions'[c] = 0
             /\ state'["B"] \in Ending /\ exception'["A"] = "none" =>
                  state'["A"] = "NotValidated" /\ InTransit("B")' = <<>>
             /\ \A c \in Calls :
                  c \in requests'[Caller[c]] /\ exception'[Caller[c]] = "Lost" => Harmless(c)'
             /\ \A c \in Calls : outcome'[c] = "fatal" =>
                  exception'[Caller[c]] = "Destroyed" \/ Harmless(c)'
  BY DEF Graceful
<1>5. \A e \in Ends : exception'[e] # "Forced"
  BY <1>3, <1>4 DEF Graceful
<1>6. state'["A"] \in Ending /\ exception'["B"] = "none" =>
        /\ exception'["A"] = "Destroyed"
        /\ \A c \in Calls : Caller[c] = "B" => executions'[c] = 0
  BY <1>1, <1>3, <1>4 DEF Graceful
<1>7. state'["B"] \in Ending /\ exception'["A"] = "none" =>
        state'["A"] = "NotValidated" /\ InTransit("B")' = <<>>
  BY <1>1, <1>3, <1>4 DEF Graceful
<1>8. ASSUME NEW c \in Calls, c \in requests'[Caller[c]], exception'[Caller[c]] = "Lost"
      PROVE  Harmless(c)'
  BY <1>1, <1>2, <1>3, <1>4, <1>8 DEF Graceful
<1>9. ASSUME NEW c \in Calls, outcome'[c] = "fatal"
      PROVE  exception'[Caller[c]] = "Destroyed" \/ Harmless(c)'
  BY <1>1, <1>2, <1>3, <1>4, <1>9 DEF Graceful
<1>10. QED
  BY <1>5, <1>6, <1>7, <1>8, <1>9

\* With faults nothing is promised.
LEMMA GracefulFaulty ==
    ASSUME Faulty, UNCHANGED environment
    PROVE  Graceful'
BY DEF Faulty, Graceful

\* An end loses its peer, which has finished.
LEMMA GracefulLost ==
    ASSUME IInv, UNCHANGED environment, NEW e \in Ends, state[Peer(e)] = "Finished",
           state[e] \notin Ending, state'[Peer(e)] = state[Peer(e)],
           exception'[Peer(e)] = exception[Peer(e)],
           state'[e] = "Closed", exception'[e] = Keep(exception[e], "Lost"),
           requests'[e] \subseteq requests[e], requests'[Peer(e)] = requests[Peer(e)],
           UNCHANGED executions,
           \A c \in Calls : outcome'[c] = "fatal" => outcome[c] = "fatal"
    PROVE  Graceful'
<1>0. /\ "A" \in Ends /\ "B" \in Ends /\ \A c \in Calls : Caller[c] \in Ends
      /\ Peer("A") = "B" /\ Peer("B") = "A" /\ (e = "A" \/ e = "B")
      /\ Peer(e) \in Ends /\ Peer(e) # e
  BY CallsAssumption, PeerOfPeer DEF Ends, Peer
<1>1. /\ exception[Peer(e)] # "none" /\ requests[Peer(e)] = {}
      /\ exception[e] = "none" <=> state[e] \in Unopened
      /\ state[e] = "NotValidated" => requests[e] = {}
  BY <1>0 DEF IInv, EndOK, EndState, Unopened, Open
<1>2. Graceful
  BY DEF IInv
<1>3. /\ exception'[e] # "none" /\ exception'[Peer(e)] # "none"
      /\ exception[e] # "none" => exception'[e] = exception[e]
      /\ exception[e] = "none" => exception'[e] = "Lost"
  BY <1>1 DEF Keep
<1>4. \A c \in Calls : Harmless(c) => Harmless(c)'
  BY <1>0, <1>3 DEF Harmless, Ending
<1>5. SUFFICES ASSUME environment = "graceful"
      PROVE  /\ \A x \in Ends : exception'[x] # "Forced"
             /\ ~(state'["A"] \in Ending /\ exception'["B"] = "none")
             /\ ~(state'["B"] \in Ending /\ exception'["A"] = "none")
             /\ \A c \in Calls :
                  c \in requests'[Caller[c]] /\ exception'[Caller[c]] = "Lost" => Harmless(c)'
             /\ \A c \in Calls : outcome'[c] = "fatal" =>
                  exception'[Caller[c]] = "Destroyed" \/ Harmless(c)'
  BY DEF Graceful
<1>6. \A x \in Ends : exception'[x] # "Forced"
  BY <1>0, <1>2, <1>3, <1>5, PeerOfPeer DEF Graceful
<1>7. exception'["A"] # "none" /\ exception'["B"] # "none"
  BY <1>0, <1>3
<1>8. ASSUME NEW c \in Calls, c \in requests'[Caller[c]], exception'[Caller[c]] = "Lost"
      PROVE  Harmless(c)'
  <2>1. Caller[c] = e /\ c \in requests[e]
    BY <1>0, <1>1, <1>8, PeerOfPeer
  <2>2. CASE exception[e] = "Lost"
    BY <1>2, <1>4, <1>5, <2>1, <2>2 DEF Graceful
  <2>3. CASE exception[e] = "none"
    <3>1. state[Peer(e)] \in Ending
      BY DEF Ending
    <3>2. CASE e = "B"
      <4>1. exception["A"] = "Destroyed" /\ executions[c] = 0
        BY <1>0, <1>2, <1>5, <2>1, <2>3, <3>1, <3>2 DEF Graceful
      <4>2. QED
        BY <1>0, <1>4, <2>1, <3>1, <3>2, <4>1 DEF Harmless
    <3>3. CASE e = "A"
      BY <1>0, <1>1, <1>2, <1>5, <2>1, <2>3, <3>1, <3>3 DEF Graceful
    <3>4. QED
      BY <1>0, <3>2, <3>3
  <2>4. QED
    BY <1>3, <1>8, <2>1, <2>2, <2>3
<1>9. ASSUME NEW c \in Calls, outcome'[c] = "fatal"
      PROVE  exception'[Caller[c]] = "Destroyed" \/ Harmless(c)'
  <2>1. exception[Caller[c]] = "Destroyed" \/ Harmless(c)
    BY <1>2, <1>5, <1>9 DEF Graceful
  <2>2. exception[Caller[c]] = "Destroyed" => exception'[Caller[c]] = "Destroyed"
    BY <1>0, <1>3, PeerOfPeer
  <2>3. QED
    BY <1>4, <2>1, <2>2
<1>10. QED
  BY <1>6, <1>7, <1>8, <1>9

LEMMA UnacceptedKept ==
    ASSUME IInv, state'["B"] = "NotValidated" => state["B"] = "NotValidated",
           InTransit("B") = <<>> /\ state'["A"] \in Running => state["A"] \in Running,
           state'["B"] = "NotValidated" /\ InTransit("B") = <<>> => InTransit("B")' = <<>>
    PROVE  Unaccepted'
BY DEF IInv, Unaccepted

\* The parts of the invariant, of one end and of the other, make the whole.
LEMMA Assemble ==
    ASSUME NEW e \in Ends, TypeOK', Counting(e)', Counting(Peer(e))',
           SendQueue(e)', SendQueue(Peer(e))', Ordering(e)', Ordering(Peer(e))',
           EndOK(e)', EndOK(Peer(e))', \A c \in Calls : CallOK(c)', Unaccepted', Graceful'
    PROVE  IInv'
BY PeerOfPeer DEF IInv

\* The threads that wait are woken.
LEMMA WaitersType ==
    ASSUME TypeOK, NEW e \in Ends, NEW when, NotifyAll(e, when)
    PROVE  waiters' \in [Ends -> [Threads -> WaiterStates]]
<1>1. waiters \in [Ends -> [Threads -> WaiterStates]]
  BY DEF TypeOK
<1>2. \A w \in [Threads -> WaiterStates] : Woken(w) \in [Threads -> WaiterStates]
  BY DEF Woken, WaiterStates
<1>3. waiters[e] \in [Threads -> WaiterStates] /\ Woken(waiters[e]) \in [Threads -> WaiterStates]
  BY <1>1, <1>2
<1>4. [waiters EXCEPT ![e] = Woken(@)] \in [Ends -> [Threads -> WaiterStates]]
  BY <1>1, <1>3
<1>5. QED
  BY <1>1, <1>4 DEF NotifyAll

\* A change of the state of e alone.
StateChange(e, s, x) ==
    \/ s = state[e] /\ x = exception[e]
    \/ state[e] \in Open /\ s \in Open /\ x = exception[e]
    \/ /\ s \in {"Closing", "Closed"} /\ state[e] \notin Ending
       /\ state[e] = "NotValidated" => s = "Closed"
       /\ IF exception[e] = "none" THEN x \in Exceptions \ {"none"} ELSE x = exception[e]
       /\ x \in {"CloseConnection", "Idle"} => x = exception[e] \/ requests[e] = {}

LEMMA StateStep ==
    ASSUME IInv, NEW e \in Ends, NEW s, NEW x, StateChange(e, s, x),
           state' = [state EXCEPT ![e] = s], exception' = [exception EXCEPT ![e] = x],
           UNCHANGED <<environment, dispatchCount, sendStreams, written, requests, dispatching,
                       callbacks, reaped, socketOpen, channel, outcome, executions, torn>>,
           waiters' \in [Ends -> [Threads -> WaiterStates]], assertFailed' \in BOOLEAN,
           Graceful'
    PROVE  IInv'
<1> DEFINE p == Peer(e)
<1>0. p \in Ends /\ p # e /\ Peer(p) = e
  BY PeerOfPeer
<1>1. /\ TypeOK /\ EndState(e) /\ Routes(e) /\ Upcalls(e) /\ Counting(e)
      /\ SendQueue(e) /\ Ordering(e) /\ SendQueue(p) /\ Ordering(p)
      /\ \A c \in Calls : CallOK(c)
  BY <1>0 DEF IInv, EndOK
<1>2. /\ state \in [Ends -> States] /\ exception \in [Ends -> Exceptions]
      /\ requests[e] \subseteq Calls /\ Caller \in [Calls -> Ends]
  BY <1>1, CallsAssumption DEF TypeOK
<1>3. s \in States /\ x \in Exceptions
  BY <1>2 DEF StateChange, Open, States
<1>4. /\ state'[e] = s /\ state'[p] = state[p] /\ exception'[e] = x /\ exception'[p] = exception[p]
      /\ state' \in [Ends -> States] /\ exception' \in [Ends -> Exceptions]
  BY <1>0, <1>2, <1>3
<1>5. TypeOK'
  BY <1>1, <1>4 DEF TypeOK
<1>6. /\ Shrinks(e) /\ InTransit(e)' = InTransit(e) /\ SendQueue(e)'
      /\ Shrinks(p) /\ InTransit(p)' = InTransit(p) /\ SendQueue(p)'
  BY <1>0, <1>1, QuietEffect
<1>7. InT(e)' = InT(e) /\ InT(p)' = InT(p) /\ Peer(e)' = p /\ Peer(p)' = e
  BY <1>0, <1>6 DEF InT, Peer
<1>8. Executed(e)' = Executed(e) /\ Executed(p)' = Executed(p)
  BY <1>7 DEF Executed
<1>9. Ordering(e)' /\ Ordering(p)'
  BY <1>0, <1>1, <1>6, <1>7, <1>8 DEF Ordering
<1>10. EndOK(p)' /\ Counting(p)'
  BY <1>0, <1>4, <1>7, UntouchedEnd DEF Untouched, OnlyOwnCalls
<1>11. Counting(e)'
  <2>1. state'[e] = "Finished" <=> state[e] = "Finished"
    BY <1>4 DEF StateChange, Open, Ending
  <2>2. QED
    BY <1>1, <2>1 DEF Counting
<1>12. EndOK(e)'
  <2>1. EndState(e)'
    BY <1>1, <1>4, <1>7 DEF EndState, StateChange, Open, Ending, Stopping, Unopened
  <2>2. Routes(e)'
    BY <1>1, <1>7 DEF Routes
  <2>3. Upcalls(e)'
    BY <1>1 DEF Upcalls
  <2>4. QED
    BY <2>1, <2>2, <2>3 DEF EndOK
<1>13. ASSUME NEW c \in Calls
       PROVE  CallOK(c)'
  <2>1. \A f \in Ends : /\ state[f] \in Ending => state'[f] \in Ending
                        /\ state[f] \in Stopping => state'[f] \in Stopping
                        /\ InT(f)' = InT(f)
                        /\ exception'[f] = "CloseConnection" =>
                             exception[f] = "CloseConnection" \/ requests[f] = {}
    BY <1>0, <1>4, <1>7, PeerOfPeer DEF StateChange, Open, Ending, Stopping
  <2>2. Caller[c] \in Ends /\ Peer(Caller[c]) \in Ends
    BY <1>2, PeerOfPeer
  <2>3. Keeps(c)
    BY <2>1, <2>2 DEF Keeps
  <2>4. QED
    BY <1>1, <2>3, CallKept
<1>14. Unaccepted'
  <2>1. /\ \A f \in Ends : /\ state'[f] = "NotValidated" => state[f] = "NotValidated"
                           /\ state'[f] \in Running => state[f] \in Running
                           /\ InTransit(f)' = InTransit(f)
    BY <1>0, <1>2, <1>4, <1>6, PeerOfPeer
       DEF StateChange, Open, Ending, Running, States
  <2>2. QED
    BY <2>1, UnacceptedKept DEF Ends
<1>15. QED
  BY <1>5, <1>6, <1>9, <1>10, <1>11, <1>12, <1>13, <1>14, Assemble

-----------------------------------------------------------------------------
(***************************************************************************)
(* Steps that change the state of an end alone                             *)
(***************************************************************************)

LEMMA ActivateStep ==
    ASSUME IInv, NEW e \in Ends, Activate(e) \/ Hold(e)
    PROVE  IInv'
<1>1. TypeOK
  BY DEF IInv
<1>2. state \in [Ends -> States] /\ exception \in [Ends -> Exceptions]
      /\ assertFailed \in BOOLEAN
  BY <1>1 DEF TypeOK
<1>3. PICK s \in Open : /\ state[e] \in Open /\ state' = [state EXCEPT ![e] = s]
                        /\ NotifyAll(e, TRUE)
                        /\ UNCHANGED <<exception, dispatchCount, sendStreams, requests,
                                       dispatching, callbacks, reaped, socketOpen, channel,
                                       callVars, written, assertFailed, environment>>
  BY DEF Activate, Hold, Open, NoAssertFails
<1>4. exception' = [exception EXCEPT ![e] = exception[e]]
  BY <1>2, <1>3
<1>5. waiters' \in [Ends -> [Threads -> WaiterStates]]
  BY <1>1, <1>3, WaitersType
<1>6. Graceful'
  <2>1. \A f \in Ends : /\ exception'[f] = exception[f]
                        /\ state'[f] \in Ending <=> state[f] \in Ending
                        /\ state[f] = "NotValidated" => state'[f] = "NotValidated"
                        /\ InTransit(f)' = InTransit(f)
    <3>1. \A f \in Ends : InTransit(f)' = InTransit(f)
      BY <1>1, <1>3, QuietEffect DEF IInv
    <3>2. QED
      BY <1>2, <1>3, <3>1 DEF Open, Ending
  <2>2. "A" \in Ends /\ "B" \in Ends
    BY DEF Ends
  <2>3. QED
    BY <1>3, <2>1, <2>2, GracefulKept DEF callVars
<1>7. QED
  BY <1>2, <1>3, <1>4, <1>5, <1>6, StateStep DEF StateChange, callVars

\* waitUntilFinished(), and the event in which an assertion fails.
LEMMA SameStateStep ==
    ASSUME IInv, NEW e \in Ends,
           UNCHANGED <<environment, connection, dispatchCount, written, requests, dispatching,
                       callbacks, reaped, socketOpen, callVars>>,
           waiters' \in [Ends -> [Threads -> WaiterStates]], assertFailed' \in BOOLEAN
    PROVE  IInv'
<1>1. TypeOK
  BY DEF IInv
<1>2. state \in [Ends -> States] /\ exception \in [Ends -> Exceptions]
  BY <1>1 DEF TypeOK
<1>3. \A f \in Ends : InTransit(f)' = InTransit(f)
  BY <1>1, QuietEffect DEF IInv, connection
<1>4. Graceful'
  <2>1. "A" \in Ends /\ "B" \in Ends
    BY DEF Ends
  <2>2. QED
    BY <1>3, <2>1, GracefulKept DEF connection, callVars
<1>5. /\ state' = [state EXCEPT ![e] = state[e]]
      /\ exception' = [exception EXCEPT ![e] = exception[e]]
  BY <1>2 DEF connection
<1>6. QED
  BY <1>4, <1>5, StateStep DEF StateChange, connection, callVars

LEMMA WaitUntilFinishedStep ==
    ASSUME IInv, NEW e \in Ends, WaitUntilFinished(e)
    PROVE  IInv'
<1>1. TypeOK
  BY DEF IInv
<1>2. waiters \in [Ends -> [Threads -> WaiterStates]] /\ assertFailed \in BOOLEAN
  BY <1>1 DEF TypeOK
<1>3. PICK v \in WaiterStates : waiters' = [waiters EXCEPT ![e]["finish"] = v]
  BY DEF WaitUntilFinished, WaiterStates
<1>4. waiters' \in [Ends -> [Threads -> WaiterStates]]
  BY <1>2, <1>3
<1>5. QED
  BY <1>2, <1>4, SameStateStep DEF WaitUntilFinished, NoAssertFails

LEMMA WriteFailedThenReadStep ==
    ASSUME IInv, NEW e \in Ends, WriteFailedThenRead(e)
    PROVE  IInv'
<1>1. waiters \in [Ends -> [Threads -> WaiterStates]]
  BY DEF IInv, TypeOK
<1>2. QED
  BY <1>1, SameStateStep DEF WriteFailedThenRead

\* setState(StateClosed, x) for another reason than a close message.
LEMMA SetClosedStep ==
    ASSUME IInv, NEW e \in Ends, NEW x \in {"Forced", "Lost"}, SetClosed(e, x),
           UNCHANGED <<environment, dispatchCount, written, requests, dispatching,
                       callbacks, reaped, socketOpen, callVars, assertFailed>>,
           \/ Faulty
           \/ x = "Lost" /\ state[Peer(e)] = "Finished" /\ state[e] \notin Ending
    PROVE  IInv'
<1> DEFINE s == IF state[e] \in Ending THEN state[e] ELSE "Closed"
           y == Keep(exception[e], x)
<1>1. TypeOK /\ EndState(e)
  BY DEF IInv, EndOK
<1>2. state \in [Ends -> States] /\ exception \in [Ends -> Exceptions]
      /\ assertFailed \in BOOLEAN
  BY <1>1 DEF TypeOK
<1>3. /\ state' = [state EXCEPT ![e] = s] /\ exception' = [exception EXCEPT ![e] = y]
      /\ UNCHANGED <<sendStreams, channel>>
  BY DEF SetClosed
<1>4. waiters' \in [Ends -> [Threads -> WaiterStates]]
  BY <1>1, WaitersType DEF SetClosed
<1>5. StateChange(e, s, y)
  <2>1. state[e] \in Ending => exception[e] # "none"
    BY <1>1 DEF EndState, Unopened, Ending, Open
  <2>2. QED
    BY <1>2, <2>1 DEF StateChange, Keep, Exceptions
<1>6. Graceful'
  <2>1. CASE Faulty
    BY <2>1, GracefulFaulty
  <2>2. CASE x = "Lost" /\ state[Peer(e)] = "Finished" /\ state[e] \notin Ending
    <3>0. Peer(e) \in Ends /\ Peer(e) # e
      BY PeerOfPeer
    <3>1. /\ state'[Peer(e)] = state[Peer(e)] /\ exception'[Peer(e)] = exception[Peer(e)]
          /\ state'[e] = "Closed" /\ exception'[e] = Keep(exception[e], "Lost")
      BY <1>2, <1>3, <2>2, <3>0
    <3>2. requests'[e] \subseteq requests[e] /\ requests'[Peer(e)] = requests[Peer(e)]
          /\ executions' = executions /\ outcome' = outcome
      BY DEF callVars
    <3>3. QED
      BY <2>2, <3>1, <3>2, GracefulLost
  <2>3. QED
    BY <2>1, <2>2
<1> HIDE DEF s, y
<1>7. QED
  BY <1>2, <1>3, <1>4, <1>5, <1>6, StateStep DEF callVars

LEMMA ClosedStep ==
    ASSUME IInv, NEW e \in Ends, Fault(e) \/ EndOfStream(e) \/ CloseForcefully(e)
    PROVE  IInv'
<1>1. CASE Fault(e)
  BY <1>1, SetClosedStep DEF Fault, NoAssertFails
<1>2. CASE CloseForcefully(e)
  BY <1>2, SetClosedStep DEF CloseForcefully, NoAssertFails
<1>3. CASE EndOfStream(e)
  <2>1. Peer(e) \in Ends
    BY PeerOfPeer
  <2>2. state[Peer(e)] = "Finished"
    BY <1>3, <2>1 DEF IInv, EndOK, EndState, EndOfStream
  <2>3. state[e] \notin Ending
    BY <1>3 DEF EndOfStream, Reading, Ending
  <2>4. QED
    BY <1>3, <2>2, <2>3, SetClosedStep DEF EndOfStream, NoAssertFails
<1>4. QED
  BY <1>1, <1>2, <1>3

-----------------------------------------------------------------------------
(***************************************************************************)
(* Steps that send                                                         *)
(***************************************************************************)

\* What the steps of the model send: nothing, one message, or a reply with the
\* close message behind it.
Sendable == {<<>>} \cup {<<m>> : m \in Messages} \cup {<<Reply(d), Close>> : d \in Calls}

LEMMA SendableElems ==
    /\ Sendable \subseteq Seq(Messages)
    /\ \A m \in Messages : Elems(<<m>>) = {m}
    /\ Elems(<<>>) = {}
    /\ \A d \in Calls : Elems(<<Reply(d), Close>>) = {Reply(d), Close}
<1>1. ASSUME NEW ms \in Sendable
      PROVE  ms \in Seq(Messages)
  <2>1. CASE ms = <<>>
    BY <2>1
  <2>2. ASSUME NEW m \in Messages, ms = <<m>>
        PROVE  ms \in Seq(Messages)
    BY <2>2
  <2>3. ASSUME NEW d \in Calls, ms = <<Reply(d), Close>>
        PROVE  ms \in Seq(Messages)
    <3>1. Reply(d) \in Messages /\ Close \in Messages
      BY MessageKinds
    <3>2. QED
      BY <2>3, <3>1
  <2>4. QED
    BY <2>1, <2>2, <2>3 DEF Sendable
<1>2. \A m \in Messages : Elems(<<m>>) = {m}
  BY DEF Elems
<1>3. Elems(<<>>) = {}
  BY DEF Elems
<1>4. \A d \in Calls : Elems(<<Reply(d), Close>>) = {Reply(d), Close}
  <2> TAKE d \in Calls
  <2> DEFINE t == <<Reply(d), Close>>
  <2>1. DOMAIN t = {1, 2} /\ t[1] = Reply(d) /\ t[2] = Close
    OBVIOUS
  <2> HIDE DEF t
  <2>2. Elems(t) = {Reply(d), Close}
    BY <2>1 DEF Elems
  <2>3. QED
    BY <2>2 DEF t
<1>5. QED
  BY <1>1, <1>2, <1>3, <1>4

\* A request is queued once.
LEMMA SendableOnce ==
    ASSUME NEW q \in Seq(Messages), NEW ms \in Sendable, Once(q, {"request"}),
           \A c \in Calls : ms = <<Request(c)>> => Request(c) \notin Elems(q)
    PROVE  Once(q \o ms, {"request"}) /\ Once(ms, {"request"})
<1>1. CASE ms = <<>>
  <2>1. q \o ms = q
    BY <1>1, ConcatEmptySeq
  <2>2. Once(ms, {"request"})
    BY <1>1 DEF Once
  <2>3. QED
    BY <2>1, <2>2
<1>2. ASSUME NEW m \in Messages, ms = <<m>>
      PROVE  Once(q \o ms, {"request"}) /\ Once(ms, {"request"})
  <2>1. m.type \in {"request"} => m \notin Elems(q)
    BY <1>2, MessageKinds
  <2>2. Once(q \o <<m>>, {"request"})
    BY <2>1, AppendOnce
  <2>3. Once(<<m>>, {"request"})
    BY DEF Once
  <2>4. QED
    BY <1>2, <2>2, <2>3
<1>3. ASSUME NEW d \in Calls, ms = <<Reply(d), Close>>
      PROVE  Once(q \o ms, {"request"}) /\ Once(ms, {"request"})
  <2> DEFINE r == Reply(d)
             u == q \o <<r>>
  <2>1. /\ r \in Messages /\ Close \in Messages
        /\ ~(r.type \in {"request"}) /\ ~(Close.type \in {"request"})
    BY MessageKinds
  <2>2. u \in Seq(Messages) /\ Once(u, {"request"})
    BY <2>1, OneMore, AppendOnce
  <2>3. Once(u \o <<Close>>, {"request"})
    <3> HIDE DEF u
    <3>1. QED
      BY <2>1, <2>2, AppendOnce
  <2>4. q \o <<r, Close>> = u \o <<Close>>
    <3>1. <<r>> \in Seq(Messages) /\ <<Close>> \in Seq(Messages)
      BY <2>1
    <3>2. <<r, Close>> = <<r>> \o <<Close>>
      BY <2>1
    <3>3. (q \o <<r>>) \o <<Close>> = q \o (<<r>> \o <<Close>>)
      BY <3>1, ConcatAssociative
    <3>4. QED
      BY <3>2, <3>3
  <2>5. Once(<<r, Close>>, {"request"})
    <3>1. \A i \in DOMAIN <<r, Close>> : <<r, Close>>[i] \in {r, Close}
      OBVIOUS
    <3>2. QED
      BY <2>1, <3>1 DEF Once
  <2>6. QED
    BY <1>3, <2>3, <2>4, <2>5
<1>4. QED
  BY <1>1, <1>2, <1>3 DEF Sendable

\* What SendMessages changes of the two ends.
LEMMA SendStep ==
    ASSUME IInv, NEW e \in Ends, NEW ms \in Sendable, NEW s \in States, NEW x \in Exceptions,
           s \notin Ending, SendMessages(e, ms, s, x), UNCHANGED <<written, socketOpen>>,
           \A c \in Calls : ms = <<Request(c)>> => outcome[c] = "idle"
    PROVE  /\ state' \in [Ends -> States] /\ exception' \in [Ends -> Exceptions]
           /\ sendStreams' \in [Ends -> Seq(Messages)] /\ channel' \in [Ends -> Seq(Messages)]
           /\ state'[Peer(e)] = state[Peer(e)] /\ exception'[Peer(e)] = exception[Peer(e)]
           /\ sendStreams'[Peer(e)] = sendStreams[Peer(e)]
           /\ \/ state'[e] = s /\ exception'[e] = x
              \/ /\ state'[e] = "Closed" /\ exception'[e] = Keep(x, "Lost")
                 /\ WriteMayFail(e) /\ sendStreams' = sendStreams /\ ms # <<>>
           /\ InTransit(Peer(e))' = InTransit(Peer(e)) /\ Shrinks(Peer(e))
           /\ InT(Peer(e))' = InT(Peer(e))
           /\ Sends(e, ms) /\ SendQueue(e)' /\ SendQueue(Peer(e))'
           /\ InT(e) \subseteq InT(e)' /\ InT(e)' \subseteq InT(e) \cup Elems(ms)
           /\ socketOpen[Peer(e)] /\ state'[e] \notin Ending => Elems(ms) \subseteq InT(e)'
           /\ \A c : c \in Requested(sendStreams'[e]) =>
                c \in Requested(sendStreams[e]) \/ Request(c) \in Elems(ms)
<1> DEFINE p == Peer(e)
<1>0. p \in Ends /\ p # e /\ Peer(p) = e /\ Peer(p)' = e
  BY PeerOfPeer DEF Peer
<1>1. TypeOK /\ SendQueue(e) /\ SendQueue(p) /\ Routes(e)
      /\ \A c \in Calls : CallOK(c)
  BY <1>0 DEF IInv, EndOK
<1>2. ms \in Seq(Messages)
  BY SendableElems
<1>3. /\ Sends(e, ms) /\ SendsRest(e, ms, s, x) /\ InTransit(p)' = InTransit(p)
  BY <1>1, <1>2, SendEffect
<1>4. sendStreams[e] \in Seq(Messages) /\ Once(sendStreams[e], {"request"})
  BY <1>1 DEF TypeOK, SendQueue
<1>5. ASSUME NEW c \in Calls, ms = <<Request(c)>>
      PROVE  Request(c) \notin Elems(sendStreams[e])
  <2>1. SUFFICES ASSUME Request(c) \in Elems(sendStreams[e])
        PROVE  FALSE
    OBVIOUS
  <2>2. c \in Requested(sendStreams[e])
    BY <1>4, <2>1, RequestedAre
  <2>3. Caller[c] = e
    BY <1>1, <2>2 DEF Routes
  <2>4. outcome[c] = "pending"
    BY <1>1, <2>2, <2>3 DEF CallOK
  <2>5. QED
    BY <1>5, <2>4
<1>6. Once(sendStreams[e] \o ms, {"request"}) /\ Once(ms, {"request"})
  BY <1>4, <1>5, SendableOnce
<1>7. /\ SendQueue(e)' /\ SendQueue(p)'
      /\ sendStreams' \in [Ends -> Seq(Messages)]
      /\ sendStreams'[p] = sendStreams[p]
      /\ Elems(sendStreams[e])' \subseteq Elems(sendStreams[e]) \cup Elems(ms)
  BY <1>1, <1>2, <1>3, <1>6, SendKeepsQueues
<1>8. InTransit(p) \in Seq(Messages)
  BY <1>0, <1>1, TransitType
<1>9. Shrinks(p) /\ InT(p)' = InT(p)
  BY <1>3, <1>8, SameShrinks DEF InT
<1>10. /\ InT(e) \subseteq InT(e)' /\ InT(e)' \subseteq InT(e) \cup Elems(ms)
       /\ socketOpen[p] /\ state'[e] \notin Ending => Elems(ms) \subseteq InT(e)'
  BY <1>1, <1>2, <1>3, SendsElems
<1>11. /\ state' \in [Ends -> States] /\ exception' \in [Ends -> Exceptions]
       /\ channel' \in [Ends -> Seq(Messages)]
       /\ state'[p] = state[p] /\ exception'[p] = exception[p]
       /\ \/ state'[e] = s /\ exception'[e] = x
          \/ /\ state'[e] = "Closed" /\ exception'[e] = Keep(x, "Lost")
             /\ WriteMayFail(e) /\ sendStreams' = sendStreams /\ ms # <<>>
  <2>1. state \in [Ends -> States] /\ exception \in [Ends -> Exceptions]
    BY <1>1 DEF TypeOK
  <2>2. "Closed" \in States /\ Keep(x, "Lost") \in Exceptions
    BY DEF States, Keep, Exceptions
  <2>3. QED
    BY <1>0, <1>3, <2>1, <2>2 DEF SendsRest
<1>12. \A c : c \in Requested(sendStreams'[e]) =>
          c \in Requested(sendStreams[e]) \/ Request(c) \in Elems(ms)
  <2>1. sendStreams'[e] \in Seq(Messages)
    BY <1>7
  <2>2. \A c : c \in Requested(sendStreams'[e]) => Request(c) \in Elems(sendStreams'[e])
    BY <2>1, RequestedAre
  <2>3. \A c : Request(c) \in Elems(sendStreams[e]) => c \in Requested(sendStreams[e])
    BY <1>4, RequestedAre
  <2>4. QED
    BY <1>7, <2>2, <2>3
<1>13. QED
  BY <1>3, <1>7, <1>9, <1>10, <1>11, <1>12

\* An end closes when it is told to, or has read a close message: no end has
\* closed while its peer knows nothing of it.
LEMMA GracefulTold ==
    ASSUME IInv, UNCHANGED <<environment, executions>>,
           \A f \in Ends :
               /\ exception[f] # "none" => exception'[f] = exception[f]
               /\ exception'[f] \in {exception[f], "CloseConnection", "Destroyed", "Idle"}
               /\ state[f] \in Ending => state'[f] \in Ending
               /\ ~(state'[f] \in Ending /\ exception'[Peer(f)] = "none"),
           \A c \in Calls : /\ c \in requests'[Caller[c]] => c \in requests[Caller[c]]
                            /\ outcome'[c] = "fatal" => outcome[c] = "fatal"
    PROVE  Graceful'
<1>0. /\ "A" \in Ends /\ "B" \in Ends /\ \A c \in Calls : Caller[c] \in Ends
      /\ Peer("A") = "B" /\ Peer("B") = "A"
  BY CallsAssumption DEF Ends, Peer
<1>1. Graceful
  BY DEF IInv
<1>2. \A c \in Calls : Harmless(c) => Harmless(c)'
  BY <1>0 DEF Harmless
<1>3. ~(state'["A"] \in Ending /\ exception'["B"] = "none")
      /\ ~(state'["B"] \in Ending /\ exception'["A"] = "none")
  BY <1>0
<1>4. environment = "graceful" => \A f \in Ends : exception'[f] # "Forced"
  BY <1>1 DEF Graceful
<1>5. ASSUME environment = "graceful", NEW c \in Calls, c \in requests'[Caller[c]],
             exception'[Caller[c]] = "Lost"
      PROVE  Harmless(c)'
  <2>1. c \in requests[Caller[c]] /\ exception[Caller[c]] = "Lost"
    BY <1>0, <1>5
  <2>2. QED
    BY <1>1, <1>2, <1>5, <2>1 DEF Graceful
<1>6. ASSUME environment = "graceful", NEW c \in Calls, outcome'[c] = "fatal"
      PROVE  exception'[Caller[c]] = "Destroyed" \/ Harmless(c)'
  <2>1. exception[Caller[c]] = "Destroyed" \/ Harmless(c)
    BY <1>1, <1>6 DEF Graceful
  <2>2. QED
    BY <1>0, <1>2, <2>1
<1>7. QED
  BY <1>3, <1>4, <1>5, <1>6 DEF Graceful

\* e sends replies and close messages: the replies to what it no longer
\* dispatches, and a close message when it dispatches nothing.
SendsAnswers(e, ms, s, x) ==
    /\ SendMessages(e, ms, s, x)
    /\ UNCHANGED <<environment, written, socketOpen, requests, executions, torn>>
    /\ dispatching'[Peer(e)] = dispatching[Peer(e)] /\ callbacks'[Peer(e)] = callbacks[Peer(e)]
    /\ dispatchCount'[Peer(e)] = dispatchCount[Peer(e)] /\ reaped'[Peer(e)] = reaped[Peer(e)]
    /\ dispatching'[e] \subseteq dispatching[e]
    /\ \A c \in Calls :
         \/ outcome'[c] = outcome[c]
         \/ /\ Caller[c] = e /\ outcome'[c] = "ok" /\ outcome[c] # "idle"
            /\ c \notin requests[e] /\ c \notin Requested(sendStreams[e])
    /\ \/ ms = <<>> \/ ms = <<Close>>
       \/ \E d \in Calls : /\ ms = <<Reply(d)>> \/ ms = <<Reply(d), Close>>
                           /\ d \in dispatching[e] /\ d \notin dispatching'[e] /\ d \in Twoway
    /\ \A d \in dispatching[e] : d \notin dispatching'[e] /\ d \in Twoway => Reply(d) \in Elems(ms)
    /\ Close \in Elems(ms) => s = "Closing" /\ dispatching'[e] = {}
    /\ state[e] \notin Ending /\ (state[e] = "NotValidated" => ms = <<>>)
    /\ \/ s = state[e] /\ x = exception[e]
       \/ /\ state[e] \in Open /\ s = "Closing" /\ x \in {"CloseConnection", "Destroyed", "Idle"}
          /\ x \in {"CloseConnection", "Idle"} => requests[e] = {}

LEMMA AnswersElems ==
    ASSUME IInv, NEW e \in Ends, NEW ms, NEW s, NEW x, SendsAnswers(e, ms, s, x)
    PROVE  /\ ms \in Sendable
           /\ \A c : Request(c) \notin Elems(ms)
           /\ \A c : Reply(c) \in Elems(ms) =>
                c \in Calls /\ c \in dispatching[e] /\ c \notin dispatching'[e] /\ c \in Twoway
           /\ \A c \in Calls : ms # <<Request(c)>>
<1>1. /\ \A c : Request(c) # Close /\ Reply(c) # Close
      /\ \A c, d : Request(c) # Reply(d) /\ (Reply(c) = Reply(d) => c = d)
      /\ Close \in Messages /\ \A c \in Calls : Reply(c) \in Messages /\ Request(c) \in Messages
  BY MessageKinds
<1>2. CASE ms = <<>>
  BY <1>2, SendableElems DEF Sendable
<1>3. CASE ms = <<Close>>
  <2>1. Elems(ms) = {Close} /\ ms \in Sendable
    BY <1>1, <1>3, SendableElems DEF Sendable
  <2>2. QED
    BY <1>1, <1>3, <2>1
<1>4. ASSUME NEW d \in Calls, ms = <<Reply(d)>> \/ ms = <<Reply(d), Close>>,
             d \in dispatching[e] /\ d \notin dispatching'[e] /\ d \in Twoway
      PROVE  /\ ms \in Sendable
             /\ \A c : Request(c) \notin Elems(ms)
             /\ \A c : Reply(c) \in Elems(ms) =>
                  c \in Calls /\ c \in dispatching[e] /\ c \notin dispatching'[e] /\ c \in Twoway
             /\ \A c \in Calls : ms # <<Request(c)>>
  <2>1. ms \in Sendable
    BY <1>1, <1>4 DEF Sendable
  <2>2. Elems(ms) \subseteq {Reply(d), Close}
    BY <1>1, <1>4, SendableElems
  <2>3. \A c : Request(c) \notin Elems(ms) /\ (Reply(c) \in Elems(ms) => c = d)
    BY <1>1, <2>2
  <2>4. \A c \in Calls : Request(c) \in Elems(<<Request(c)>>)
    BY <1>1, SendableElems
  <2>5. QED
    BY <1>4, <2>1, <2>3, <2>4
<1>5. QED
  BY <1>2, <1>3, <1>4 DEF SendsAnswers

\* What is sent keeps the order: a reply is sent once and before the close
\* message, and the close message when everything is answered.
LEMMA AnswersOrdering ==
    ASSUME IInv, NEW e \in Ends, NEW ms, NEW s, NEW x, SendsAnswers(e, ms, s, x), Sends(e, ms)
    PROVE  Ordering(e)'
<1> DEFINE p == Peer(e)
<1>0. p \in Ends /\ p # e /\ Peer(p) = e /\ Peer(p)' = e /\ Peer(e)' = p
  BY PeerOfPeer DEF Peer
<1>1. /\ TypeOK /\ SendQueue(e) /\ Ordering(e) /\ EndState(e) /\ Routes(e)
      /\ EndState(p) /\ Routes(p) /\ \A c \in Calls : CallOK(c)
  BY <1>0 DEF IInv, EndOK
<1>2. /\ Executed(p)' = Executed(p)
      /\ ~socketOpen'[p] => requests'[p] = {}
      /\ ~socketOpen[p] => Executed(p)' = {}
  BY <1>0, <1>1 DEF Executed, SendsAnswers, EndState
<1>3. requests[p] \subseteq Calls /\ executions \in [Calls -> Nat]
  BY <1>0, <1>1 DEF TypeOK
<1>4. \A c \in Executed(p)' : /\ c \in Calls /\ c \in Twoway
                              /\ c \in dispatching[e] \/ Reply(c) \in InT(e)
  <2>1. ASSUME NEW c \in Executed(p)
        PROVE  /\ c \in Calls /\ c \in Twoway
               /\ c \in dispatching[e] \/ Reply(c) \in InT(e)
    <3>1. c \in Calls /\ c \in requests[p] /\ executions[c] # 0 /\ Caller[c] = p
      BY <1>1, <1>3, <2>1 DEF Executed, Routes
    <3>2. state[e] \notin Ending
      BY DEF SendsAnswers
    <3>3. QED
      BY <1>0, <1>1, <3>1, <3>2 DEF CallOK
  <2>2. QED
    BY <1>2, <2>1
<1>5. ASSUME NEW d \in Calls, d \in dispatching[e]
      PROVE  Close \notin InT(e) /\ Reply(d) \notin InT(e)
  <2>1. Caller[d] = p
    BY <1>1, <1>5 DEF Routes
  <2>2. QED
    BY <1>0, <1>1, <1>5, <2>1 DEF EndState, CallOK
<1>6. CASE ms = <<>>
  BY <1>1, <1>2, <1>6, SendingNothing, ShrinkingKeepsOrdering
<1>7. CASE ms = <<Close>>
  <2>1. Elems(ms) = {Close} /\ Close \in Messages /\ \A c : Reply(c) # Close
    BY <1>7, MessageKinds, SendableElems
  <2>2. \A c \in Executed(p)' : Reply(c) \in InT(e)
    <3>1. dispatching'[e] = {} /\ \A d \in dispatching[e] : d \notin dispatching'[e] /\ d \in Twoway => FALSE
      BY <2>1 DEF SendsAnswers
    <3>2. QED
      BY <1>4, <3>1
  <2>3. Sends(e, <<Close>>)
    BY <1>7
  <2>4. Close.type \in {"request", "reply"} => Close \notin InT(e)
    BY MessageKinds
  <2>5. QED
    BY <1>1, <1>2, <2>1, <2>2, <2>3, <2>4, SendingOneKeepsOrdering
<1>8. ASSUME NEW d \in Calls, d \in dispatching[e], d \notin dispatching'[e], d \in Twoway,
             ms = <<Reply(d)>>
      PROVE  Ordering(e)'
  <2>1. Reply(d) \in Messages /\ Reply(d) # Close
    BY MessageKinds
  <2>2. QED
    BY <1>1, <1>2, <1>5, <1>8, <2>1, SendingOneKeepsOrdering
<1>9. ASSUME NEW d \in Calls, d \in dispatching[e], d \notin dispatching'[e], d \in Twoway,
             ms = <<Reply(d), Close>>
      PROVE  Ordering(e)'
  <2>1. Elems(ms) = {Reply(d), Close} /\ \A c : Reply(c) # Close /\ (Reply(c) = Reply(d) => c = d)
    BY <1>9, MessageKinds, SendableElems
  <2>2. \A c \in Executed(p)' : Reply(c) \in InT(e) \/ c = d
    <3>1. dispatching'[e] = {}
      BY <2>1 DEF SendsAnswers
    <3>2. \A c \in dispatching[e] : c \in Twoway => Reply(c) \in Elems(ms)
      BY <3>1 DEF SendsAnswers
    <3>3. QED
      BY <1>4, <2>1, <3>2
  <2>3. QED
    BY <1>1, <1>2, <1>5, <1>9, <2>2, SendingTwoKeepsOrdering
<1>10. QED
  BY <1>6, <1>7, <1>8, <1>9 DEF SendsAnswers

\* What sending answers leaves to be shown of a step: the counters and the
\* callbacks of e, and the types of what SendMessages does not change.
LEMMA AnswersStep ==
    ASSUME IInv, NEW e \in Ends, NEW ms, NEW s, NEW x, SendsAnswers(e, ms, s, x)
    PROVE  /\ state' \in [Ends -> States] /\ exception' \in [Ends -> Exceptions]
           /\ sendStreams' \in [Ends -> Seq(Messages)] /\ channel' \in [Ends -> Seq(Messages)]
           /\ state[e] # "Finished" /\ state'[e] # "Finished"
           /\ \A c : c \in Requested(sendStreams'[e]) => c \in Requested(sendStreams[e])
           /\ SendQueue(e)' /\ SendQueue(Peer(e))' /\ Ordering(e)' /\ Ordering(Peer(e))'
           /\ EndState(e)' /\ Routes(e)' /\ EndOK(Peer(e))' /\ Counting(Peer(e))'
           /\ \A c \in Calls : CallOK(c)'
           /\ Unaccepted' /\ Graceful'
<1> DEFINE p == Peer(e)
<1>0. p \in Ends /\ p # e /\ Peer(p) = e /\ Peer(p)' = e /\ Peer(e)' = p
      /\ \A f \in Ends : f = e \/ f = p
  BY PeerOfPeer DEF Peer
<1>1. /\ TypeOK /\ SendQueue(p) /\ Ordering(p) /\ EndState(e) /\ Routes(e)
      /\ EndState(p) /\ Routes(p) /\ \A c \in Calls : CallOK(c)
  BY <1>0 DEF IInv, EndOK
<1>2. /\ state \in [Ends -> States] /\ exception \in [Ends -> Exceptions]
      /\ requests[e] \subseteq Calls /\ requests[p] \subseteq Calls
      /\ Caller \in [Calls -> Ends]
  BY <1>0, <1>1, CallsAssumption DEF TypeOK
<1>3. s \in States \ Ending /\ x \in Exceptions
  BY <1>2 DEF SendsAnswers, States, Ending, Exceptions
<1>4. /\ ms \in Sendable
      /\ \A c : Request(c) \notin Elems(ms)
      /\ \A c : Reply(c) \in Elems(ms) =>
           c \in Calls /\ c \in dispatching[e] /\ c \notin dispatching'[e] /\ c \in Twoway
      /\ \A c \in Calls : ms # <<Request(c)>>
  BY AnswersElems
<1>5. SendMessages(e, ms, s, x) /\ UNCHANGED <<written, socketOpen>>
  BY DEF SendsAnswers
<1>6. /\ state' \in [Ends -> States] /\ exception' \in [Ends -> Exceptions]
      /\ sendStreams' \in [Ends -> Seq(Messages)] /\ channel' \in [Ends -> Seq(Messages)]
      /\ state'[p] = state[p] /\ exception'[p] = exception[p]
      /\ sendStreams'[p] = sendStreams[p]
      /\ \/ state'[e] = s /\ exception'[e] = x
         \/ /\ state'[e] = "Closed" /\ exception'[e] = Keep(x, "Lost")
            /\ WriteMayFail(e) /\ sendStreams' = sendStreams /\ ms # <<>>
      /\ InTransit(p)' = InTransit(p) /\ Shrinks(p) /\ InT(p)' = InT(p)
      /\ Sends(e, ms) /\ SendQueue(e)' /\ SendQueue(p)'
      /\ InT(e) \subseteq InT(e)' /\ InT(e)' \subseteq InT(e) \cup Elems(ms)
      /\ socketOpen[p] /\ state'[e] \notin Ending => Elems(ms) \subseteq InT(e)'
      /\ \A c : c \in Requested(sendStreams'[e]) =>
           c \in Requested(sendStreams[e]) \/ Request(c) \in Elems(ms)
  BY <1>3, <1>4, <1>5, SendStep
<1>7. /\ requests' = requests /\ executions' = executions /\ socketOpen' = socketOpen
      /\ torn' = torn /\ environment' = environment /\ written' = written
      /\ dispatching'[p] = dispatching[p] /\ callbacks'[p] = callbacks[p]
      /\ dispatchCount'[p] = dispatchCount[p] /\ reaped'[p] = reaped[p]
      /\ dispatching'[e] \subseteq dispatching[e]
      /\ state[e] \notin Ending /\ (state[e] = "NotValidated" => ms = <<>>)
  BY DEF SendsAnswers
<1>8. \A c : c \in Requested(sendStreams'[e]) => c \in Requested(sendStreams[e])
  BY <1>4, <1>6
<1>9. /\ state'[e] \in {"NotValidated"} => state[e] = "NotValidated" /\ s = state[e] /\ ms = <<>>
      /\ state'[e] \in Running => state[e] \in Running
      /\ state[e] \in Stopping => state'[e] \in Stopping
      /\ exception'[e] = "CloseConnection" =>
           exception[e] = "CloseConnection" \/ requests[e] = {}
      /\ state'[e] # "Finished" /\ state[e] # "Finished"
  <2>1. \/ s = state[e] /\ x = exception[e]
        \/ /\ state[e] \in Open /\ s = "Closing" /\ x \in {"CloseConnection", "Destroyed", "Idle"}
           /\ x \in {"CloseConnection", "Idle"} => requests[e] = {}
    BY DEF SendsAnswers
  <2>2. state[e] \in Running \/ state[e] = "NotValidated"
    BY <1>2, <1>7 DEF States, Running, Ending
  <2>3. state'[e] = s \/ (state'[e] = "Closed" /\ ms # <<>>)
    BY <1>6
  <2>4. s = state[e] \/ (state[e] \in Open /\ s = "Closing")
    BY <2>1
  <2>5. state'[e] \in Running => state[e] \in Running
    BY <2>2, <2>3, <2>4 DEF Running, Open
  <2>6. state'[e] # "Finished" /\ state[e] # "Finished"
    BY <1>3, <1>7, <2>3 DEF Ending
  <2>7. state[e] \in Stopping => state'[e] \in Stopping
    BY <2>3, <2>4 DEF Stopping, Open, Ending
  <2>8. state'[e] = "NotValidated" => state[e] = "NotValidated" /\ s = state[e] /\ ms = <<>>
    BY <1>7, <2>3, <2>4
  <2>9. exception'[e] = "CloseConnection" =>
           exception[e] = "CloseConnection" \/ requests[e] = {}
    BY <1>6, <2>1 DEF Keep
  <2>10. QED
    BY <2>5, <2>6, <2>7, <2>8, <2>9
<1>10. Ordering(e)'
  BY <1>6, AnswersOrdering
<1>11. Ordering(p)'
  <2>1. Executed(e)' = Executed(e)
    BY <1>7 DEF Executed
  <2>2. QED
    BY <1>0, <1>1, <1>6, <2>1 DEF Ordering
<1>12. EndState(e)'
  <2>1. socketOpen'[e] = (state'[e] # "Finished")
    BY <1>1, <1>7, <1>9 DEF EndState
  <2>2. exception'[e] = "none" <=> state'[e] \in Unopened
    <3>1. exception[e] = "none" <=> state[e] \in Unopened
      BY <1>1 DEF EndState
    <3>2. CASE state'[e] = s /\ exception'[e] = x
      BY <3>1, <3>2 DEF SendsAnswers, Unopened, Open
    <3>3. CASE state'[e] = "Closed" /\ exception'[e] = Keep(x, "Lost")
      BY <3>3 DEF Keep, Unopened, Open
    <3>4. QED
      BY <1>6, <3>2, <3>3
  <2>3. Close \in InT(e)' => state'[e] \in Stopping /\ dispatching'[e] = {}
    <3>1. CASE Close \in InT(e)
      <4>1. state[e] \in Stopping /\ dispatching[e] = {}
        BY <1>1, <3>1 DEF EndState
      <4>2. QED
        BY <1>7, <1>9, <4>1
    <3>2. CASE Close \in Elems(ms)
      <4>1. s = "Closing" /\ dispatching'[e] = {}
        BY <3>2 DEF SendsAnswers
      <4>2. QED
        BY <1>6, <4>1 DEF Stopping, Ending
    <3>3. QED
      BY <1>6, <3>1, <3>2
  <2>4. exception'[e] = "Idle" => requests[e] = {}
    BY <1>1, <1>6 DEF EndState, SendsAnswers, Keep
  <2>5. QED
    BY <1>0, <1>1, <1>7, <1>9, <2>1, <2>2, <2>3, <2>4 DEF EndState
<1>13. Routes(e)'
  BY <1>0, <1>1, <1>4, <1>6, <1>7, <1>8 DEF Routes
<1>14. EndOK(p)' /\ Counting(p)'
  <2>1. OnlyOwnCalls(p)
    BY <1>0, <1>7 DEF OnlyOwnCalls, SendsAnswers
  <2>2. QED
    BY <1>0, <1>6, <1>7, <2>1, UntouchedEnd DEF Untouched
<1>15. ASSUME NEW c \in Calls
       PROVE  CallOK(c)'
  <2>0. \/ outcome'[c] = outcome[c]
        \/ /\ Caller[c] = e /\ outcome'[c] = "ok" /\ outcome[c] # "idle"
           /\ c \notin requests[e] /\ c \notin Requested(sendStreams[e])
    BY DEF SendsAnswers
  <2>1. CASE Caller[c] = e
    BY <1>0, <1>4, <1>6, <1>7, <1>8, <1>9, <2>0, <2>1, <1>1, CallKept DEF Keeps, Ending
  <2>2. CASE Caller[c] = p
    <3>1. /\ c \in requests[p] => c \in Twoway /\ socketOpen[p]
          /\ c \in dispatching[e] /\ c \notin dispatching'[e] /\ c \in Twoway =>
               Reply(c) \in Elems(ms)
      BY <1>0, <1>1, <2>2 DEF EndState, SendsAnswers, CallOK
    <3>2. c \in requests'[p] /\ state'[e] \notin Ending =>
            (c \in dispatching[e] \/ Reply(c) \in InT(e)
               => c \in dispatching'[e] \/ Reply(c) \in InT(e)')
      BY <1>6, <1>7, <3>1
    <3>3. outcome'[c] = outcome[c]
      BY <1>0, <2>0, <2>2
    <3>4. Reply(c) \in InT(e)' =>
            \/ Reply(c) \in InT(e)
            \/ c \in dispatching[e] /\ c \notin dispatching'[e] /\ c \in Twoway
      BY <1>4, <1>6
    <3>5. Keeps(c)
      BY <1>0, <1>6, <1>7, <1>9, <2>2, <3>2, <3>3, <3>4 DEF Keeps
    <3>6. QED
      BY <1>1, <3>5, CallKept
  <2>3. QED
    BY <1>0, <1>2, <2>1, <2>2
<1>16. Unaccepted'
  <2>1. \A f \in Ends : /\ state'[f] = "NotValidated" => state[f] = "NotValidated"
                        /\ state'[f] \in Running => state[f] \in Running
                        /\ state'[f] = "NotValidated" => InTransit(f)' = InTransit(f)
    <3>1. state'[e] = "NotValidated" => InTransit(e)' = InTransit(e)
      BY <1>1, <1>6, <1>9, SendingNothing DEF IInv
    <3>2. QED
      BY <1>0, <1>6, <1>9, <3>1
  <2>2. QED
    BY <2>1, UnacceptedKept DEF Ends
<1>17. Graceful'
  <2>1. "A" \in Ends /\ "B" \in Ends
    BY DEF Ends
  <2>2. \A c \in Calls : outcome'[c] = "fatal" => outcome[c] = "fatal"
    BY DEF SendsAnswers
  <2>3. \A f \in Ends : state[f] \in Ending => state'[f] \in Ending /\ f = p
    BY <1>0, <1>6, <1>7
  <2>4. state[p] = "Finished" => exception[p] # "none"
    BY <1>1 DEF EndState, Unopened, Open
  <2>5. exception[e] # "none" <=> state[e] \notin Unopened
    BY <1>1 DEF EndState
  <2>6. CASE state'[e] = s /\ s = state[e] /\ exception'[e] = x /\ x = exception[e]
    <3>1. \A f \in Ends : /\ exception'[f] = exception[f]
                          /\ state'[f] = state[f]
      BY <1>0, <1>6, <2>6
    <3>2. state["B"] \in Ending => InTransit("B")' = InTransit("B")
      BY <1>0, <1>6, <1>7, <2>1
    <3>3. QED
      BY <1>7, <2>1, <2>2, <3>1, <3>2, GracefulKept
  <2>7. CASE /\ state'[e] = s /\ s = "Closing" /\ exception'[e] = x
             /\ state[e] \in Open /\ x \in {"CloseConnection", "Destroyed", "Idle"}
    <3>1. \A f \in Ends :
               /\ exception[f] # "none" => exception'[f] = exception[f]
               /\ exception'[f] \in {exception[f], "CloseConnection", "Destroyed", "Idle"}
               /\ ~(state'[f] \in Ending /\ exception'[Peer(f)] = "none")
      <4>1. exception[e] = "none" /\ exception'[e] # "none" /\ state'[e] \notin Ending
        BY <2>5, <2>7 DEF Unopened, Ending
      <4>2. QED
        BY <1>0, <1>6, <2>7, <4>1
    <3>2. QED
      BY <1>7, <2>2, <2>3, <3>1, GracefulTold
  <2>8. CASE Faulty
    BY <1>7, <2>8, GracefulFaulty
  <2>9. CASE state'[e] = "Closed" /\ exception'[e] = Keep(x, "Lost") /\ ~Faulty /\ WriteMayFail(e)
    <3>1. state[p] = "Finished"
      BY <1>1, <2>9 DEF WriteMayFail, EndState
    <3>2. CASE x = exception[e]
      BY <1>6, <1>7, <2>2, <2>9, <3>1, <3>2, GracefulLost
    <3>3. CASE state[e] \in Open /\ x \in {"CloseConnection", "Destroyed", "Idle"}
      <4>1. exception[e] = "none" /\ exception'[e] = x /\ exception'[e] # "none"
        BY <2>5, <2>9, <3>3 DEF Unopened, Keep
      <4>2. \A f \in Ends :
               /\ exception[f] # "none" => exception'[f] = exception[f]
               /\ exception'[f] \in {exception[f], "CloseConnection", "Destroyed", "Idle"}
               /\ ~(state'[f] \in Ending /\ exception'[Peer(f)] = "none")
        BY <1>0, <1>6, <2>4, <3>1, <3>3, <4>1
      <4>3. QED
        BY <1>7, <2>2, <2>3, <4>2, GracefulTold
    <3>4. QED
      BY <3>2, <3>3 DEF SendsAnswers
  <2>10. QED
    BY <1>6, <2>6, <2>7, <2>8, <2>9 DEF SendsAnswers
<1>18. QED
  BY <1>6, <1>8, <1>9, <1>10, <1>11, <1>12, <1>13, <1>14, <1>15, <1>16, <1>17

\* Counting down: an upcall of e has ended.
LEMMA CountedDown ==
    ASSUME TypeOK, NEW e \in Ends, Counting(e), CountDown(e),
           state'[e] = "Finished" <=> state[e] = "Finished",
           \/ /\ \E d \in dispatching[e] : dispatching'[e] = dispatching[e] \ {d}
              /\ callbacks'[e] = callbacks[e]
           \/ /\ \E cb \in callbacks[e] : callbacks'[e] = callbacks[e] \ {cb}
              /\ dispatching'[e] = dispatching[e]
    PROVE  /\ Counting(e)' /\ dispatchCount[e] - 1 \in Nat
           /\ dispatchCount[e] - 1 = 0 => dispatching'[e] = {}
           /\ dispatchCount' \in [Ends -> Nat] /\ reaped' \in [Ends -> Nat]
           /\ dispatchCount'[Peer(e)] = dispatchCount[Peer(e)]
           /\ reaped'[Peer(e)] = reaped[Peer(e)]
<1> DEFINE D == Cardinality(dispatching[e])
           C == Cardinality(callbacks[e])
           DD == Cardinality(dispatching'[e])
           CC == Cardinality(callbacks'[e])
           n == dispatchCount[e]
<1>0. Peer(e) \in Ends /\ Peer(e) # e
  BY PeerOfPeer
<1>1. /\ IsFiniteSet(dispatching[e]) /\ IsFiniteSet(callbacks[e]) /\ n = D + C
      /\ dispatchCount \in [Ends -> Nat] /\ reaped \in [Ends -> Nat]
  BY DEF Counting, TypeOK
<1>2. D \in Nat /\ C \in Nat
  BY <1>1, FS_CardinalityType
<1>3. /\ IsFiniteSet(dispatching'[e]) /\ IsFiniteSet(callbacks'[e])
      /\ DD \in Nat /\ CC \in Nat /\ D + C = (DD + CC) + 1
  <2>1. ASSUME NEW d \in dispatching[e], dispatching'[e] = dispatching[e] \ {d},
               callbacks'[e] = callbacks[e]
        PROVE  /\ IsFiniteSet(dispatching'[e]) /\ IsFiniteSet(callbacks'[e])
               /\ DD \in Nat /\ CC \in Nat /\ D + C = (DD + CC) + 1
    <3>1. /\ IsFiniteSet(dispatching[e] \ {d})
          /\ Cardinality(dispatching[e] \ {d}) = Cardinality(dispatching[e]) - 1
      BY <1>1, <2>1, FS_RemoveElement
    <3>2. IsFiniteSet(dispatching'[e]) /\ DD = D - 1 /\ CC = C
      BY <2>1, <3>1
    <3>3. DD \in Nat
      BY <3>2, FS_CardinalityType
    <3> HIDE DEF D, C, DD, CC
    <3>4. D + C = (DD + CC) + 1 /\ CC \in Nat /\ DD \in Nat
      BY <1>2, <3>2, <3>3
    <3>5. QED
      BY <1>1, <2>1, <3>2, <3>4
  <2>2. ASSUME NEW cb \in callbacks[e], callbacks'[e] = callbacks[e] \ {cb},
               dispatching'[e] = dispatching[e]
        PROVE  /\ IsFiniteSet(dispatching'[e]) /\ IsFiniteSet(callbacks'[e])
               /\ DD \in Nat /\ CC \in Nat /\ D + C = (DD + CC) + 1
    <3>1. /\ IsFiniteSet(callbacks[e] \ {cb})
          /\ Cardinality(callbacks[e] \ {cb}) = Cardinality(callbacks[e]) - 1
      BY <1>1, <2>2, FS_RemoveElement
    <3>2. IsFiniteSet(callbacks'[e]) /\ CC = C - 1 /\ DD = D
      BY <2>2, <3>1
    <3>3. CC \in Nat
      BY <3>2, FS_CardinalityType
    <3> HIDE DEF D, C, DD, CC
    <3>4. D + C = (DD + CC) + 1 /\ CC \in Nat /\ DD \in Nat
      BY <1>2, <3>2, <3>3
    <3>5. QED
      BY <1>1, <2>2, <3>2, <3>4
  <2>3. QED
    BY <2>1, <2>2
<1>4. n - 1 = DD + CC /\ n - 1 \in Nat /\ n \in Nat
  <2> HIDE DEF D, C, DD, CC, n
  <2>1. QED
    BY <1>1, <1>2, <1>3
<1>5. dispatchCount' = [dispatchCount EXCEPT ![e] = n - 1]
  BY DEF CountDown
<1>6. /\ dispatchCount' \in [Ends -> Nat] /\ dispatchCount'[e] = n - 1
      /\ dispatchCount'[Peer(e)] = dispatchCount[Peer(e)]
  BY <1>0, <1>1, <1>4, <1>5
<1>7. /\ reaped' \in [Ends -> Nat] /\ reaped'[Peer(e)] = reaped[Peer(e)]
      /\ reaped'[e] = IF n = 1 /\ state[e] = "Finished" THEN reaped[e] + 1 ELSE reaped[e]
  BY <1>0, <1>1 DEF CountDown
<1>8. reaped'[e] = IF state'[e] = "Finished" /\ n - 1 = 0 THEN 1 ELSE 0
  <2>1. reaped[e] = IF state[e] = "Finished" /\ n = 0 THEN 1 ELSE 0
    BY DEF Counting
  <2>2. n # 0 /\ (n = 1 <=> n - 1 = 0)
    BY <1>4
  <2>3. reaped[e] = 0
    BY <2>1, <2>2
  <2>4. QED
    BY <1>7, <2>2, <2>3
<1>9. n - 1 = 0 => dispatching'[e] = {}
  <2>1. ASSUME n - 1 = 0
        PROVE  DD = 0
    <3> HIDE DEF D, C, DD, CC, n
    <3>1. QED
      BY <1>3, <1>4, <2>1
  <2>2. QED
    BY <1>3, <2>1, FS_EmptySet
<1>10. Counting(e)'
  BY <1>3, <1>4, <1>6, <1>8 DEF Counting
<1>11. QED
  BY <1>4, <1>6, <1>7, <1>9, <1>10

\* An end that dispatches nothing when its count is zero.
LEMMA CountedNone ==
    ASSUME NEW e \in Ends, Counting(e), dispatchCount[e] = 0
    PROVE  dispatching[e] = {}
<1>1. Cardinality(dispatching[e]) \in Nat /\ Cardinality(callbacks[e]) \in Nat
  BY FS_CardinalityType DEF Counting
<1>2. Cardinality(dispatching[e]) = 0
  BY <1>1 DEF Counting
<1>3. QED
  BY <1>2, FS_EmptySet DEF Counting

\* A graceful closure begins: the close message goes out if nothing is being
\* dispatched.
LEMMA SetClosingStep ==
    ASSUME IInv, NEW e \in Ends, NEW x \in {"CloseConnection", "Destroyed", "Idle"},
           SetClosing(e, x), x \in {"CloseConnection", "Idle"} => requests[e] = {},
           state[e] = "NotValidated" => x = "Destroyed",
           UNCHANGED <<environment, dispatchCount, written, requests, dispatching,
                       callbacks, reaped, socketOpen, callVars, assertFailed>>,
           waiters' \in [Ends -> [Threads -> WaiterStates]]
    PROVE  IInv'
<1> DEFINE p == Peer(e)
<1>0. p \in Ends /\ p # e /\ Peer(p) = e /\ "A" \in Ends /\ "B" \in Ends
      /\ \A f \in Ends : f = e \/ f = p
  BY PeerOfPeer DEF Ends
<1>1. /\ TypeOK /\ EndState(e) /\ EndState(p) /\ Counting(e) /\ Upcalls(e) /\ Graceful
      /\ Unaccepted
  BY <1>0 DEF IInv, EndOK
<1>2. state \in [Ends -> States] /\ exception \in [Ends -> Exceptions] /\ assertFailed' \in BOOLEAN
  BY <1>1 DEF TypeOK
<1>3. CASE state[e] = "NotValidated"
  <2>1. /\ state' = [state EXCEPT ![e] = "Closed"] /\ exception' = [exception EXCEPT ![e] = "Destroyed"]
        /\ UNCHANGED <<sendStreams, channel>>
    BY <1>3 DEF SetClosing, Open, Ending
  <2>2. exception[e] = "none"
    BY <1>1, <1>3 DEF EndState, Unopened
  <2>3. StateChange(e, "Closed", "Destroyed")
    BY <1>3, <2>2 DEF StateChange, Ending, Exceptions
  <2>4. Graceful'
    <3>1. /\ state'[e] = "Closed" /\ exception'[e] = "Destroyed"
          /\ state'[p] = state[p] /\ exception'[p] = exception[p]
      BY <1>0, <1>2, <2>1
    <3>2. \A f \in Ends : InTransit(f)' = InTransit(f)
      BY <1>1, <2>1, QuietEffect DEF IInv
    <3>3. \A c \in Calls : Caller[c] \in Ends /\ (Harmless(c) => Harmless(c)')
      BY <1>0, <2>2, <3>1, CallsAssumption DEF Harmless, callVars
    <3>4. SUFFICES ASSUME environment = "graceful"
          PROVE  /\ \A f \in Ends : exception'[f] # "Forced"
                 /\ state'["A"] \in Ending /\ exception'["B"] = "none" =>
                      /\ exception'["A"] = "Destroyed"
                      /\ \A c \in Calls : Caller[c] = "B" => executions[c] = 0
                 /\ state'["B"] \in Ending /\ exception'["A"] = "none" =>
                      state'["A"] = "NotValidated" /\ InTransit("B") = <<>>
                 /\ \A c \in Calls : c \in requests[Caller[c]] /\ exception'[Caller[c]] = "Lost"
                      => Harmless(c)'
                 /\ \A c \in Calls : outcome[c] = "fatal" =>
                      exception'[Caller[c]] = "Destroyed" \/ Harmless(c)'
      BY <1>0, <3>2 DEF Graceful, callVars
    <3>5. \A f \in Ends : exception'[f] # "Forced"
      BY <1>0, <1>1, <3>1, <3>4 DEF Graceful
    <3>6. ASSUME state'["A"] \in Ending, exception'["B"] = "none"
          PROVE  /\ exception'["A"] = "Destroyed"
                 /\ \A c \in Calls : Caller[c] = "B" => executions[c] = 0
      <4>1. e = "A" /\ p = "B"
        <5>1. e # "B"
          BY <3>1, <3>6
        <5>2. QED
          BY <1>0, <5>1 DEF Ends
      <4>2. QED
        BY <1>1, <1>3, <3>1, <4>1 DEF EndState
    <3>7. ASSUME state'["B"] \in Ending, exception'["A"] = "none"
          PROVE  state'["A"] = "NotValidated" /\ InTransit("B") = <<>>
      <4>1. e = "B" /\ p = "A"
        <5>1. e # "A"
          BY <3>1, <3>7
        <5>2. QED
          BY <1>0, <5>1 DEF Ends
      <4>2. exception["A"] = "none" /\ state["A"] \notin Running /\ InTransit("B") = <<>>
        BY <1>1, <1>3, <3>1, <3>7, <4>1 DEF Unaccepted
      <4>3. state["A"] \in Unopened
        BY <1>1, <4>1, <4>2 DEF EndState
      <4>4. QED
        BY <3>1, <4>1, <4>2, <4>3 DEF Unopened, Running, Open
    <3>8. ASSUME NEW c \in Calls, c \in requests[Caller[c]], exception'[Caller[c]] = "Lost"
          PROVE  Harmless(c)'
      BY <1>0, <1>1, <3>1, <3>3, <3>4, <3>8 DEF Graceful
    <3>9. ASSUME NEW c \in Calls, outcome[c] = "fatal"
          PROVE  exception'[Caller[c]] = "Destroyed" \/ Harmless(c)'
      BY <1>0, <1>1, <3>1, <3>3, <3>4, <3>9 DEF Graceful
    <3>10. QED
      BY <3>5, <3>6, <3>7, <3>8, <3>9
  <2>5. QED
    BY <1>2, <2>1, <2>3, <2>4, StateStep DEF callVars
<1>4. CASE state[e] \in Ending \cup {"Closing"}
  <2>1. UNCHANGED connection
    BY <1>4 DEF SetClosing, Open, Ending, SendMessages
  <2>2. QED
    BY <1>2, <2>1, SameStateStep
<1>5. CASE state[e] \in Open
  <2> DEFINE ms == CloseIfIdle("Closing", dispatchCount[e])
  <2>1. SendMessages(e, ms, "Closing", x)
    BY <1>5 DEF SetClosing, Open, Ending
  <2>2. /\ ms = <<>> \/ ms = <<Close>>
        /\ ms = <<Close>> => dispatching[e] = {}
        /\ ms = <<>> \/ Elems(ms) = {Close}
    BY <1>1, CountedNone, SendableElems, MessageKinds DEF CloseIfIdle
  <2>3. Close \in Elems(ms) => dispatching[e] = {}
    BY <2>2, SendableElems
  <2> HIDE DEF ms
  <2>4. SendsAnswers(e, ms, "Closing", x)
    BY <1>0, <1>5, <2>1, <2>2, <2>3 DEF SendsAnswers, callVars, Open, Ending
  <2>5. /\ state' \in [Ends -> States] /\ exception' \in [Ends -> Exceptions]
        /\ sendStreams' \in [Ends -> Seq(Messages)] /\ channel' \in [Ends -> Seq(Messages)]
        /\ state[e] # "Finished" /\ state'[e] # "Finished"
        /\ \A c : c \in Requested(sendStreams'[e]) => c \in Requested(sendStreams[e])
        /\ SendQueue(e)' /\ SendQueue(Peer(e))' /\ Ordering(e)' /\ Ordering(Peer(e))'
        /\ EndState(e)' /\ Routes(e)' /\ EndOK(Peer(e))' /\ Counting(Peer(e))'
        /\ \A c \in Calls : CallOK(c)'
        /\ Unaccepted' /\ Graceful'
    BY <2>4, AnswersStep
  <2>6. TypeOK'
    BY <1>1, <2>5 DEF TypeOK, callVars
  <2>7. Counting(e)'
    BY <1>1, <2>5 DEF Counting
  <2>8. Upcalls(e)'
    BY <1>1, <2>5 DEF Upcalls, callVars
  <2>9. QED
    BY <2>5, <2>6, <2>7, <2>8, Assemble DEF EndOK
<1>6. QED
  BY <1>2, <1>3, <1>4, <1>5 DEF States, Open, Ending

LEMMA CloseGracefullyStep ==
    ASSUME IInv, NEW e \in Ends, CloseGracefully(e)
    PROVE  IInv'
<1>1. TypeOK
  BY DEF IInv
<1>2. waiters \in [Ends -> [Threads -> WaiterStates]] /\ assertFailed \in BOOLEAN
  BY <1>1 DEF TypeOK
<1>3. waiters' \in [Ends -> [Threads -> WaiterStates]]
  <2>1. CASE waiters' = [waiters EXCEPT ![e]["close"] = "waiting"]
    BY <1>2, <2>1 DEF WaiterStates
  <2>2. CASE waiters' = [waiters EXCEPT ![e] =
                  [(IF state'[e] # state[e] THEN Woken(@) ELSE @) EXCEPT !["close"] = "done"]]
    <3> DEFINE w == IF state'[e] # state[e] THEN Woken(waiters[e]) ELSE waiters[e]
    <3>1. w \in [Threads -> WaiterStates]
      BY <1>2 DEF Woken, WaiterStates
    <3>2. waiters' = [waiters EXCEPT ![e] = [w EXCEPT !["close"] = "done"]]
      BY <2>2
    <3> HIDE DEF w
    <3>3. [w EXCEPT !["close"] = "done"] \in [Threads -> WaiterStates]
      BY <3>1 DEF WaiterStates
    <3>4. QED
      BY <1>2, <3>2, <3>3
  <2>3. QED
    BY <2>1, <2>2 DEF CloseGracefully
<1>4. CASE requests[e] # {}
  BY <1>2, <1>3, <1>4, SameStateStep DEF CloseGracefully, NoAssertFails
<1>5. CASE requests[e] = {}
  BY <1>3, <1>5, SetClosingStep DEF CloseGracefully, NoAssertFails
<1>6. QED
  BY <1>4, <1>5

LEMMA DestroyStep ==
    ASSUME IInv, NEW e \in Ends, Destroy(e) \/ Monitor(e)
    PROVE  IInv'
<1>1. TypeOK
  BY DEF IInv
<1>2. waiters' \in [Ends -> [Threads -> WaiterStates]]
  BY <1>1, WaitersType DEF Destroy, Monitor
<1>3. CASE Destroy(e)
  BY <1>2, <1>3, SetClosingStep DEF Destroy, NoAssertFails
<1>4. CASE Monitor(e)
  BY <1>2, <1>4, SetClosingStep DEF Monitor, NoAssertFails
<1>5. QED
  BY <1>3, <1>4

-----------------------------------------------------------------------------
(***************************************************************************)
(* Upcalls that end                                                        *)
(***************************************************************************)

\* An upcall ends on a closed connection, or closes it: nothing is sent.
Drops(e) ==
    /\ UNCHANGED <<environment, sendStreams, channel, written, socketOpen, requests,
                   executions, torn>>
    /\ state' = [state EXCEPT ![e] = IF @ \in Ending THEN @ ELSE "Closed"]
    /\ exception' = [exception EXCEPT ![e] = Keep(@, "Lost")]
    /\ state[e] \in Ending \/ Faulty
    /\ dispatching'[Peer(e)] = dispatching[Peer(e)] /\ callbacks'[Peer(e)] = callbacks[Peer(e)]
    /\ dispatchCount'[Peer(e)] = dispatchCount[Peer(e)] /\ reaped'[Peer(e)] = reaped[Peer(e)]
    /\ dispatching'[e] \subseteq dispatching[e]
    /\ \A c \in Calls :
         \/ outcome'[c] = outcome[c]
         \/ /\ Caller[c] = e /\ outcome'[c] = "ok" /\ outcome[c] # "idle"
            /\ c \notin requests[e] /\ c \notin Requested(sendStreams[e])

LEMMA DropStep ==
    ASSUME IInv, NEW e \in Ends, Drops(e)
    PROVE  /\ state' \in [Ends -> States] /\ exception' \in [Ends -> Exceptions]
           /\ state'[e] = "Finished" <=> state[e] = "Finished"
           /\ SendQueue(e)' /\ SendQueue(Peer(e))' /\ Ordering(e)' /\ Ordering(Peer(e))'
           /\ EndState(e)' /\ Routes(e)' /\ EndOK(Peer(e))' /\ Counting(Peer(e))'
           /\ \A c \in Calls : CallOK(c)'
           /\ Unaccepted' /\ Graceful'
<1> DEFINE p == Peer(e)
<1>0. p \in Ends /\ p # e /\ Peer(p) = e /\ Peer(p)' = e /\ Peer(e)' = p
      /\ \A f \in Ends : f = e \/ f = p
  BY PeerOfPeer DEF Peer
<1>1. /\ TypeOK /\ SendQueue(e) /\ Ordering(e) /\ SendQueue(p) /\ Ordering(p)
      /\ EndState(e) /\ Routes(e) /\ \A c \in Calls : CallOK(c)
  BY <1>0 DEF IInv, EndOK
<1>2. /\ state \in [Ends -> States] /\ exception \in [Ends -> Exceptions]
      /\ Caller \in [Calls -> Ends]
  BY <1>1, CallsAssumption DEF TypeOK
<1>3. /\ state' \in [Ends -> States] /\ exception' \in [Ends -> Exceptions]
      /\ state'[e] \in Ending /\ state'[p] = state[p] /\ exception'[p] = exception[p]
      /\ exception'[e] = Keep(exception[e], "Lost") /\ exception'[e] # "none"
      /\ state'[e] = "Finished" <=> state[e] = "Finished"
  BY <1>0, <1>2 DEF Drops, States, Exceptions, Keep, Ending
<1>4. \A f \in Ends : /\ Shrinks(f) /\ InTransit(f)' = InTransit(f) /\ InT(f)' = InT(f)
                      /\ SendQueue(f)' /\ Executed(f)' = Executed(f)
  <2>1. ASSUME NEW f \in Ends
        PROVE  /\ Shrinks(f) /\ InTransit(f)' = InTransit(f) /\ SendQueue(f)'
    BY <1>1, QuietEffect DEF IInv, Drops
  <2>2. ASSUME NEW f \in Ends
        PROVE  InT(f)' = InT(f) /\ Executed(f)' = Executed(f)
    BY <2>1 DEF InT, Executed, Drops
  <2>3. QED
    BY <2>1, <2>2
<1>5. Ordering(e)' /\ Ordering(p)'
  BY <1>0, <1>1, <1>4 DEF Ordering
<1>6. EndState(e)'
  <2>1. exception[e] = "Idle" \/ exception'[e] # "Idle"
    BY <1>3 DEF Keep
  <2>2. state'[e] \notin Unopened /\ state'[e] \in Stopping /\ state'[e] # "NotValidated"
    BY <1>3 DEF Ending, Unopened, Open, Stopping
  <2>3. QED
    BY <1>0, <1>1, <1>3, <1>4, <2>1, <2>2 DEF EndState, Drops
<1>7. Routes(e)'
  BY <1>0, <1>1, <1>4 DEF Routes, Drops
<1>8. EndOK(p)' /\ Counting(p)'
  <2>1. OnlyOwnCalls(p)
    BY <1>0 DEF OnlyOwnCalls, Drops
  <2>2. Untouched(p)
    BY <1>3 DEF Untouched, Drops
  <2>3. QED
    BY <1>0, <1>4, <2>1, <2>2, UntouchedEnd
<1>9. ASSUME NEW c \in Calls
      PROVE  CallOK(c)'
  <2>0. \/ outcome'[c] = outcome[c]
        \/ /\ Caller[c] = e /\ outcome'[c] = "ok" /\ outcome[c] # "idle"
           /\ c \notin requests[e] /\ c \notin Requested(sendStreams[e])
    BY DEF Drops
  <2>1. Caller[c] = e \/ Caller[c] = p
    BY <1>0, <1>2
  <2>2. state[e] \in Stopping => state'[e] \in Stopping
    BY <1>3 DEF Stopping
  <2>3. exception'[e] = "CloseConnection" => exception[e] = "CloseConnection"
    BY <1>3 DEF Keep
  <2>4. Keeps(c)
    BY <1>0, <1>3, <1>4, <2>0, <2>1, <2>2, <2>3 DEF Keeps, Drops
  <2>5. QED
    BY <1>1, <2>4, CallKept
<1>10. Unaccepted'
  <2>1. \A f \in Ends : /\ state'[f] = "NotValidated" => state[f] = "NotValidated"
                        /\ state'[f] \in Running => state[f] \in Running
    BY <1>0, <1>3 DEF Ending, Running
  <2>2. QED
    BY <1>4, <2>1, UnacceptedKept DEF Ends
<1>11. Graceful'
  <2>1. CASE Faulty
    BY <2>1, GracefulFaulty DEF Drops
  <2>2. CASE state[e] \in Ending
    <3>1. exception[e] # "none"
      BY <1>1, <2>2 DEF EndState, Unopened, Open, Ending
    <3>2. \A f \in Ends : exception'[f] = exception[f] /\ state'[f] = state[f]
      BY <1>0, <1>2, <1>3, <2>2, <3>1 DEF Drops, Keep
    <3>3. \A c \in Calls : outcome'[c] = "fatal" => outcome[c] = "fatal"
      BY DEF Drops
    <3>4. "A" \in Ends /\ "B" \in Ends
      BY DEF Ends
    <3>5. QED
      BY <1>4, <3>2, <3>3, <3>4, GracefulKept DEF Drops
  <2>3. QED
    BY <2>1, <2>2 DEF Drops
<1>12. QED
  BY <1>0, <1>3, <1>4, <1>5, <1>6, <1>7, <1>8, <1>9, <1>10, <1>11

\* What follows the end of a dispatch.
LEMMA AnswerForms ==
    ASSUME NEW d \in Calls, NEW s, NEW n
    PROVE  LET ms == ReplyTo(d) \o CloseIfIdle(s, n) IN
           /\ \/ ms = <<>> \/ ms = <<Close>>
              \/ d \in Twoway /\ (ms = <<Reply(d)>> \/ ms = <<Reply(d), Close>>)
           /\ d \in Twoway => Reply(d) \in Elems(ms)
           /\ Close \in Elems(ms) => s = "Closing" /\ n = 0
<1> DEFINE r == Reply(d)
<1>1. r \in Messages /\ Close \in Messages /\ r # Close
  BY MessageKinds
<1>2. <<r>> \in Seq(Messages) /\ <<Close>> \in Seq(Messages) /\ <<>> \in Seq(Messages)
  BY <1>1
<1>3. /\ <<>> \o <<>> = <<>> /\ <<r>> \o <<>> = <<r>> /\ <<>> \o <<Close>> = <<Close>>
      /\ <<r>> \o <<Close>> = <<r, Close>>
  <2>1. <<>> \o <<>> = <<>> /\ <<r>> \o <<>> = <<r>> /\ <<>> \o <<Close>> = <<Close>>
    BY <1>2, ConcatEmptySeq
  <2>2. <<r, Close>> = <<r>> \o <<Close>>
    BY <1>1
  <2>3. QED
    BY <2>1, <2>2
<1>4. /\ Elems(<<>>) = {} /\ Elems(<<r>>) = {r} /\ Elems(<<Close>>) = {Close}
      /\ Elems(<<r, Close>>) = {r, Close}
  BY <1>1, SendableElems
<1>5. CASE d \in Twoway /\ s = "Closing" /\ n = 0
  BY <1>3, <1>4, <1>5 DEF ReplyTo, CloseIfIdle
<1>6. CASE d \in Twoway /\ ~(s = "Closing" /\ n = 0)
  BY <1>1, <1>3, <1>4, <1>6 DEF ReplyTo, CloseIfIdle
<1>7. CASE d \notin Twoway /\ s = "Closing" /\ n = 0
  BY <1>3, <1>4, <1>7 DEF ReplyTo, CloseIfIdle
<1>8. CASE d \notin Twoway /\ ~(s = "Closing" /\ n = 0)
  BY <1>3, <1>4, <1>8 DEF ReplyTo, CloseIfIdle
<1>9. QED
  BY <1>5, <1>6, <1>7, <1>8

\* A closed connection stays as it is.
LEMMA EndedStays ==
    ASSUME IInv, NEW e \in Ends, state[e] \in Ending, UNCHANGED connection
    PROVE  /\ state' = [state EXCEPT ![e] = IF @ \in Ending THEN @ ELSE "Closed"]
           /\ exception' = [exception EXCEPT ![e] = Keep(@, "Lost")]
<1>1. state \in [Ends -> States] /\ exception \in [Ends -> Exceptions]
  BY DEF IInv, TypeOK
<1>2. exception[e] # "none"
  BY DEF IInv, EndOK, EndState, Unopened, Open, Ending
<1>3. QED
  BY <1>1, <1>2 DEF connection, Keep

LEMMA DispatchDoneStep ==
    ASSUME IInv, NEW e \in Ends, NEW d \in dispatching[e], DispatchDone(e, d)
    PROVE  IInv'
<1> DEFINE p == Peer(e)
<1>0. p \in Ends /\ p # e /\ Peer(p) = e /\ "A" \in Ends
  BY PeerOfPeer DEF Ends
<1>1. TypeOK /\ Counting(e) /\ EndState(e) /\ Routes(e) /\ Upcalls(e)
  BY DEF IInv, EndOK
<1>2. d \in Calls /\ Caller[d] = p /\ executions[d] = 1
  BY <1>0, <1>1 DEF TypeOK, Routes, IInv, CallOK
<1>3. state[e] # "NotValidated"
  BY <1>0, <1>1, <1>2 DEF EndState
<1>4. dispatching \in [Ends -> SUBSET Calls] /\ assertFailed \in BOOLEAN
      /\ state \in [Ends -> States]
  BY <1>1 DEF TypeOK
<1>5. /\ dispatching'[e] = dispatching[e] \ {d} /\ dispatching'[p] = dispatching[p]
      /\ dispatching' \in [Ends -> SUBSET Calls]
      /\ callbacks' = callbacks
      /\ CountDown(e)
      /\ waiters' \in [Ends -> [Threads -> WaiterStates]]
      /\ UNCHANGED <<requests, callbacks, socketOpen, callVars, environment, assertFailed, written>>
  BY <1>0, <1>1, <1>4, WaitersType DEF DispatchDone, NoAssertFails
<1>6. ASSUME state'[e] = "Finished" <=> state[e] = "Finished"
      PROVE  /\ Counting(e)' /\ dispatchCount[e] - 1 \in Nat
             /\ dispatchCount[e] - 1 = 0 => dispatching'[e] = {}
             /\ dispatchCount' \in [Ends -> Nat] /\ reaped' \in [Ends -> Nat]
             /\ dispatchCount'[p] = dispatchCount[p]
             /\ reaped'[p] = reaped[p]
  BY <1>1, <1>5, <1>6, CountedDown
<1>7. ASSUME \A c : c \in Requested(sendStreams'[e]) => c \in Requested(sendStreams[e])
      PROVE  Upcalls(e)'
  BY <1>1, <1>5, <1>7 DEF Upcalls, callVars
<1>8. CASE state[e] \in Ending
  <2>1. UNCHANGED connection
    BY <1>8 DEF DispatchDone
  <2>2. /\ Counting(e)' /\ dispatchCount' \in [Ends -> Nat] /\ reaped' \in [Ends -> Nat]
        /\ dispatchCount'[p] = dispatchCount[p] /\ reaped'[p] = reaped[p]
    BY <1>6, <2>1 DEF connection
  <2>3. Drops(e)
    BY <1>5, <1>8, <2>1, <2>2, EndedStays DEF Drops, connection, callVars
  <2>4. TypeOK'
    BY <1>1, <1>5, <2>1, <2>2 DEF TypeOK, connection, callVars
  <2>5. Upcalls(e)'
    BY <1>7, <2>1 DEF connection
  <2>6. QED
    BY <2>2, <2>3, <2>4, <2>5, DropStep, Assemble DEF EndOK
<1>9. CASE state[e] \notin Ending
  <2> DEFINE ms == ReplyTo(d) \o CloseIfIdle(state[e], dispatchCount[e] - 1)
  <2>1. SendMessages(e, ms, state[e], exception[e])
    BY <1>9 DEF DispatchDone
  <2>2. /\ \/ ms = <<>> \/ ms = <<Close>>
           \/ d \in Twoway /\ (ms = <<Reply(d)>> \/ ms = <<Reply(d), Close>>)
        /\ d \in Twoway => Reply(d) \in Elems(ms)
        /\ Close \in Elems(ms) => state[e] = "Closing" /\ dispatchCount[e] - 1 = 0
    BY <1>2, AnswerForms
  <2> HIDE DEF ms
  <2>3. state'[e] = "Finished" <=> state[e] = "Finished"
    BY <1>4, <1>9, <2>1 DEF SendMessages, Ending
  <2>4. /\ Counting(e)' /\ dispatchCount' \in [Ends -> Nat] /\ reaped' \in [Ends -> Nat]
        /\ dispatchCount'[p] = dispatchCount[p] /\ reaped'[p] = reaped[p]
        /\ dispatchCount[e] - 1 = 0 => dispatching'[e] = {}
    BY <1>6, <2>3
  <2>5. SendsAnswers(e, ms, state[e], exception[e])
    BY <1>2, <1>3, <1>5, <1>9, <2>1, <2>2, <2>4 DEF SendsAnswers, callVars
  <2>6. /\ state' \in [Ends -> States] /\ exception' \in [Ends -> Exceptions]
        /\ sendStreams' \in [Ends -> Seq(Messages)] /\ channel' \in [Ends -> Seq(Messages)]
        /\ \A c : c \in Requested(sendStreams'[e]) => c \in Requested(sendStreams[e])
        /\ SendQueue(e)' /\ SendQueue(Peer(e))' /\ Ordering(e)' /\ Ordering(Peer(e))'
        /\ EndState(e)' /\ Routes(e)' /\ EndOK(Peer(e))' /\ Counting(Peer(e))'
        /\ \A c \in Calls : CallOK(c)'
        /\ Unaccepted' /\ Graceful'
    BY <2>5, AnswersStep
  <2>7. TypeOK'
    BY <1>1, <1>5, <2>4, <2>6 DEF TypeOK, callVars
  <2>8. QED
    BY <1>7, <2>4, <2>6, <2>7, Assemble DEF EndOK
<1>10. QED
  BY <1>8, <1>9

LEMMA DispatchFailedStep ==
    ASSUME IInv, NEW e \in Ends, NEW d \in dispatching[e], DispatchFailed(e, d)
    PROVE  IInv'
<1> DEFINE p == Peer(e)
<1>0. p \in Ends /\ p # e
  BY PeerOfPeer
<1>1. TypeOK /\ Counting(e) /\ Upcalls(e)
  BY DEF IInv, EndOK
<1>2. dispatching \in [Ends -> SUBSET Calls] /\ state \in [Ends -> States]
  BY <1>1 DEF TypeOK
<1>3. /\ dispatching'[e] = dispatching[e] \ {d} /\ dispatching'[p] = dispatching[p]
      /\ dispatching' \in [Ends -> SUBSET Calls]
      /\ callbacks' = callbacks
      /\ CountDown(e) /\ Faulty
      /\ state' = [state EXCEPT ![e] = IF @ \in Ending THEN @ ELSE "Closed"]
      /\ exception' = [exception EXCEPT ![e] = Keep(@, "Lost")]
      /\ waiters' \in [Ends -> [Threads -> WaiterStates]]
      /\ UNCHANGED <<sendStreams, channel, requests, socketOpen, callVars, environment,
                     assertFailed, written>>
  BY <1>0, <1>1, <1>2, WaitersType DEF DispatchFailed, NoAssertFails
<1>4. state'[e] = "Finished" <=> state[e] = "Finished"
  BY <1>2, <1>3 DEF Ending
<1>5. /\ Counting(e)' /\ dispatchCount' \in [Ends -> Nat] /\ reaped' \in [Ends -> Nat]
      /\ dispatchCount'[p] = dispatchCount[p] /\ reaped'[p] = reaped[p]
  BY <1>1, <1>3, <1>4, CountedDown
<1>6. Drops(e)
  BY <1>3, <1>5 DEF Drops, callVars
<1>7. /\ state' \in [Ends -> States] /\ exception' \in [Ends -> Exceptions]
      /\ SendQueue(e)' /\ SendQueue(Peer(e))' /\ Ordering(e)' /\ Ordering(Peer(e))'
      /\ EndState(e)' /\ Routes(e)' /\ EndOK(Peer(e))' /\ Counting(Peer(e))'
      /\ \A c \in Calls : CallOK(c)'
      /\ Unaccepted' /\ Graceful'
  BY <1>6, DropStep
<1>8. TypeOK'
  BY <1>1, <1>3, <1>5, <1>7 DEF TypeOK, callVars
<1>9. Upcalls(e)'
  BY <1>1, <1>3 DEF Upcalls, callVars
<1>10. QED
  BY <1>5, <1>7, <1>8, <1>9, Assemble DEF EndOK

\* The calls that the end of a callback completes.
LEMMA CallbackResolves ==
    ASSUME IInv, NEW e \in Ends, NEW cb \in callbacks[e],
           outcome' = [c \in Calls |-> IF cb.type = "reply" /\ c \in cb.calls
                                       THEN "ok" ELSE outcome[c]]
    PROVE  /\ outcome' \in [Calls -> {"idle", "pending", "ok", "retry", "fatal"}]
           /\ \A c \in Calls :
                \/ outcome'[c] = outcome[c]
                \/ /\ Caller[c] = e /\ outcome'[c] = "ok" /\ outcome[c] # "idle"
                   /\ c \notin requests[e] /\ c \notin Requested(sendStreams[e])
           /\ \A other \in callbacks[e] : other # cb /\ other.type = "reply" =>
                \A c \in other.calls : outcome'[c] = outcome[c]
<1>1. TypeOK /\ Upcalls(e)
  BY DEF IInv, EndOK
<1>2. /\ outcome \in [Calls -> {"idle", "pending", "ok", "retry", "fatal"}]
      /\ callbacks[e] \subseteq [type : {"sent", "reply"}, calls : SUBSET Calls]
  BY <1>1 DEF TypeOK
<1>3. outcome' \in [Calls -> {"idle", "pending", "ok", "retry", "fatal"}]
  BY <1>2
<1>4. ASSUME NEW c \in Calls, outcome'[c] # outcome[c]
      PROVE  /\ Caller[c] = e /\ outcome'[c] = "ok" /\ outcome[c] # "idle"
             /\ c \notin requests[e] /\ c \notin Requested(sendStreams[e])
  <2>1. cb.type = "reply" /\ c \in cb.calls /\ outcome'[c] = "ok"
    BY <1>4
  <2>2. QED
    BY <1>1, <2>1 DEF Upcalls
<1>5. ASSUME NEW other \in callbacks[e], other # cb, other.type = "reply",
             NEW c \in other.calls
      PROVE  outcome'[c] = outcome[c]
  <2>1. c \in Calls /\ other.calls = {c}
    BY <1>1, <1>2, <1>5 DEF Upcalls
  <2>2. ASSUME cb.type = "reply", c \in cb.calls
        PROVE  FALSE
    <3>1. cb.calls = {c}
      BY <1>1, <2>2 DEF Upcalls
    <3>2. /\ cb = [type |-> cb.type, calls |-> cb.calls]
          /\ other = [type |-> other.type, calls |-> other.calls]
      BY <1>2
    <3>3. QED
      BY <1>5, <2>1, <2>2, <3>1, <3>2
  <2>3. QED
    BY <2>1, <2>2
<1>6. QED
  BY <1>3, <1>4, <1>5

LEMMA CallbackDoneStep ==
    ASSUME IInv, NEW e \in Ends, NEW cb \in callbacks[e], CallbackDone(e, cb)
    PROVE  IInv'
<1> DEFINE p == Peer(e)
<1>0. p \in Ends /\ p # e /\ Peer(p) = e
  BY PeerOfPeer
<1>1. TypeOK /\ Counting(e) /\ EndState(e) /\ Upcalls(e)
  BY DEF IInv, EndOK
<1>2. /\ callbacks \in [Ends -> SUBSET [type : {"sent", "reply"}, calls : SUBSET Calls]]
      /\ state \in [Ends -> States]
  BY <1>1 DEF TypeOK
<1>3. /\ callbacks'[e] = callbacks[e] \ {cb} /\ callbacks'[p] = callbacks[p]
      /\ callbacks' \in [Ends -> SUBSET [type : {"sent", "reply"}, calls : SUBSET Calls]]
      /\ dispatching' = dispatching
      /\ CountDown(e)
      /\ waiters' \in [Ends -> [Threads -> WaiterStates]]
      /\ UNCHANGED <<requests, socketOpen, executions, torn, environment, assertFailed, written>>
  BY <1>0, <1>1, <1>2, WaitersType DEF CallbackDone, NoAssertFails
<1>4. /\ outcome' \in [Calls -> {"idle", "pending", "ok", "retry", "fatal"}]
      /\ \A c \in Calls :
           \/ outcome'[c] = outcome[c]
           \/ /\ Caller[c] = e /\ outcome'[c] = "ok" /\ outcome[c] # "idle"
              /\ c \notin requests[e] /\ c \notin Requested(sendStreams[e])
      /\ \A other \in callbacks[e] : other # cb /\ other.type = "reply" =>
           \A c \in other.calls : outcome'[c] = outcome[c]
  BY CallbackResolves DEF CallbackDone
<1>5. ASSUME state'[e] = "Finished" <=> state[e] = "Finished"
      PROVE  /\ Counting(e)' /\ dispatchCount[e] - 1 \in Nat
             /\ dispatchCount[e] - 1 = 0 => dispatching'[e] = {}
             /\ dispatchCount' \in [Ends -> Nat] /\ reaped' \in [Ends -> Nat]
             /\ dispatchCount'[p] = dispatchCount[p]
             /\ reaped'[p] = reaped[p]
  BY <1>1, <1>3, <1>5, CountedDown
<1>6. ASSUME \A c : c \in Requested(sendStreams'[e]) => c \in Requested(sendStreams[e])
      PROVE  Upcalls(e)'
  <2>1. SUFFICES ASSUME NEW other \in callbacks[e], other # cb
        PROVE  /\ \A c \in other.calls : /\ Caller[c] = e /\ outcome'[c] # "idle"
                                         /\ c \notin Requested(sendStreams'[e])
               /\ other.type = "reply" =>
                    \E c \in Calls : /\ other.calls = {c} /\ c \notin requests[e]
                                     /\ outcome'[c] = "pending" /\ executions[c] = 1
    BY <1>3 DEF Upcalls
  <2>2. \A c \in other.calls : c \in Calls
    BY <1>2
  <2>3. \A c \in other.calls : /\ Caller[c] = e /\ outcome'[c] # "idle"
                               /\ c \notin Requested(sendStreams'[e])
    BY <1>1, <1>4, <1>6, <2>2 DEF Upcalls
  <2>4. ASSUME other.type = "reply"
        PROVE  \E c \in Calls : /\ other.calls = {c} /\ c \notin requests[e]
                                /\ outcome'[c] = "pending" /\ executions[c] = 1
    <3>1. PICK c \in Calls : /\ other.calls = {c} /\ c \notin requests[e]
                             /\ outcome[c] = "pending" /\ executions[c] = 1
      BY <1>1, <2>4 DEF Upcalls
    <3>2. outcome'[c] = outcome[c]
      BY <1>4, <2>1, <2>4, <3>1
    <3>3. QED
      BY <3>1, <3>2
  <2>5. QED
    BY <2>3, <2>4
<1>8. CASE state[e] \in Ending
  <2>1. UNCHANGED connection
    BY <1>8 DEF CallbackDone
  <2>2. /\ Counting(e)' /\ dispatchCount' \in [Ends -> Nat] /\ reaped' \in [Ends -> Nat]
        /\ dispatchCount'[p] = dispatchCount[p] /\ reaped'[p] = reaped[p]
    BY <1>5, <2>1 DEF connection
  <2>3. Drops(e)
    BY <1>3, <1>4, <1>8, <2>1, <2>2, EndedStays DEF Drops, connection
  <2>4. TypeOK'
    BY <1>1, <1>3, <1>4, <2>1, <2>2 DEF TypeOK, connection
  <2>5. Upcalls(e)'
    BY <1>6, <2>1 DEF connection
  <2>6. QED
    BY <2>2, <2>3, <2>4, <2>5, DropStep, Assemble DEF EndOK
<1>9. CASE state[e] \notin Ending
  <2> DEFINE ms == CloseIfIdle(state[e], dispatchCount[e] - 1)
  <2>1. SendMessages(e, ms, state[e], exception[e])
    BY <1>9 DEF CallbackDone
  <2>2. /\ ms = <<>> \/ ms = <<Close>>
        /\ ms = <<Close>> => state[e] = "Closing" /\ dispatchCount[e] - 1 = 0
    BY DEF CloseIfIdle
  <2>3. Close \in Elems(ms) => ms = <<Close>>
    BY <2>2, SendableElems
  <2> HIDE DEF ms
  <2>4. state'[e] = "Finished" <=> state[e] = "Finished"
    BY <1>2, <1>9, <2>1 DEF SendMessages, Ending
  <2>5. /\ Counting(e)' /\ dispatchCount' \in [Ends -> Nat] /\ reaped' \in [Ends -> Nat]
        /\ dispatchCount'[p] = dispatchCount[p] /\ reaped'[p] = reaped[p]
        /\ dispatchCount[e] - 1 = 0 => dispatching'[e] = {}
    BY <1>5, <2>4
  <2>6. SendsAnswers(e, ms, state[e], exception[e])
    BY <1>3, <1>4, <1>9, <2>1, <2>2, <2>3, <2>5 DEF SendsAnswers
  <2>7. /\ state' \in [Ends -> States] /\ exception' \in [Ends -> Exceptions]
        /\ sendStreams' \in [Ends -> Seq(Messages)] /\ channel' \in [Ends -> Seq(Messages)]
        /\ \A c : c \in Requested(sendStreams'[e]) => c \in Requested(sendStreams[e])
        /\ SendQueue(e)' /\ SendQueue(Peer(e))' /\ Ordering(e)' /\ Ordering(Peer(e))'
        /\ EndState(e)' /\ Routes(e)' /\ EndOK(Peer(e))' /\ Counting(Peer(e))'
        /\ \A c \in Calls : CallOK(c)'
        /\ Unaccepted' /\ Graceful'
    BY <2>6, AnswersStep
  <2>8. TypeOK'
    BY <1>1, <1>3, <1>4, <2>5, <2>7 DEF TypeOK
  <2>9. QED
    BY <1>6, <2>5, <2>7, <2>8, Assemble DEF EndOK
<1>10. QED
  BY <1>8, <1>9

-----------------------------------------------------------------------------
(***************************************************************************)
(* Calls that are made                                                     *)
(***************************************************************************)

\* A call that nothing tells of but its outcome.
LEMMA IdleCall ==
    ASSUME IInv, NEW c \in Calls, outcome[c] = "idle"
    PROVE  /\ Caller[c] \in Ends /\ Request(c) \notin InT(Caller[c])
           /\ Reply(c) \notin InT(Peer(Caller[c])) /\ executions[c] = 0
           /\ \A e \in Ends : /\ c \notin requests[e] /\ c \notin dispatching[e]
                              /\ c \notin Requested(sendStreams[e])
                              /\ \A cb \in callbacks[e] : c \notin cb.calls
<1>1. Caller[c] \in Ends /\ CallOK(c) /\ \A e \in Ends : Routes(e) /\ Upcalls(e)
  BY CallsAssumption DEF IInv, EndOK
<1>2. \A e \in Ends : c \in dispatching[e] => e = Peer(Caller[c])
  BY <1>1, PeerOfPeer DEF Routes
<1>3. QED
  BY <1>1, <1>2 DEF CallOK, Routes, Upcalls

LEMMA InvokeRefusedStep ==
    ASSUME IInv, NEW c \in Calls, InvokeRefused(c)
    PROVE  IInv'
<1> DEFINE e == Caller[c]
           p == Peer(e)
<1>0. e \in Ends /\ p \in Ends /\ p # e /\ Peer(p) = e /\ Peer(p)' = e /\ Peer(e)' = p
      /\ \A f \in Ends : f = e \/ f = p
  BY CallsAssumption, PeerOfPeer DEF Peer
<1>1. TypeOK /\ EndOK(e) /\ Upcalls(e) /\ Counting(e) /\ \A f \in Ends : SendQueue(f) /\ Ordering(f)
  BY <1>0 DEF IInv, EndOK
<1>2. /\ outcome[c] = "idle" /\ outcome' = [outcome EXCEPT ![c] = "retry"]
      /\ UNCHANGED <<connection, dispatchCount, requests, dispatching, callbacks, waiters,
                     reaped, socketOpen, executions, torn, assertFailed, environment, written>>
  BY DEF InvokeRefused, NoAssertFails
<1>3. outcome \in [Calls -> {"idle", "pending", "ok", "retry", "fatal"}]
  BY <1>1 DEF TypeOK
<1>4. /\ outcome' \in [Calls -> {"idle", "pending", "ok", "retry", "fatal"}]
      /\ outcome'[c] = "retry" /\ \A d \in Calls : d # c => outcome'[d] = outcome[d]
  BY <1>2, <1>3
<1>5. TypeOK'
  BY <1>1, <1>2, <1>4 DEF TypeOK, connection
<1>6. \A f \in Ends : /\ InTransit(f)' = InTransit(f) /\ InT(f)' = InT(f)
                      /\ SendQueue(f)' /\ Executed(f)' = Executed(f)
  <2>1. \A f \in Ends : InTransit(f)' = InTransit(f) /\ SendQueue(f)'
    BY <1>1, <1>2, QuietEffect DEF connection
  <2>2. QED
    BY <1>2, <2>1 DEF InT, Executed
<1>7. Ordering(e)' /\ Ordering(p)'
  BY <1>0, <1>1, <1>6 DEF Ordering
<1>8. /\ Request(c) \notin InT(e) /\ Reply(c) \notin InT(p) /\ executions[c] = 0
      /\ \A f \in Ends : /\ c \notin requests[f] /\ c \notin dispatching[f]
                         /\ c \notin Requested(sendStreams[f])
                         /\ \A cb \in callbacks[f] : c \notin cb.calls
  BY <1>2, IdleCall
<1>9. EndOK(p)' /\ Counting(p)'
  BY <1>0, <1>2, <1>4, <1>6, UntouchedEnd DEF Untouched, OnlyOwnCalls, connection
<1>10. EndOK(e)' /\ Counting(e)'
  <2>1. EndState(e)' /\ Routes(e)' /\ Counting(e)'
    BY <1>0, <1>1, <1>2, <1>6 DEF EndOK, EndState, Routes, Counting, connection
  <2>2. \A cb \in callbacks[e] : cb.calls \subseteq Calls
    BY <1>0, <1>1 DEF TypeOK
  <2>3. Upcalls(e)'
    BY <1>1, <1>2, <1>4, <1>8, <2>2 DEF Upcalls, connection
  <2>4. QED
    BY <2>1, <2>3 DEF EndOK
<1>11. ASSUME NEW d \in Calls
       PROVE  CallOK(d)'
  <2>0. Caller[d] \in Ends /\ Peer(Caller[d]) \in Ends /\ CallOK(d)
    BY CallsAssumption, PeerOfPeer DEF IInv
  <2>1. CASE d = c
    <3>1. Peer(Caller[c])' = Peer(Caller[c])
      BY DEF Peer
    <3>2. QED
      BY <1>0, <1>2, <1>4, <1>6, <1>8, <2>1, <3>1 DEF CallOK, connection
  <2>2. CASE d # c
    <3>1. Keeps(d)
      BY <1>2, <1>4, <1>6, <2>0, <2>2 DEF Keeps, connection
    <3>2. QED
      BY <2>0, <3>1, CallKept
  <2>3. QED
    BY <2>1, <2>2
<1>12. Unaccepted'
  BY <1>2, <1>6, UnacceptedKept DEF connection, Ends
<1>13. Graceful'
  <2>1. "A" \in Ends /\ "B" \in Ends
    BY DEF Ends
  <2>2. QED
    BY <1>2, <1>4, <1>6, <2>1, GracefulKept DEF connection
<1>14. QED
  BY <1>0, <1>5, <1>6, <1>7, <1>9, <1>10, <1>11, <1>12, <1>13, Assemble

\* What a call changes, whether its request is sent, queued or lost.
LEMMA InvokeSends ==
    ASSUME IInv, NEW c \in Calls, Invoke(c)
    PROVE  LET e == Caller[c]
               p == Peer(e) IN
           /\ state[e] \in Open /\ exception[e] = "none" /\ outcome[c] = "idle"
           /\ state' \in [Ends -> States] /\ exception' \in [Ends -> Exceptions]
           /\ sendStreams' \in [Ends -> Seq(Messages)] /\ channel' \in [Ends -> Seq(Messages)]
           /\ outcome' \in [Calls -> {"idle", "pending", "ok", "retry", "fatal"}]
           /\ requests' \in [Ends -> SUBSET Calls]
           /\ waiters' \in [Ends -> [Threads -> WaiterStates]]
           /\ state'[p] = state[p] /\ exception'[p] = exception[p]
           /\ sendStreams'[p] = sendStreams[p] /\ requests'[p] = requests[p]
           /\ \A d \in Calls : d # c => outcome'[d] = outcome[d]
           /\ requests[e] \subseteq requests'[e] /\ requests'[e] \subseteq requests[e] \cup {c}
           /\ \/ /\ state'[e] = state[e] /\ exception'[e] = "none"
                 /\ c \in Twoway \/ sendStreams'[e] # <<>> => outcome'[c] = "pending"
                 /\ outcome'[c] \in {"pending", "ok"}
                 /\ c \in Twoway <=> c \in requests'[e]
              \/ /\ state'[e] = "Closed" /\ exception'[e] = "Lost" /\ WriteMayFail(e)
                 /\ sendStreams' = sendStreams /\ InTransit(e)' = InTransit(e)
                 /\ outcome'[c] = "retry" /\ requests' = requests
           /\ InTransit(p)' = InTransit(p) /\ Shrinks(p) /\ InT(p)' = InT(p)
           /\ Sends(e, <<Request(c)>>) /\ SendQueue(e)' /\ SendQueue(p)'
           /\ InT(e) \subseteq InT(e)' /\ InT(e)' \subseteq InT(e) \cup {Request(c)}
           /\ \A d \in Calls : d \in Requested(sendStreams'[e]) =>
                d \in Requested(sendStreams[e]) \/ d = c
           /\ UNCHANGED <<dispatchCount, dispatching, callbacks, reaped, socketOpen,
                          executions, torn, environment, assertFailed, written>>
<1> DEFINE e == Caller[c]
           p == Peer(e)
           ms == <<Request(c)>>
<1>0. e \in Ends /\ p \in Ends /\ p # e
  BY CallsAssumption, PeerOfPeer
<1>1. TypeOK /\ SendQueue(e) /\ SendQueue(p) /\ EndState(e)
  BY <1>0 DEF IInv, EndOK
<1>2. /\ state \in [Ends -> States] /\ requests \in [Ends -> SUBSET Calls]
      /\ outcome \in [Calls -> {"idle", "pending", "ok", "retry", "fatal"}]
      /\ exception \in [Ends -> Exceptions] /\ channel \in [Ends -> Seq(Messages)]
  BY <1>1 DEF TypeOK
<1>3. /\ outcome[c] = "idle" /\ exception[e] = "none" /\ state[e] \in Open
      /\ SendMessages(e, ms, state[e], "none")
      /\ NotifyAll(e, state'[e] = "Closed")
      /\ UNCHANGED <<dispatchCount, dispatching, callbacks, reaped, socketOpen,
                     executions, torn, environment, assertFailed, written>>
  BY DEF Invoke, NoAssertFails
<1>4. state[e] \in States /\ state[e] \notin Ending /\ state[e] # "Closed" /\ "none" \in Exceptions
  BY <1>0, <1>2, <1>3 DEF Open, Ending, Exceptions
<1>5. Request(c) \in Messages /\ Elems(ms) = {Request(c)} /\ ms \in Sendable
      /\ \A d \in Calls : Request(c) = Request(d) => c = d
  BY MessageKinds, SendableElems DEF Sendable
<1>6. ms \in Seq(Messages) /\ Len(ms) = 1 /\ Prefix(ms, 0) = <<>>
  BY <1>5 DEF Prefix
<1>7. \A d \in Calls : ms = <<Request(d)>> => outcome[d] = "idle"
  <2>1. ASSUME NEW d \in Calls, ms = <<Request(d)>>
        PROVE  outcome[d] = "idle"
    <3>1. ms[1] = Request(c) /\ ms[1] = Request(d)
      BY <2>1
    <3>2. QED
      BY <1>3, <1>5, <3>1
  <2>2. QED
    BY <2>1
<1>8. ASSUME state'[e] = "Closed"
      PROVE  channel' = channel
  <2>1. CASE UNCHANGED channel
    BY <2>1
  <2>2. ASSUME NEW n \in 0..(Len(ms) - 1), Write(e, ms, n)
        PROVE  channel' = channel
    <3>1. n = 0
      BY <1>6, <2>2
    <3>2. channel[p] \o <<>> = channel[p]
      BY <1>0, <1>2, ConcatEmptySeq
    <3>3. channel' = IF socketOpen[p] THEN [channel EXCEPT ![p] = channel[p]] ELSE channel
      BY <1>6, <2>2, <3>1, <3>2 DEF Write
    <3>4. QED
      BY <1>2, <3>3
  <2>3. CASE state' = [state EXCEPT ![e] = state[e]]
    BY <1>0, <1>2, <1>4, <1>8, <2>3
  <2> HIDE DEF ms
  <2>4. QED
    BY <1>3, <2>1, <2>2, <2>3 DEF SendMessages
<1> HIDE DEF ms
<1>9. /\ state' \in [Ends -> States] /\ exception' \in [Ends -> Exceptions]
      /\ sendStreams' \in [Ends -> Seq(Messages)] /\ channel' \in [Ends -> Seq(Messages)]
      /\ state'[p] = state[p] /\ exception'[p] = exception[p]
      /\ sendStreams'[p] = sendStreams[p]
      /\ \/ state'[e] = state[e] /\ exception'[e] = "none"
         \/ /\ state'[e] = "Closed" /\ exception'[e] = Keep("none", "Lost")
            /\ WriteMayFail(e) /\ sendStreams' = sendStreams /\ ms # <<>>
      /\ InTransit(p)' = InTransit(p) /\ Shrinks(p)
      /\ InT(p)' = InT(p)
      /\ Sends(e, ms) /\ SendQueue(e)' /\ SendQueue(p)'
      /\ InT(e) \subseteq InT(e)' /\ InT(e)' \subseteq InT(e) \cup Elems(ms)
      /\ \A d : d \in Requested(sendStreams'[e]) =>
           d \in Requested(sendStreams[e]) \/ Request(d) \in Elems(ms)
  <2>1. \A d \in Calls : ms = <<Request(d)>> => outcome[d] = "idle"
    BY <1>7
  <2>2. ms \in Sendable /\ UNCHANGED <<written, socketOpen>>
    BY <1>3, <1>5
  <2> HIDE DEF e
  <2>3. QED
    BY <1>0, <1>3, <1>4, <2>1, <2>2, SendStep
<1>10. waiters' \in [Ends -> [Threads -> WaiterStates]]
  BY <1>0, <1>1, <1>3, WaitersType
<1>11. CASE state'[e] = "Closed"
  <2>1. outcome' = [outcome EXCEPT ![c] = "retry"] /\ requests' = requests
    BY <1>11 DEF Invoke
  <2>2. /\ exception'[e] = "Lost" /\ WriteMayFail(e) /\ sendStreams' = sendStreams
    BY <1>4, <1>9, <1>11 DEF Keep
  <2>3. InTransit(e)' = InTransit(e)
    BY <1>0, <1>1, <1>3, <1>8, <1>11, <2>2, QuietEffect
  <2>4. QED
    BY <1>0, <1>2, <1>3, <1>5, <1>9, <1>10, <1>11, <2>1, <2>2, <2>3 DEF ms
<1>12. CASE state'[e] # "Closed"
  <2>1. /\ outcome' = [outcome EXCEPT ![c] = IF c \in Twoway \/ sendStreams'[e] # <<>>
                                             THEN "pending" ELSE "ok"]
        /\ requests' = IF c \in Twoway THEN [requests EXCEPT ![e] = @ \cup {c}] ELSE requests
    BY <1>12 DEF Invoke
  <2>2. /\ outcome' \in [Calls -> {"idle", "pending", "ok", "retry", "fatal"}]
        /\ \A d \in Calls : d # c => outcome'[d] = outcome[d]
        /\ c \in Twoway \/ sendStreams'[e] # <<>> => outcome'[c] = "pending"
        /\ outcome'[c] \in {"pending", "ok"}
    BY <1>2, <2>1
  <2>3. c \notin requests[e]
    BY <1>0, <1>3, IdleCall
  <2>4. /\ requests' \in [Ends -> SUBSET Calls] /\ requests'[p] = requests[p]
        /\ requests[e] \subseteq requests'[e] /\ requests'[e] \subseteq requests[e] \cup {c}
        /\ c \in Twoway <=> c \in requests'[e]
    BY <1>0, <1>2, <2>1, <2>3
  <2>5. QED
    BY <1>3, <1>5, <1>9, <1>10, <1>12, <2>2, <2>4 DEF ms
<1>13. QED
  BY <1>11, <1>12

LEMMA InvokeStep ==
    ASSUME IInv, NEW c \in Calls, Invoke(c)
    PROVE  IInv'
<1> DEFINE e == Caller[c]
           p == Peer(e)
<1>0. e \in Ends /\ p \in Ends /\ p # e /\ Peer(p) = e /\ Peer(p)' = e /\ Peer(e)' = p
      /\ (\A f \in Ends : f = e \/ f = p) /\ "A" \in Ends /\ "B" \in Ends
  BY CallsAssumption, PeerOfPeer DEF Peer, Ends
<1>1. /\ TypeOK /\ EndState(e) /\ Routes(e) /\ Upcalls(e) /\ Counting(e) /\ EndState(p)
      /\ SendQueue(e) /\ Ordering(e) /\ SendQueue(p) /\ Ordering(p)
      /\ \A d \in Calls : CallOK(d) /\ Caller[d] \in Ends
  BY <1>0, CallsAssumption DEF IInv, EndOK
<1>2. /\ state[e] \in Open /\ exception[e] = "none" /\ outcome[c] = "idle"
      /\ state' \in [Ends -> States] /\ exception' \in [Ends -> Exceptions]
      /\ sendStreams' \in [Ends -> Seq(Messages)] /\ channel' \in [Ends -> Seq(Messages)]
      /\ outcome' \in [Calls -> {"idle", "pending", "ok", "retry", "fatal"}]
      /\ requests' \in [Ends -> SUBSET Calls]
      /\ waiters' \in [Ends -> [Threads -> WaiterStates]]
      /\ state'[p] = state[p] /\ exception'[p] = exception[p]
      /\ sendStreams'[p] = sendStreams[p] /\ requests'[p] = requests[p]
      /\ \A d \in Calls : d # c => outcome'[d] = outcome[d]
      /\ requests[e] \subseteq requests'[e] /\ requests'[e] \subseteq requests[e] \cup {c}
      /\ \/ /\ state'[e] = state[e] /\ exception'[e] = "none"
            /\ c \in Twoway \/ sendStreams'[e] # <<>> => outcome'[c] = "pending"
            /\ outcome'[c] \in {"pending", "ok"}
            /\ c \in Twoway <=> c \in requests'[e]
         \/ /\ state'[e] = "Closed" /\ exception'[e] = "Lost" /\ WriteMayFail(e)
            /\ sendStreams' = sendStreams /\ InTransit(e)' = InTransit(e)
            /\ outcome'[c] = "retry" /\ requests' = requests
      /\ InTransit(p)' = InTransit(p) /\ Shrinks(p) /\ InT(p)' = InT(p)
      /\ Sends(e, <<Request(c)>>) /\ SendQueue(e)' /\ SendQueue(p)'
      /\ InT(e) \subseteq InT(e)' /\ InT(e)' \subseteq InT(e) \cup {Request(c)}
      /\ \A d \in Calls : d \in Requested(sendStreams'[e]) =>
           d \in Requested(sendStreams[e]) \/ d = c
      /\ UNCHANGED <<dispatchCount, dispatching, callbacks, reaped, socketOpen,
                     executions, torn, environment, assertFailed, written>>
  BY InvokeSends
<1>3. /\ Request(c) \notin InT(e) /\ Reply(c) \notin InT(p) /\ executions[c] = 0
      /\ \A f \in Ends : /\ c \notin requests[f] /\ c \notin dispatching[f]
                         /\ c \notin Requested(sendStreams[f])
                         /\ \A cb \in callbacks[f] : c \notin cb.calls
  BY <1>2, IdleCall
<1>4. /\ Request(c) \in Messages /\ Request(c) # Close
      /\ \A d : Reply(d) # Request(c) /\ (Request(d) = Request(c) => d = c)
  BY MessageKinds
<1>5. state[e] \notin Stopping /\ state[e] \notin Ending /\ state[e] # "Finished"
      /\ state[e] # "NotValidated" /\ state'[e] # "Finished" /\ state'[e] # "NotValidated"
      /\ Close \notin InT(e)
  <2>1. state[e] \notin Stopping /\ state[e] \notin Ending /\ state[e] # "Finished"
        /\ state[e] # "NotValidated" /\ state'[e] # "Finished" /\ state'[e] # "NotValidated"
    BY <1>2 DEF Open, Stopping, Ending
  <2>2. QED
    BY <1>1, <2>1 DEF EndState
<1> HIDE DEF e
<1>6. TypeOK'
  BY <1>1, <1>2 DEF TypeOK
<1>7. Executed(p)' = Executed(p) /\ Executed(e)' \subseteq Executed(e)
  BY <1>2, <1>3 DEF Executed
<1>8. Ordering(e)'
  BY <1>0, <1>1, <1>2, <1>3, <1>4, <1>5, <1>7, SendingOneKeepsOrdering
<1>9. Ordering(p)'
  <2>1. socketOpen'[e]
    BY <1>1, <1>2, <1>5 DEF EndState
  <2>2. QED
    BY <1>0, <1>1, <1>2, <1>7, <2>1, ShrinkingKeepsOrdering
<1>10. Counting(e)'
  BY <1>1, <1>2, <1>5 DEF Counting
<1>11. EndState(e)'
  <2>1. Close \notin InT(e)'
    BY <1>2, <1>4, <1>5
  <2>2. exception'[e] = "none" <=> state'[e] \in Unopened
    BY <1>2 DEF Unopened, Open
  <2>3. exception'[e] # "Idle"
    BY <1>2
  <2>4. QED
    BY <1>1, <1>2, <1>5, <2>1, <2>2, <2>3 DEF EndState
<1>12. Routes(e)'
  <2>1. Caller[c] = e
    BY DEF e
  <2>2. requests[e] \subseteq Calls /\ requests'[e] \subseteq Calls
    BY <1>0, <1>1, <1>2 DEF TypeOK
  <2>3. \A d \in Requested(sendStreams'[e]) : d \in Calls
    BY <1>0, <1>2, RequestedAre
  <2>4. QED
    BY <1>0, <1>1, <1>2, <1>4, <2>1, <2>2, <2>3 DEF Routes
<1>13. Upcalls(e)'
  <2>1. SUFFICES ASSUME NEW cb \in callbacks[e]
        PROVE  /\ \A d \in cb.calls : /\ Caller[d] = e /\ outcome'[d] # "idle"
                                      /\ d \notin Requested(sendStreams'[e])
               /\ cb.type = "reply" =>
                    \E d \in Calls : /\ cb.calls = {d} /\ d \notin requests'[e]
                                     /\ outcome'[d] = "pending" /\ executions[d] = 1
    BY <1>2 DEF Upcalls
  <2>2. \A d \in cb.calls : d \in Calls /\ d # c
    <3>1. cb.calls \subseteq Calls
      <4>1. callbacks \in [Ends -> SUBSET [type : {"sent", "reply"}, calls : SUBSET Calls]]
        BY <1>1 DEF TypeOK
      <4>2. QED
        BY <1>0, <4>1
    <3>2. c \notin cb.calls
      BY <1>0, <1>3
    <3>3. QED
      BY <3>1, <3>2
  <2>3. \A d \in cb.calls : outcome'[d] = outcome[d]
    BY <1>2, <2>2
  <2>4. \A d \in cb.calls : /\ Caller[d] = e /\ outcome'[d] # "idle"
                            /\ d \notin Requested(sendStreams'[e])
    <3>1. \A d \in cb.calls : /\ Caller[d] = e /\ outcome[d] # "idle"
                              /\ d \notin Requested(sendStreams[e])
      BY <1>1 DEF Upcalls
    <3>2. \A d \in Calls : d \in Requested(sendStreams'[e]) =>
            d \in Requested(sendStreams[e]) \/ d = c
      BY <1>2
    <3>3. QED
      BY <2>2, <2>3, <3>1, <3>2
  <2>5. ASSUME cb.type = "reply"
        PROVE  \E d \in Calls : /\ cb.calls = {d} /\ d \notin requests'[e]
                                /\ outcome'[d] = "pending" /\ executions[d] = 1
    <3>1. PICK d \in Calls : /\ cb.calls = {d} /\ d \notin requests[e]
                             /\ outcome[d] = "pending" /\ executions[d] = 1
      BY <1>1, <2>5 DEF Upcalls
    <3>2. d # c /\ outcome'[d] = outcome[d] /\ d \notin requests'[e]
      BY <1>2, <2>2, <2>3, <3>1
    <3>3. QED
      BY <3>1, <3>2
  <2>6. QED
    BY <2>4, <2>5
<1>14. EndOK(p)' /\ Counting(p)'
  <2>1. OnlyOwnCalls(p)
    <3>1. Caller[c] # p
      BY <1>0 DEF e
    <3>2. QED
      BY <1>2, <3>1 DEF OnlyOwnCalls
  <2>2. Untouched(p)
    BY <1>2 DEF Untouched
  <2>3. QED
    BY <1>0, <1>2, <2>1, <2>2, UntouchedEnd
<1>15. ASSUME NEW d \in Calls
       PROVE  CallOK(d)'
  <2>1. CASE d = c
    <3>1. Caller[c] = e /\ Peer(Caller[c])' = p
      BY <1>0 DEF e
    <3>2. c \notin dispatching[p] /\ c \notin requests[e]
      BY <1>0, <1>3
    <3>3. c \in Requested(sendStreams'[e]) => sendStreams'[e] # <<>> /\ sendStreams' # sendStreams
      <4>1. Requested(<<>>) = {}
        BY DEF Requested, Elems
      <4>2. QED
        BY <1>0, <1>3, <4>1
    <3>4. CASE /\ state'[e] = state[e] /\ exception'[e] = "none"
               /\ c \in Twoway \/ sendStreams'[e] # <<>> => outcome'[c] = "pending"
               /\ outcome'[c] \in {"pending", "ok"}
               /\ c \in Twoway <=> c \in requests'[e]
      BY <1>2, <1>3, <2>1, <3>1, <3>2, <3>3, <3>4 DEF CallOK
    <3>5. CASE /\ state'[e] = "Closed" /\ exception'[e] = "Lost" /\ WriteMayFail(e)
               /\ sendStreams' = sendStreams /\ InTransit(e)' = InTransit(e)
               /\ outcome'[c] = "retry" /\ requests' = requests
      <4>1. Request(c) \notin InT(e)'
        BY <1>3, <3>5 DEF InT
      <4>2. QED
        BY <1>2, <1>3, <2>1, <3>1, <3>2, <3>3, <3>5, <4>1 DEF CallOK
    <3>6. QED
      BY <1>2, <3>4, <3>5
  <2>2. CASE d # c
    <3>1. /\ Request(d) # Request(c) /\ Reply(d) # Request(c) /\ outcome'[d] = outcome[d]
          /\ exception'[e] # "CloseConnection"
          /\ d \in requests'[e] <=> d \in requests[e]
          /\ d \in Requested(sendStreams'[e]) => d \in Requested(sendStreams[e])
      BY <1>2, <1>4, <2>2
    <3>2. /\ Request(d) \in InT(e)' => Request(d) \in InT(e)
          /\ Reply(d) \in InT(e)' <=> Reply(d) \in InT(e)
      BY <1>2, <3>1
    <3>3. Caller[d] = e \/ Caller[d] = p
      BY <1>0, <1>1
    <3>4. Keeps(d)
      <4>1. CASE Caller[d] = e
        BY <1>0, <1>2, <1>5, <3>1, <3>2, <4>1 DEF Keeps
      <4>2. CASE Caller[d] = p
        BY <1>0, <1>2, <1>5, <3>1, <3>2, <4>2 DEF Keeps
      <4>3. QED
        BY <3>3, <4>1, <4>2
    <3>5. QED
      BY <1>1, <3>4, CallKept
  <2>3. QED
    BY <2>1, <2>2
<1>16. Unaccepted'
  <2>1. \A f \in Ends : /\ state'[f] = "NotValidated" => state[f] = "NotValidated"
                        /\ state'[f] \in Running => state[f] \in Running
                        /\ state'[f] = "NotValidated" => InTransit(f)' = InTransit(f)
    BY <1>0, <1>2, <1>5 DEF Open, Running
  <2>2. QED
    BY <1>0, <2>1, UnacceptedKept
<1>17. Graceful'
  <2>1. \A d \in Calls : outcome'[d] = "fatal" => outcome[d] = "fatal"
    BY <1>2
  <2>2. CASE state'[e] = state[e] /\ exception'[e] = "none"
    <3>1. \A f \in Ends : state'[f] = state[f] /\ exception'[f] = exception[f]
      BY <1>0, <1>2, <2>2
    <3>2. \A d \in Calls : d \in requests'[Caller[d]] =>
               d \in requests[Caller[d]] \/ exception[Caller[d]] = "none"
      BY <1>0, <1>1, <1>2
    <3>3. state["B"] \in Ending => InTransit("B")' = InTransit("B")
      BY <1>0, <1>2, <1>5
    <3>4. QED
      BY <1>0, <1>2, <2>1, <3>1, <3>2, <3>3, GracefulKept
  <2>3. CASE state'[e] = "Closed" /\ exception'[e] = "Lost" /\ WriteMayFail(e) /\ requests' = requests
    <3>1. CASE Faulty
      BY <1>2, <3>1, GracefulFaulty
    <3>2. CASE state[p] = "Finished"
      BY <1>0, <1>2, <1>5, <2>1, <2>3, <3>2, GracefulLost DEF Keep
    <3>3. QED
      BY <1>1, <2>3, <3>1, <3>2 DEF WriteMayFail, EndState
  <2>4. QED
    BY <1>2, <2>2, <2>3
<1>18. QED
  BY <1>0, <1>2, <1>6, <1>8, <1>9, <1>10, <1>11, <1>12, <1>13, <1>14, <1>15, <1>16, <1>17,
     Assemble DEF EndOK

-----------------------------------------------------------------------------
(***************************************************************************)
(* Validation                                                              *)
(***************************************************************************)

LEMMA AcceptStep ==
    ASSUME IInv, Accept
    PROVE  IInv'
<1> DEFINE e == "B"
           p == "A"
           ms == <<Validate>>
<1>0. e \in Ends /\ p \in Ends /\ p # e /\ Peer(e) = p /\ Peer(p) = e /\ Peer(p)' = e /\ Peer(e)' = p
      /\ (\A f \in Ends : f = e \/ f = p) /\ "A" \in Ends /\ "B" \in Ends
  BY PeerOfPeer DEF Peer, Ends
<1>1. /\ TypeOK /\ EndState(e) /\ Routes(e) /\ Upcalls(e) /\ Counting(e) /\ EndState(p)
      /\ SendQueue(e) /\ Ordering(e) /\ SendQueue(p) /\ Ordering(p)
      /\ \A d \in Calls : CallOK(d) /\ Caller[d] \in Ends
  BY <1>0, CallsAssumption DEF IInv, EndOK
<1>2. /\ state[e] = "NotValidated" /\ SendMessages(e, ms, "Holding", "none")
      /\ sendStreams' = sendStreams
      /\ NotifyAll(e, TRUE)
      /\ UNCHANGED <<dispatchCount, requests, dispatching, callbacks, reaped, socketOpen,
                     outcome, executions, torn, environment, assertFailed, written>>
  BY DEF Accept, NoAssertFails, callVars
<1>3. /\ Validate \in Messages /\ Elems(ms) = {Validate} /\ ms \in Sendable
      /\ Validate.type \notin {"request", "reply"} /\ Validate # Close
      /\ \A c : Request(c) # Validate /\ Reply(c) # Validate
  BY MessageKinds, SendableElems DEF Sendable
<1>4. \A c \in Calls : ms # <<Request(c)>>
  <2>1. \A c \in Calls : Request(c) \in Elems(<<Request(c)>>)
    BY MessageKinds, SendableElems
  <2>2. QED
    BY <1>3, <2>1
<1>5. /\ state' \in [Ends -> States] /\ exception' \in [Ends -> Exceptions]
      /\ channel' \in [Ends -> Seq(Messages)]
      /\ state'[p] = state[p] /\ exception'[p] = exception[p]
      /\ \/ state'[e] = "Holding" /\ exception'[e] = "none"
         \/ state'[e] = "Closed" /\ exception'[e] = Keep("none", "Lost") /\ WriteMayFail(e)
      /\ InTransit(p)' = InTransit(p) /\ Shrinks(p) /\ InT(p)' = InT(p)
      /\ Sends(e, ms) /\ SendQueue(e)' /\ SendQueue(p)'
      /\ InT(e) \subseteq InT(e)' /\ InT(e)' \subseteq InT(e) \cup Elems(ms)
  <2>1. "Holding" \in States /\ "Holding" \notin Ending /\ "none" \in Exceptions
    BY DEF States, Ending, Exceptions
  <2> HIDE DEF e, p, ms
  <2>2. UNCHANGED <<written, socketOpen>>
    BY <1>2
  <2>3. QED
    BY <1>0, <1>2, <1>3, <1>4, <2>1, <2>2, SendStep
<1>6. waiters' \in [Ends -> [Threads -> WaiterStates]]
  BY <1>0, <1>1, <1>2, WaitersType
<1>7. exception[e] = "none" /\ Close \notin InT(e) /\ state[e] \notin Stopping
      /\ state[e] \notin Ending
  BY <1>1, <1>2 DEF EndState, Unopened, Stopping, Ending
<1>8. TypeOK'
  BY <1>1, <1>2, <1>5, <1>6 DEF TypeOK
<1> HIDE DEF e, p
<1>9. Executed(p)' = Executed(p) /\ Executed(e)' = Executed(e)
  BY <1>2 DEF Executed
<1>10. Ordering(e)' /\ Ordering(p)'
  <2>1. Ordering(e)'
    <3>1. Sends(e, <<Validate>>)
      BY <1>5
    <3>2. QED
      BY <1>0, <1>1, <1>3, <1>7, <1>9, <3>1, SendingOneKeepsOrdering
  <2>2. Ordering(p)'
    BY <1>0, <1>1, <1>5, <1>9 DEF Ordering
  <2>3. QED
    BY <2>1, <2>2
<1> HIDE DEF ms
<1>11. Counting(e)'
  BY <1>1, <1>2, <1>5 DEF Counting
<1>12. EndOK(e)'
  <2>1. exception'[e] = "none" <=> state'[e] \in Unopened
    BY <1>5 DEF Keep, Unopened, Open
  <2>2. EndState(e)'
    BY <1>0, <1>1, <1>2, <1>3, <1>5, <1>7, <2>1 DEF EndState, Keep
  <2>3. Routes(e)' /\ Upcalls(e)'
    BY <1>0, <1>1, <1>2, <1>3, <1>5 DEF Routes, Upcalls
  <2>4. QED
    BY <2>2, <2>3 DEF EndOK
<1>13. EndOK(p)' /\ Counting(p)'
  BY <1>0, <1>2, <1>5, UntouchedEnd DEF Untouched, OnlyOwnCalls
<1>14. ASSUME NEW d \in Calls
       PROVE  CallOK(d)'
  <2>1. Caller[d] = e \/ Caller[d] = p
    BY <1>0, <1>1
  <2>2. /\ Request(d) \in InT(e)' => Request(d) \in InT(e)
        /\ Reply(d) \in InT(e)' <=> Reply(d) \in InT(e)
        /\ exception'[e] # "CloseConnection"
    BY <1>3, <1>5 DEF Keep
  <2>3. CASE Caller[d] = e
    <3>1. Keeps(d)
      BY <1>0, <1>2, <1>5, <1>7, <2>2, <2>3 DEF Keeps
    <3>2. QED
      BY <1>1, <3>1, CallKept
  <2>4. CASE Caller[d] = p
    <3>1. Keeps(d)
      <4>1. d \in requests'[p] /\ exception'[p] = "CloseConnection" => exception[p] = "CloseConnection"
        BY <1>5
      <4>2. QED
        BY <1>0, <1>2, <1>5, <1>7, <2>2, <2>4, <4>1 DEF Keeps
    <3>2. QED
      BY <1>1, <3>1, CallKept
  <2>5. QED
    BY <2>1, <2>3, <2>4
<1>15. Unaccepted'
  <2>1. state'["B"] # "NotValidated"
    BY <1>5 DEF e
  <2>2. QED
    BY <2>1 DEF Unaccepted
<1>16. Graceful'
  <2>1. CASE state'[e] = "Holding" /\ exception'[e] = "none"
    <3>1. \A f \in Ends : exception'[f] = exception[f] /\ (state'[f] \in Ending <=> state[f] \in Ending)
      BY <1>0, <1>5, <1>7, <2>1 DEF Ending
    <3>2. state'["A"] = state["A"] /\ state["B"] \notin Ending
      BY <1>5, <1>7 DEF e, p
    <3>3. QED
      BY <1>0, <1>2, <3>1, <3>2, GracefulKept
  <2>2. CASE state'[e] = "Closed" /\ exception'[e] = Keep("none", "Lost") /\ WriteMayFail(e)
    <3>1. CASE Faulty
      BY <1>2, <3>1, GracefulFaulty
    <3>2. CASE state[p] = "Finished"
      BY <1>0, <1>2, <1>5, <1>7, <2>2, <3>2, GracefulLost
    <3>3. QED
      BY <1>0, <1>1, <2>2, <3>1, <3>2 DEF WriteMayFail, EndState
  <2>3. QED
    BY <1>5, <2>1, <2>2
<1>17. QED
  BY <1>0, <1>5, <1>8, <1>10, <1>11, <1>12, <1>13, <1>14, <1>15, <1>16, Assemble DEF EndOK

\* What reading the head of the channel changes of the messages in transit.
LEMMA ReadFacts ==
    ASSUME IInv, NEW e \in Ends, channel[e] # <<>>,
           channel' = [channel EXCEPT ![e] = Tail(@)],
           UNCHANGED <<sendStreams, written, socketOpen>>,
           Executed(e)' \subseteq Executed(e),
           \A c \in Executed(e)' : Head(channel[e]) # Reply(c)
    PROVE  LET p == Peer(e) IN
           /\ InTransit(e)' = InTransit(e) /\ InT(e)' = InT(e) /\ InTransit(p) # <<>>
           /\ Ordering(p)' /\ SendQueue(e)' /\ SendQueue(p)'
           /\ Head(channel[e]) \in Messages /\ Head(channel[e]) \in InT(p)
           /\ InT(p)' \subseteq InT(p)
           /\ Head(channel[e]).type \in {"request", "reply"} => Head(channel[e]) \notin InT(p)'
           /\ \A m \in InT(p) : m # Head(channel[e]) => m \in InT(p)'
           /\ channel' \in [Ends -> Seq(Messages)]
<1> DEFINE p == Peer(e)
<1>0. p \in Ends /\ Peer(p) = e
  BY PeerOfPeer
<1>1. TypeOK /\ SendQueue(e) /\ SendQueue(p) /\ Ordering(p)
  BY <1>0 DEF IInv
<1>2. /\ InTransit(e)' = InTransit(e)
      /\ InTransit(p) # <<>> /\ Head(InTransit(p)) = Head(channel[e])
      /\ InTransit(p)' = Tail(InTransit(p))
      /\ Head(channel[e]) \in Messages
      /\ channel' \in [Ends -> Seq(Messages)]
      /\ SendQueue(e)' /\ SendQueue(p)'
  BY <1>1, ReadEffect
<1>3. InT(e)' = InT(e)
  BY <1>2 DEF InT
<1>4. /\ Ordering(p)' /\ InT(p)' \subseteq InT(p) /\ Head(InTransit(p)) \in InT(p)
      /\ Head(InTransit(p)).type \in {"request", "reply"} => Head(InTransit(p)) \notin InT(p)'
      /\ \A m : m \in InT(p) => m = Head(InTransit(p)) \/ m \in InT(p)'
  BY <1>0, <1>1, <1>2, ReadingKeepsOrdering
<1>5. QED
  BY <1>2, <1>3, <1>4

LEMMA ConnectStep ==
    ASSUME IInv, Connect
    PROVE  IInv'
<1> DEFINE e == "A"
           p == "B"
<1>0. e \in Ends /\ p \in Ends /\ p # e /\ Peer(e) = p /\ Peer(p) = e /\ Peer(p)' = e /\ Peer(e)' = p
      /\ (\A f \in Ends : f = e \/ f = p) /\ "A" \in Ends /\ "B" \in Ends
  BY PeerOfPeer DEF Peer, Ends
<1>1. /\ TypeOK /\ EndState(e) /\ Routes(e) /\ Upcalls(e) /\ Counting(e) /\ Routes(p)
      /\ Ordering(e) /\ Unaccepted
      /\ \A d \in Calls : CallOK(d) /\ Caller[d] \in Ends
  BY <1>0, CallsAssumption DEF IInv, EndOK
<1>2. /\ state[e] = "NotValidated" /\ channel[e] # <<>>
      /\ state' = [state EXCEPT ![e] = "Holding"]
      /\ channel' = [channel EXCEPT ![e] = Tail(@)]
      /\ NotifyAll(e, TRUE)
      /\ UNCHANGED <<exception, dispatchCount, sendStreams, requests, dispatching, callbacks,
                     reaped, socketOpen, outcome, executions, torn, environment,
                     assertFailed, written>>
  BY DEF Connect, NoAssertFails, callVars
<1>3. state \in [Ends -> States]
  BY <1>1 DEF TypeOK
<1>4. /\ state' \in [Ends -> States] /\ state'[e] = "Holding" /\ state'[p] = state[p]
      /\ waiters' \in [Ends -> [Threads -> WaiterStates]]
  BY <1>0, <1>1, <1>2, <1>3, WaitersType DEF States
<1>5. requests[e] = {} /\ exception[e] = "none" /\ Close \notin InT(e)
  BY <1>1, <1>2 DEF EndState, Unopened, Stopping, Ending
<1> HIDE DEF e, p
<1>6. Executed(e)' = {} /\ Executed(p)' = Executed(p)
  BY <1>2, <1>5 DEF Executed
<1>7. /\ InTransit(e)' = InTransit(e) /\ InT(e)' = InT(e) /\ InTransit(p) # <<>>
      /\ Ordering(p)' /\ SendQueue(e)' /\ SendQueue(p)'
      /\ Head(channel[e]) \in InT(p)
      /\ InT(p)' \subseteq InT(p)
      /\ \A m \in InT(p) : m # Head(channel[e]) => m \in InT(p)'
      /\ channel' \in [Ends -> Seq(Messages)]
  BY <1>0, <1>2, <1>6, ReadFacts
<1>8. TypeOK'
  BY <1>1, <1>2, <1>4, <1>7 DEF TypeOK
<1>9. Ordering(e)'
  BY <1>0, <1>1, <1>6, <1>7 DEF Ordering
<1>10. EndOK(e)' /\ Counting(e)'
  <2>1. EndState(e)' /\ Counting(e)'
    BY <1>1, <1>2, <1>4, <1>5, <1>7 DEF EndState, Counting, Unopened, Open
  <2>2. Routes(e)' /\ Upcalls(e)'
    BY <1>0, <1>1, <1>2, <1>7 DEF Routes, Upcalls
  <2>3. QED
    BY <2>1, <2>2 DEF EndOK
<1>11. EndOK(p)' /\ Counting(p)'
  BY <1>0, <1>2, <1>4, <1>7, UntouchedEnd DEF Untouched, OnlyOwnCalls
<1>12. ASSUME NEW d \in Calls
       PROVE  CallOK(d)'
  <2>1. Reply(d) \notin InT(p)
    BY <1>0, <1>1, <1>2, <1>5 DEF Routes, CallOK, Ending
  <2>2. Keeps(d)
    <3>1. Caller[d] = e \/ Caller[d] = p
      BY <1>0, <1>1
    <3>2. state[e] \notin Stopping /\ state[e] \notin Ending
      BY <1>2 DEF Stopping, Ending
    <3>3. CASE Caller[d] = e
      BY <1>0, <1>2, <1>4, <1>5, <1>7, <2>1, <3>2, <3>3 DEF Keeps
    <3>4. CASE Caller[d] = p
      BY <1>0, <1>2, <1>4, <1>5, <1>7, <2>1, <3>2, <3>4 DEF Keeps
    <3>5. QED
      BY <3>1, <3>3, <3>4
  <2>3. QED
    BY <1>1, <2>2, CallKept
<1>13. Unaccepted'
  BY <1>1, <1>4, <1>7 DEF Unaccepted, p
<1>14. Graceful'
  <2>1. \A f \in Ends : exception'[f] = exception[f] /\ (state'[f] \in Ending <=> state[f] \in Ending)
    BY <1>0, <1>2, <1>4 DEF Ending
  <2>2. InTransit("B") # <<>>
    BY <1>7 DEF p
  <2>3. QED
    BY <1>0, <1>2, <2>1, <2>2, GracefulKept
<1>15. QED
  BY <1>0, <1>7, <1>8, <1>9, <1>10, <1>11, <1>12, <1>13, <1>14, Assemble

-----------------------------------------------------------------------------
(***************************************************************************)
(* Messages that are received                                              *)
(***************************************************************************)

\* Nothing is answered by a transit that holds no close message, and nothing
\* remains to be answered when the close message is at its head.
LEMMA AnsweredWhenClosed ==
    ASSUME NEW t \in Seq(Messages), NEW R
    PROVE  /\ Close \notin Elems(t) => Answers(t, R)
           /\ t # <<>> /\ Head(t) = Close /\ Answers(t, R) => R = {}
<1>1. Close \notin Elems(t) => Answers(t, R)
  BY DEF Elems, Answers
<1>2. ASSUME t # <<>>, Head(t) = Close, Answers(t, R)
      PROVE  R = {}
  <2>1. DOMAIN t = 1..Len(t) /\ Len(t) \in Nat \ {0} /\ t[1] = Close
    BY <1>2, HeadAndTail, ElemsOf
  <2>2. \A c \in R : \E j \in 1..Len(t) : j < 1
    BY <1>2, <2>1 DEF Answers
  <2>3. QED
    BY <2>1, <2>2
<1>3. QED
  BY <1>1, <1>2

LEMMA ReceiveCloseStep ==
    ASSUME IInv, NEW e \in Ends, ReceiveClose(e)
    PROVE  IInv'
<1> DEFINE p == Peer(e)
<1>0. p \in Ends /\ p # e /\ Peer(p) = e /\ Peer(p)' = e /\ Peer(e)' = p
      /\ (\A f \in Ends : f = e \/ f = p) /\ "A" \in Ends /\ "B" \in Ends
  BY PeerOfPeer DEF Peer, Ends
<1>1. /\ TypeOK /\ EndState(e) /\ Routes(e) /\ Upcalls(e) /\ Counting(e) /\ EndState(p)
      /\ Ordering(e) /\ Ordering(p) /\ SendQueue(p) /\ SendQueue(e)
      /\ \A d \in Calls : CallOK(d) /\ Caller[d] \in Ends
  BY <1>0, CallsAssumption DEF IInv, EndOK
<1>2. /\ state[e] \in Reading /\ channel[e] # <<>> /\ Head(channel[e]).type = "close"
      /\ channel' = [channel EXCEPT ![e] = Tail(@)]
      /\ state' = [state EXCEPT ![e] = "Closed"]
      /\ exception' = [exception EXCEPT ![e] = Keep(@, "CloseConnection")]
      /\ NotifyAll(e, TRUE)
      /\ UNCHANGED <<dispatchCount, sendStreams, requests, dispatching, callbacks,
                     reaped, socketOpen, outcome, executions, torn, environment,
                     assertFailed, written>>
  BY DEF ReceiveClose, Receive, NoAssertFails, callVars
<1>3. state \in [Ends -> States] /\ exception \in [Ends -> Exceptions]
  BY <1>1 DEF TypeOK
<1>4. /\ state' \in [Ends -> States] /\ state'[e] = "Closed" /\ state'[p] = state[p]
      /\ exception' \in [Ends -> Exceptions] /\ exception'[p] = exception[p]
      /\ exception'[e] = Keep(exception[e], "CloseConnection")
      /\ waiters' \in [Ends -> [Threads -> WaiterStates]]
  BY <1>0, <1>1, <1>2, <1>3, WaitersType DEF States, Exceptions, Keep
<1>5. /\ InTransit(p) \in Seq(Messages) /\ InTransit(p) # <<>> /\ Head(InTransit(p)) = Close
      /\ Head(channel[e]) = Close
  <2>1. /\ InTransit(p) # <<>> /\ Head(InTransit(p)) = Head(channel[e])
        /\ Head(channel[e]) \in Messages
    BY <1>1, <1>2, ReadEffect
  <2>2. Head(channel[e]) = Close
    BY <1>2, <2>1, MessageKinds
  <2>3. QED
    BY <1>0, <1>1, <2>1, <2>2, TransitType
<1>6. Executed(e) = {} /\ Executed(e)' = {} /\ Executed(p)' = Executed(p)
  <2>1. Executed(e) = {}
    BY <1>0, <1>1, <1>5, AnsweredWhenClosed DEF Ordering
  <2>2. QED
    BY <1>2, <2>1 DEF Executed
<1>7. /\ InTransit(e)' = InTransit(e) /\ InT(e)' = InT(e)
      /\ Ordering(p)' /\ SendQueue(e)' /\ SendQueue(p)'
      /\ Close \in InT(p) /\ InT(p)' \subseteq InT(p)
      /\ \A m \in InT(p) : m # Close => m \in InT(p)'
      /\ channel' \in [Ends -> Seq(Messages)]
  BY <1>2, <1>5, <1>6, ReadFacts
<1>8. state[p] \in Stopping /\ state[p] \notin Unopened /\ exception[p] # "none"
  BY <1>1, <1>7 DEF EndState, Stopping, Ending, Unopened, Open
<1>9. TypeOK'
  BY <1>1, <1>2, <1>4, <1>7 DEF TypeOK
<1>10. Ordering(e)'
  BY <1>0, <1>1, <1>6, <1>7 DEF Ordering
<1>11. EndOK(e)' /\ Counting(e)'
  <2>1. state[e] # "Finished" /\ state[e] # "NotValidated" /\ state'[e] \in Stopping
    BY <1>2, <1>4 DEF Reading, Stopping, Ending
  <2>2. exception'[e] # "none" /\ state'[e] \notin Unopened
        /\ (exception'[e] = "Idle" => exception[e] = "Idle")
    BY <1>4 DEF Keep, Unopened, Open
  <2>3. EndState(e)' /\ Counting(e)'
    BY <1>1, <1>2, <1>4, <1>7, <2>1, <2>2 DEF EndState, Counting
  <2>4. Routes(e)' /\ Upcalls(e)'
    BY <1>0, <1>1, <1>2, <1>7 DEF Routes, Upcalls
  <2>5. QED
    BY <2>3, <2>4 DEF EndOK
<1>12. EndOK(p)' /\ Counting(p)'
  BY <1>0, <1>2, <1>4, <1>7, UntouchedEnd DEF Untouched, OnlyOwnCalls
<1>13. ASSUME NEW d \in Calls
       PROVE  CallOK(d)'
  <2>1. Reply(d) # Close /\ Request(d) # Close
    BY MessageKinds
  <2>2. state'[e] \in Ending /\ state'[e] \in Stopping
    BY <1>4 DEF Stopping, Ending
  <2>3. CASE Caller[d] = e
    <3>1. d \in requests[e] => executions[d] = 0
      BY <1>6 DEF Executed
    <3>2. Keeps(d)
      BY <1>0, <1>2, <1>4, <1>7, <1>8, <2>1, <2>2, <2>3, <3>1 DEF Keeps
    <3>3. QED
      BY <1>1, <3>2, CallKept
  <2>4. CASE Caller[d] = p
    <3>1. Keeps(d)
      BY <1>0, <1>2, <1>4, <1>7, <2>1, <2>2, <2>4 DEF Keeps
    <3>2. QED
      BY <1>1, <3>1, CallKept
  <2>5. QED
    BY <1>0, <1>1, <2>3, <2>4
<1>14. Unaccepted'
  <2>1. \A f \in Ends : /\ state'[f] = "NotValidated" => state[f] = "NotValidated"
                        /\ state'[f] \in Running => state[f] \in Running
                        /\ InTransit(f) = <<>> => InTransit(f)' = InTransit(f)
    BY <1>0, <1>4, <1>5, <1>7 DEF Running
  <2>2. QED
    BY <1>0, <2>1, UnacceptedKept
<1>15. Graceful'
  <2>1. exception'[e] # "none" /\ exception'[e] \in {exception[e], "CloseConnection"}
        /\ (exception[e] # "none" => exception'[e] = exception[e])
    BY <1>4 DEF Keep
  <2>2. \A f \in Ends :
               /\ exception[f] # "none" => exception'[f] = exception[f]
               /\ exception'[f] \in {exception[f], "CloseConnection", "Destroyed", "Idle"}
               /\ state[f] \in Ending => state'[f] \in Ending
               /\ ~(state'[f] \in Ending /\ exception'[Peer(f)] = "none")
    BY <1>0, <1>4, <1>8, <2>1 DEF Ending
  <2>3. QED
    BY <1>2, <2>2, GracefulTold
<1>16. QED
  BY <1>7, <1>9, <1>10, <1>11, <1>12, <1>13, <1>14, <1>15, Assemble

\* A request is read: its call has not been executed.
LEMMA RequestRead ==
    ASSUME IInv, NEW e \in Ends, Receive(e, "request"),
           UNCHANGED <<sendStreams, written, socketOpen, requests>>,
           NEW c, c = Head(channel[e]).call,
           \A d \in requests[e] : d # c => executions'[d] = executions[d]
    PROVE  LET p == Peer(e) IN
           /\ c \in Calls /\ Caller[c] = p /\ executions[c] = 0 /\ c \notin requests[e]
           /\ Request(c) \in InT(p) /\ Request(c) \notin InT(p)'
           /\ c \notin dispatching[e] /\ Reply(c) \notin InT(e)
           /\ InTransit(e)' = InTransit(e) /\ InT(e)' = InT(e) /\ InTransit(p) # <<>>
           /\ Ordering(p)' /\ SendQueue(e)' /\ SendQueue(p)'
           /\ InT(p)' \subseteq InT(p)
           /\ \A m \in InT(p) : m # Request(c) => m \in InT(p)'
           /\ channel' \in [Ends -> Seq(Messages)]
<1> DEFINE p == Peer(e)
<1>0. p \in Ends /\ p # e /\ Peer(p) = e
  BY PeerOfPeer
<1>1. /\ TypeOK /\ Routes(e) /\ Routes(p) /\ SendQueue(e) /\ SendQueue(p)
      /\ \A d \in Calls : CallOK(d)
  BY <1>0 DEF IInv, EndOK
<1>2. /\ channel[e] # <<>> /\ Head(channel[e]).type = "request"
      /\ channel' = [channel EXCEPT ![e] = Tail(@)]
  BY DEF Receive
<1>3. Head(channel[e]) = Request(c) /\ c \in Calls /\ Request(c) \in InT(p)
      /\ Request(c).type = "request" /\ \A d : Reply(d) # Request(c)
  <2>1. /\ InTransit(p) # <<>> /\ Head(InTransit(p)) = Head(channel[e])
        /\ Head(channel[e]) \in Messages
    BY <1>1, <1>2, ReadEffect
  <2>2. Head(channel[e]) = Request(c) /\ c \in Calls
    BY <1>2, <2>1, MessageKinds
  <2>3. InTransit(p) \in Seq(Messages)
    BY <1>0, <1>1, TransitType
  <2>4. Head(InTransit(p)) \in InT(p)
    BY <2>1, <2>3, HeadAndTail DEF InT
  <2>5. QED
    BY <2>1, <2>2, <2>4, MessageKinds
<1>4. Caller[c] = p /\ executions[c] = 0
  BY <1>0, <1>1, <1>3 DEF Routes, CallOK
<1>5. c \notin dispatching[e] /\ Reply(c) \notin InT(e) /\ c \notin requests[e]
  BY <1>0, <1>1, <1>3, <1>4 DEF Routes, CallOK
<1>6. Executed(e)' \subseteq Executed(e)
  BY <1>5 DEF Executed
<1>7. /\ InTransit(e)' = InTransit(e) /\ InT(e)' = InT(e) /\ InTransit(p) # <<>>
      /\ Ordering(p)' /\ SendQueue(e)' /\ SendQueue(p)'
      /\ InT(p)' \subseteq InT(p)
      /\ Head(channel[e]).type \in {"request", "reply"} => Head(channel[e]) \notin InT(p)'
      /\ \A m \in InT(p) : m # Head(channel[e]) => m \in InT(p)'
      /\ channel' \in [Ends -> Seq(Messages)]
  BY <1>2, <1>3, <1>6, ReadFacts
<1>8. QED
  BY <1>3, <1>4, <1>5, <1>7

LEMMA ReceiveRequestStep ==
    ASSUME IInv, NEW e \in Ends, ReceiveRequest(e)
    PROVE  IInv'
<1> DEFINE p == Peer(e)
           c == Head(channel[e]).call
<1>0. p \in Ends /\ p # e /\ Peer(p) = e /\ Peer(p)' = e /\ Peer(e)' = p
      /\ (\A f \in Ends : f = e \/ f = p) /\ "A" \in Ends /\ "B" \in Ends
  BY PeerOfPeer DEF Peer, Ends
<1>1. /\ TypeOK /\ EndState(e) /\ Routes(e) /\ Upcalls(e) /\ Counting(e) /\ EndState(p)
      /\ Ordering(e) /\ Ordering(p) /\ SendQueue(p) /\ SendQueue(e)
      /\ \A d \in Calls : CallOK(d) /\ Caller[d] \in Ends
  BY <1>0, CallsAssumption DEF IInv, EndOK
<1>2. /\ Receive(e, "request")
      /\ UNCHANGED <<state, exception, sendStreams, requests, callbacks, waiters, reaped,
                     socketOpen, outcome, torn, environment, assertFailed, written>>
  BY DEF ReceiveRequest, NoAssertFails
<1>3. /\ dispatchCount \in [Ends -> Nat] /\ dispatching \in [Ends -> SUBSET Calls]
      /\ executions \in [Calls -> Nat] /\ requests[e] \subseteq Calls
  BY <1>1 DEF TypeOK
<1>4. /\ state[e] = "Closing" => UNCHANGED <<dispatchCount, dispatching, executions>>
      /\ state[e] # "Closing" =>
           /\ dispatchCount' = [dispatchCount EXCEPT ![e] = @ + 1]
           /\ dispatching' = [dispatching EXCEPT ![e] = @ \cup {c}]
           /\ executions' = [executions EXCEPT ![c] = @ + 1]
  BY DEF ReceiveRequest
<1>5. \A d \in requests[e] : d # c => executions'[d] = executions[d]
  BY <1>3, <1>4
<1>6. /\ c \in Calls /\ Caller[c] = p /\ executions[c] = 0 /\ c \notin requests[e]
      /\ Request(c) \in InT(p) /\ Request(c) \notin InT(p)'
      /\ c \notin dispatching[e] /\ Reply(c) \notin InT(e)
      /\ InTransit(e)' = InTransit(e) /\ InT(e)' = InT(e) /\ InTransit(p) # <<>>
      /\ Ordering(p)' /\ SendQueue(e)' /\ SendQueue(p)'
      /\ InT(p)' \subseteq InT(p)
      /\ \A m \in InT(p) : m # Request(c) => m \in InT(p)'
      /\ channel' \in [Ends -> Seq(Messages)]
  BY <1>2, <1>5, RequestRead
<1> HIDE DEF c
<1>7. /\ dispatchCount' \in [Ends -> Nat] /\ dispatchCount'[p] = dispatchCount[p]
      /\ dispatching' \in [Ends -> SUBSET Calls] /\ dispatching'[p] = dispatching[p]
      /\ executions' \in [Calls -> Nat] /\ \A d \in Calls : d # c => executions'[d] = executions[d]
      /\ \/ /\ state[e] = "Closing"
            /\ dispatchCount'[e] = dispatchCount[e] /\ dispatching'[e] = dispatching[e]
            /\ executions'[c] = 0
         \/ /\ state[e] = "Active"
            /\ dispatchCount'[e] = dispatchCount[e] + 1
            /\ dispatching'[e] = dispatching[e] \cup {c} /\ executions'[c] = 1
  <2>1. state[e] = "Closing" \/ state[e] = "Active"
    BY <1>2 DEF Receive, Reading
  <2>2. CASE state[e] = "Closing"
    BY <1>3, <1>4, <1>6, <2>2
  <2>3. CASE state[e] = "Active"
    <3>1. /\ dispatchCount' = [dispatchCount EXCEPT ![e] = dispatchCount[e] + 1]
          /\ dispatchCount[e] + 1 \in Nat
      BY <1>3, <1>4, <2>3
    <3>2. /\ dispatchCount' \in [Ends -> Nat] /\ dispatchCount'[p] = dispatchCount[p]
          /\ dispatchCount'[e] = dispatchCount[e] + 1
      BY <1>0, <1>3, <3>1
    <3>3. /\ dispatching' \in [Ends -> SUBSET Calls] /\ dispatching'[p] = dispatching[p]
          /\ dispatching'[e] = dispatching[e] \cup {c}
      <4>1. /\ dispatching' = [dispatching EXCEPT ![e] = dispatching[e] \cup {c}]
            /\ dispatching[e] \cup {c} \in SUBSET Calls
        BY <1>3, <1>4, <1>6, <2>3
      <4>2. QED
        BY <1>0, <1>3, <4>1
    <3>4. /\ executions' \in [Calls -> Nat] /\ \A d \in Calls : d # c => executions'[d] = executions[d]
          /\ executions'[c] = 1
      BY <1>3, <1>4, <1>6, <2>3
    <3>5. QED
      BY <2>3, <3>2, <3>3, <3>4
  <2>4. QED
    BY <2>1, <2>2, <2>3
<1>8. TypeOK'
  BY <1>1, <1>2, <1>6, <1>7 DEF TypeOK
<1>9. state[e] \notin Ending /\ (state[e] = "Active" => Close \notin InT(e))
  BY <1>1, <1>7 DEF EndState, Stopping, Ending
<1>10. Ordering(e)'
  <2>1. InTransit(e) \in Seq(Messages)
    BY <1>1, TransitType
  <2>2. CASE state[e] = "Closing"
    <3>1. executions'[c] = executions[c]
      BY <1>6, <1>7, <2>2
    <3>2. requests[p] \subseteq Calls
      BY <1>0, <1>1 DEF TypeOK
    <3>3. Executed(p)' = Executed(p)
      BY <1>2, <1>7, <3>1, <3>2 DEF Executed
    <3>4. QED
      BY <1>0, <1>1, <1>6, <3>3 DEF Ordering
  <2>3. CASE state[e] = "Active"
    BY <1>0, <1>1, <1>6, <1>9, <2>1, <2>3, AnsweredWhenClosed DEF Ordering, InT
  <2>4. QED
    BY <1>7, <2>2, <2>3
<1>11. Counting(e)'
  <2>1. CASE state[e] = "Closing"
    BY <1>1, <1>2, <1>7, <2>1 DEF Counting
  <2>2. CASE state[e] = "Active"
    <3> DEFINE D == Cardinality(dispatching[e])
               C == Cardinality(callbacks[e])
               DD == Cardinality(dispatching'[e])
               n == dispatchCount[e]
    <3>1. IsFiniteSet(dispatching[e]) /\ IsFiniteSet(callbacks[e]) /\ n = D + C /\ n \in Nat
      BY <1>1, <1>3 DEF Counting
    <3>2. /\ IsFiniteSet(dispatching[e] \cup {c})
          /\ Cardinality(dispatching[e] \cup {c}) =
               IF c \in dispatching[e] THEN Cardinality(dispatching[e])
               ELSE Cardinality(dispatching[e]) + 1
      BY <3>1, FS_AddElement
    <3>3. IsFiniteSet(dispatching'[e]) /\ DD = D + 1 /\ D \in Nat /\ C \in Nat
      BY <1>6, <1>7, <2>2, <3>1, <3>2, FS_CardinalityType
    <3>4. n + 1 = DD + C
      <4> HIDE DEF D, C, DD, n
      <4>1. QED
        BY <3>1, <3>3
    <3>5. state[e] # "Finished"
      BY <2>2
    <3>6. QED
      BY <1>1, <1>2, <1>7, <2>2, <3>1, <3>3, <3>4, <3>5 DEF Counting
  <2>3. QED
    BY <1>7, <2>1, <2>2
<1>12. EndOK(e)'
  <2>1. EndState(e)'
    BY <1>0, <1>1, <1>2, <1>6, <1>7, <1>9 DEF EndState
  <2>2. Routes(e)'
    BY <1>0, <1>1, <1>2, <1>6, <1>7 DEF Routes
  <2>3. Upcalls(e)'
    <3>1. \A d \in Calls : executions[d] = 1 => executions'[d] = 1
      BY <1>6, <1>7
    <3>2. QED
      BY <1>1, <1>2, <3>1 DEF Upcalls
  <2>4. QED
    BY <2>1, <2>2, <2>3 DEF EndOK
<1>13. EndOK(p)' /\ Counting(p)'
  <2>1. OnlyOwnCalls(p)
    BY <1>2, <1>6, <1>7 DEF OnlyOwnCalls
  <2>2. Untouched(p)
    BY <1>2, <1>7 DEF Untouched
  <2>3. QED
    BY <1>0, <1>6, <2>1, <2>2, UntouchedEnd
<1>14. ASSUME NEW d \in Calls
       PROVE  CallOK(d)'
  <2>1. Caller[d] = e \/ Caller[d] = p
    BY <1>0, <1>1
  <2>2. CASE d # c \/ state[e] = "Closing"
    <3>1. /\ executions'[d] = executions[d]
          /\ d \in dispatching'[e] <=> d \in dispatching[e]
      BY <1>6, <1>7, <2>2
    <3>2. \A x : Reply(x) # Request(c)
      BY MessageKinds
    <3>3. Keeps(d)
      <4>1. CASE Caller[d] = e
        BY <1>0, <1>2, <1>6, <1>7, <3>1, <3>2, <4>1 DEF Keeps
      <4>2. CASE Caller[d] = p
        BY <1>0, <1>2, <1>6, <1>7, <3>1, <4>2 DEF Keeps
      <4>3. QED
        BY <2>1, <4>1, <4>2
    <3>4. QED
      BY <1>1, <3>3, CallKept
  <2>3. CASE d = c /\ state[e] = "Active"
    <3>1. /\ executions'[c] = 1 /\ c \in dispatching'[e]
          /\ state[e] \notin Stopping
      BY <1>7, <2>3 DEF Stopping, Ending
    <3>2. CallOK(c)
      BY <1>6, <1>1
    <3>3. QED
      BY <1>0, <1>2, <1>6, <2>3, <3>1, <3>2 DEF CallOK
  <2>4. QED
    BY <1>7, <2>2, <2>3
<1>15. Unaccepted'
  <2>1. \A f \in Ends : InTransit(f) = <<>> => InTransit(f)' = InTransit(f)
    BY <1>0, <1>6
  <2>2. QED
    BY <1>0, <1>2, <2>1, UnacceptedKept
<1>16. Graceful'
  <2>1. \A f \in Ends : InTransit(f) = <<>> => InTransit(f)' = InTransit(f)
    BY <1>0, <1>6
  <2>2. ASSUME NEW d \in Calls, Caller[d] = "B", state["A"] \in Ending
        PROVE  executions'[d] = executions[d]
    <3>1. d # c \/ state[e] \in Ending
      BY <1>0, <1>6, <2>2
    <3>2. QED
      BY <1>7, <1>9, <3>1
  <2>3. QED
    BY <1>0, <1>2, <2>1, <2>2, GracefulKept
<1>17. QED
  BY <1>6, <1>8, <1>10, <1>11, <1>12, <1>13, <1>14, <1>15, <1>16, Assemble

\* One more callback of e runs.
LEMMA CountedUp ==
    ASSUME TypeOK, NEW e \in Ends, Counting(e), NEW cb, cb \notin callbacks[e],
           dispatching'[e] = dispatching[e], callbacks'[e] = callbacks[e] \cup {cb},
           dispatchCount' = [dispatchCount EXCEPT ![e] = @ + 1], UNCHANGED reaped,
           state[e] # "Finished", state'[e] # "Finished"
    PROVE  Counting(e)' /\ dispatchCount' \in [Ends -> Nat]
           /\ dispatchCount'[Peer(e)] = dispatchCount[Peer(e)]
<1> DEFINE D == Cardinality(dispatching[e])
           C == Cardinality(callbacks[e])
           CC == Cardinality(callbacks'[e])
           n == dispatchCount[e]
<1>0. Peer(e) \in Ends /\ Peer(e) # e
  BY PeerOfPeer
<1>1. /\ IsFiniteSet(dispatching[e]) /\ IsFiniteSet(callbacks[e]) /\ n = D + C /\ n \in Nat
      /\ dispatchCount \in [Ends -> Nat]
  BY DEF Counting, TypeOK
<1>2. /\ IsFiniteSet(callbacks[e] \cup {cb})
      /\ Cardinality(callbacks[e] \cup {cb}) =
           IF cb \in callbacks[e] THEN Cardinality(callbacks[e])
           ELSE Cardinality(callbacks[e]) + 1
  BY <1>1, FS_AddElement
<1>3. IsFiniteSet(callbacks'[e]) /\ CC = C + 1 /\ D \in Nat /\ C \in Nat
  BY <1>1, <1>2, FS_CardinalityType
<1>4. n + 1 = D + CC /\ n + 1 \in Nat
  <2> HIDE DEF D, C, CC, n
  <2>1. QED
    BY <1>1, <1>3
<1>5. /\ dispatchCount' \in [Ends -> Nat] /\ dispatchCount'[e] = n + 1
      /\ dispatchCount'[Peer(e)] = dispatchCount[Peer(e)]
  BY <1>0, <1>1, <1>4
<1>6. Counting(e)'
  BY <1>1, <1>3, <1>4, <1>5 DEF Counting
<1>7. QED
  BY <1>5, <1>6

\* A queued request is on its way, unless it is the head that has been written
\* and the peer has read.
LEMMA QueuedInTransit ==
    ASSUME TypeOK, NEW e \in Ends, SendQueue(e), NEW c \in Requested(sendStreams[e])
    PROVE  \/ Request(c) \in InT(e)
           \/ written[e] /\ channel[Peer(e)] = <<>> /\ Request(c) = Head(sendStreams[e])
<1> DEFINE q == sendStreams[e]
           t == channel[Peer(e)]
<1>1. /\ q \in Seq(Messages) /\ t \in Seq(Messages) /\ Unwritten(e) \in Seq(Messages)
      /\ InTransit(e) = t \o Unwritten(e)
  BY TransitType
<1>2. Request(c) \in Elems(q)
  BY <1>1, RequestedAre
<1>3. q # <<>>
  BY <1>2 DEF Elems
<1>4. \A m : m \in InT(e) <=> m \in Elems(t) \/ m \in Elems(Unwritten(e))
  BY <1>1, ElemsJoined DEF InT
<1>5. CASE ~written[e]
  BY <1>2, <1>4, <1>5 DEF Unwritten
<1>6. CASE written[e] /\ Request(c) \in Elems(Tail(q))
  BY <1>4, <1>6 DEF Unwritten
<1>7. CASE written[e] /\ Request(c) = Head(q) /\ t # <<>>
  <2>1. t[Len(t)] = Request(c)
    BY <1>7 DEF SendQueue
  <2>2. Len(t) \in 1..Len(t)
    BY <1>1, <1>7, HeadAndTail
  <2>3. Request(c) \in Elems(t)
    BY <1>1, <2>1, <2>2, ElemsOf
  <2>4. QED
    BY <1>4, <2>3
<1>8. CASE written[e] /\ Request(c) = Head(q) /\ t = <<>>
  BY <1>8
<1>9. QED
  BY <1>1, <1>2, <1>3, <1>5, <1>6, <1>7, <1>8, HeadAndTail

\* A reply is read: its call waits for it, and was executed.
LEMMA ReplyRead ==
    ASSUME IInv, NEW e \in Ends, Receive(e, "reply"),
           UNCHANGED <<sendStreams, written, socketOpen, executions>>,
           NEW c, c = Head(channel[e]).call,
           requests'[e] = requests[e] \ {c}
    PROVE  LET p == Peer(e) IN
           /\ c \in Calls /\ Caller[c] = e /\ executions[c] = 1 /\ outcome[c] = "pending"
           /\ c \in requests[e] /\ c \notin dispatching[p] /\ c \notin Requested(sendStreams[e])
           /\ Request(c) \notin InT(e)
           /\ Reply(c) \in InT(p) /\ Reply(c) \notin InT(p)'
           /\ InTransit(e)' = InTransit(e) /\ InT(e)' = InT(e) /\ InTransit(p) # <<>>
           /\ Ordering(p)' /\ SendQueue(e)' /\ SendQueue(p)'
           /\ InT(p)' \subseteq InT(p)
           /\ \A m \in InT(p) : m # Reply(c) => m \in InT(p)'
           /\ channel' \in [Ends -> Seq(Messages)]
<1> DEFINE p == Peer(e)
<1>0. p \in Ends /\ p # e /\ Peer(p) = e
  BY PeerOfPeer
<1>1. /\ TypeOK /\ Routes(e) /\ Routes(p) /\ SendQueue(e) /\ SendQueue(p)
      /\ \A d \in Calls : CallOK(d)
  BY <1>0 DEF IInv, EndOK
<1>2. /\ channel[e] # <<>> /\ Head(channel[e]).type = "reply"
      /\ channel' = [channel EXCEPT ![e] = Tail(@)]
      /\ state[e] \in Reading /\ (written[e] => channel[p] # <<>>)
  BY DEF Receive
<1>3. /\ Head(channel[e]) = Reply(c) /\ c \in Calls /\ Reply(c) \in InT(p)
      /\ Reply(c).type = "reply" /\ \A d : Reply(d) = Reply(c) => d = c
  <2>1. /\ InTransit(p) # <<>> /\ Head(InTransit(p)) = Head(channel[e])
        /\ Head(channel[e]) \in Messages
    BY <1>1, <1>2, ReadEffect
  <2>2. Head(channel[e]) = Reply(c) /\ c \in Calls
    BY <1>2, <2>1, MessageKinds
  <2>3. InTransit(p) \in Seq(Messages)
    BY <1>0, <1>1, TransitType
  <2>4. Head(InTransit(p)) \in InT(p)
    BY <2>1, <2>3, HeadAndTail DEF InT
  <2>5. QED
    BY <2>1, <2>2, <2>4, MessageKinds
<1>4. Caller[c] = e
  BY <1>0, <1>1, <1>3 DEF Routes
<1>5. /\ executions[c] = 1 /\ c \in Twoway /\ c \notin dispatching[p]
      /\ c \in requests[e] /\ outcome[c] = "pending"
  BY <1>0, <1>1, <1>2, <1>3, <1>4 DEF CallOK, Reading, Ending
<1>6. Request(c) \notin InT(e)
  BY <1>1, <1>3, <1>4, <1>5 DEF CallOK
<1>7. c \notin Requested(sendStreams[e])
  BY <1>1, <1>2, <1>6, QueuedInTransit
<1>8. Executed(e)' \subseteq Executed(e) /\ \A d \in Executed(e)' : Head(channel[e]) # Reply(d)
  BY <1>3 DEF Executed
<1>9. /\ InTransit(e)' = InTransit(e) /\ InT(e)' = InT(e) /\ InTransit(p) # <<>>
      /\ Ordering(p)' /\ SendQueue(e)' /\ SendQueue(p)'
      /\ InT(p)' \subseteq InT(p)
      /\ Head(channel[e]).type \in {"request", "reply"} => Head(channel[e]) \notin InT(p)'
      /\ \A m \in InT(p) : m # Head(channel[e]) => m \in InT(p)'
      /\ channel' \in [Ends -> Seq(Messages)]
  BY <1>2, <1>8, ReadFacts
<1>10. QED
  BY <1>3, <1>4, <1>5, <1>6, <1>7, <1>9

LEMMA ReceiveReplyStep ==
    ASSUME IInv, NEW e \in Ends, ReceiveReply(e)
    PROVE  IInv'
<1> DEFINE p == Peer(e)
           c == Head(channel[e]).call
           cb == [type |-> "reply", calls |-> {c}]
<1>0. p \in Ends /\ p # e /\ Peer(p) = e /\ Peer(p)' = e /\ Peer(e)' = p
      /\ (\A f \in Ends : f = e \/ f = p) /\ "A" \in Ends /\ "B" \in Ends
  BY PeerOfPeer DEF Peer, Ends
<1>1. /\ TypeOK /\ EndState(e) /\ Routes(e) /\ Upcalls(e) /\ Counting(e) /\ EndState(p)
      /\ Ordering(e)
      /\ \A d \in Calls : CallOK(d) /\ Caller[d] \in Ends
  BY <1>0, CallsAssumption DEF IInv, EndOK
<1>2. /\ Receive(e, "reply") /\ state[e] \in Reading
      /\ requests' = [requests EXCEPT ![e] = @ \ {c}]
      /\ \/ /\ c \in Async
            /\ callbacks' = [callbacks EXCEPT ![e] = @ \cup {cb}]
            /\ dispatchCount' = [dispatchCount EXCEPT ![e] = @ + 1]
            /\ outcome' = outcome
         \/ /\ outcome' = [outcome EXCEPT ![c] = "ok"]
            /\ callbacks' = callbacks /\ dispatchCount' = dispatchCount
      /\ NotifyAll(e, TRUE)
      /\ UNCHANGED <<state, exception, sendStreams, dispatching, reaped, socketOpen,
                     executions, torn, environment, assertFailed, written>>
  BY DEF ReceiveReply, Receive, NoAssertFails
<1>3. /\ requests \in [Ends -> SUBSET Calls]
      /\ callbacks \in [Ends -> SUBSET [type : {"sent", "reply"}, calls : SUBSET Calls]]
      /\ outcome \in [Calls -> {"idle", "pending", "ok", "retry", "fatal"}]
      /\ dispatchCount \in [Ends -> Nat]
  BY <1>1 DEF TypeOK
<1>4. /\ requests' \in [Ends -> SUBSET Calls] /\ requests'[e] = requests[e] \ {c}
      /\ requests'[p] = requests[p]
      /\ waiters' \in [Ends -> [Threads -> WaiterStates]]
  BY <1>0, <1>1, <1>2, <1>3, WaitersType
<1>5. /\ c \in Calls /\ Caller[c] = e /\ executions[c] = 1 /\ outcome[c] = "pending"
      /\ c \in requests[e] /\ c \notin dispatching[p] /\ c \notin Requested(sendStreams[e])
      /\ Request(c) \notin InT(e)
      /\ Reply(c) \in InT(p) /\ Reply(c) \notin InT(p)'
      /\ InTransit(e)' = InTransit(e) /\ InT(e)' = InT(e) /\ InTransit(p) # <<>>
      /\ Ordering(p)' /\ SendQueue(e)' /\ SendQueue(p)'
      /\ InT(p)' \subseteq InT(p)
      /\ \A m \in InT(p) : m # Reply(c) => m \in InT(p)'
      /\ channel' \in [Ends -> Seq(Messages)]
  BY <1>2, <1>4, ReplyRead
<1> HIDE DEF c
<1>6. /\ outcome' \in [Calls -> {"idle", "pending", "ok", "retry", "fatal"}]
      /\ \A d \in Calls : d # c => outcome'[d] = outcome[d]
      /\ \/ outcome'[c] = "pending" /\ callbacks'[e] = callbacks[e] \cup {cb}
         \/ outcome'[c] = "ok" /\ callbacks'[e] = callbacks[e]
      /\ callbacks'[p] = callbacks[p]
      /\ callbacks' \in [Ends -> SUBSET [type : {"sent", "reply"}, calls : SUBSET Calls]]
  <2>1. cb \in [type : {"sent", "reply"}, calls : SUBSET Calls]
    BY <1>5
  <2> HIDE DEF cb
  <2>2. callbacks[e] \cup {cb} \in SUBSET [type : {"sent", "reply"}, calls : SUBSET Calls]
    BY <1>3, <2>1
  <2>3. CASE /\ callbacks' = [callbacks EXCEPT ![e] = @ \cup {cb}] /\ outcome' = outcome
    <3>1. callbacks' = [callbacks EXCEPT ![e] = callbacks[e] \cup {cb}]
      BY <2>3
    <3>2. QED
      BY <1>0, <1>3, <1>5, <2>2, <2>3, <3>1
  <2>4. CASE outcome' = [outcome EXCEPT ![c] = "ok"] /\ callbacks' = callbacks
    BY <1>3, <1>5, <2>4
  <2>5. QED
    BY <1>2, <2>3, <2>4
<1>7. cb \notin callbacks[e] /\ state[e] # "Finished" /\ state[e] \notin Ending
  <2>1. ASSUME cb \in callbacks[e]
        PROVE  FALSE
    <3>1. PICK d \in Calls : cb.calls = {d} /\ d \notin requests[e]
      BY <1>1, <2>1 DEF Upcalls
    <3>2. d = c
      BY <3>1
    <3>3. QED
      BY <1>5, <3>1, <3>2
  <2>2. QED
    BY <1>2, <2>1 DEF Reading, Ending
<1>8. Counting(e)' /\ dispatchCount' \in [Ends -> Nat] /\ dispatchCount'[p] = dispatchCount[p]
  <2> HIDE DEF cb
  <2>1. CASE outcome' = outcome /\ callbacks' = [callbacks EXCEPT ![e] = @ \cup {cb}]
               /\ dispatchCount' = [dispatchCount EXCEPT ![e] = @ + 1]
    <3>1. callbacks'[e] = callbacks[e] \cup {cb}
      BY <1>3, <2>1
    <3>2. QED
      BY <1>1, <1>2, <1>7, <2>1, <3>1, CountedUp
  <2>2. CASE callbacks' = callbacks /\ dispatchCount' = dispatchCount
    BY <1>1, <1>2, <1>3, <2>2 DEF Counting
  <2>3. QED
    BY <1>2, <2>1, <2>2
<1>9. TypeOK'
  BY <1>1, <1>2, <1>4, <1>5, <1>6, <1>8 DEF TypeOK
<1>10. Ordering(e)'
  <2>1. Executed(p)' = Executed(p)
    BY <1>2, <1>4 DEF Executed
  <2>2. QED
    BY <1>0, <1>1, <1>5, <2>1 DEF Ordering
<1>11. Upcalls(e)'
  <2>1. ASSUME NEW other \in callbacks[e]
        PROVE  /\ \A d \in other.calls : /\ Caller[d] = e /\ outcome'[d] # "idle"
                                         /\ d \notin Requested(sendStreams[e])
               /\ other.type = "reply" =>
                    \E d \in Calls : /\ other.calls = {d} /\ d \notin requests'[e]
                                     /\ outcome'[d] = "pending" /\ executions[d] = 1
    <3>1. \A d \in other.calls : d \in Calls /\ outcome[d] # "idle"
      BY <1>1, <1>3 DEF Upcalls
    <3>2. \A d \in other.calls : /\ Caller[d] = e /\ outcome'[d] # "idle"
                                 /\ d \notin Requested(sendStreams[e])
      BY <1>1, <1>6, <3>1 DEF Upcalls
    <3>3. ASSUME other.type = "reply"
          PROVE  \E d \in Calls : /\ other.calls = {d} /\ d \notin requests'[e]
                                  /\ outcome'[d] = "pending" /\ executions[d] = 1
      <4>1. PICK d \in Calls : /\ other.calls = {d} /\ d \notin requests[e]
                               /\ outcome[d] = "pending" /\ executions[d] = 1
        BY <1>1, <3>3 DEF Upcalls
      <4>2. d # c /\ outcome'[d] = outcome[d] /\ d \notin requests'[e]
        BY <1>4, <1>5, <1>6, <4>1
      <4>3. QED
        BY <4>1, <4>2
    <3>4. QED
      BY <3>2, <3>3
  <2>2. ASSUME outcome'[c] = "pending"
        PROVE  /\ \A d \in cb.calls : /\ Caller[d] = e /\ outcome'[d] # "idle"
                                      /\ d \notin Requested(sendStreams[e])
               /\ \E d \in Calls : /\ cb.calls = {d} /\ d \notin requests'[e]
                                   /\ outcome'[d] = "pending" /\ executions[d] = 1
    <3>1. cb.calls = {c} /\ c \notin requests'[e]
      BY <1>4
    <3>2. QED
      BY <1>5, <2>2, <3>1
  <2> HIDE DEF cb
  <2>3. QED
    BY <1>2, <1>6, <2>1, <2>2 DEF Upcalls
<1> HIDE DEF cb
<1>12. EndState(e)' /\ Routes(e)'
  <2>1. EndState(e)'
    BY <1>0, <1>1, <1>2, <1>4, <1>5 DEF EndState
  <2>2. Routes(e)'
    BY <1>0, <1>1, <1>2, <1>4, <1>5 DEF Routes
  <2>3. QED
    BY <2>1, <2>2
<1>13. EndOK(p)' /\ Counting(p)'
  <2>1. OnlyOwnCalls(p)
    BY <1>0, <1>2, <1>5, <1>6 DEF OnlyOwnCalls
  <2>2. Untouched(p)
    BY <1>2, <1>4, <1>6, <1>8 DEF Untouched
  <2>3. QED
    BY <1>0, <1>5, <2>1, <2>2, UntouchedEnd
<1>14. ASSUME NEW d \in Calls
       PROVE  CallOK(d)'
  <2>1. Caller[d] = e \/ Caller[d] = p
    BY <1>0, <1>1
  <2>2. Keeps(d)
    <3>1. CASE d = c
      BY <1>0, <1>2, <1>4, <1>5, <1>6, <3>1 DEF Keeps
    <3>2. CASE d # c
      <4>1. Reply(d) # Reply(c) /\ Request(d) # Reply(c)
        BY <3>2, MessageKinds
      <4>2. d \in requests'[Caller[d]] <=> d \in requests[Caller[d]]
        BY <1>4, <2>1, <3>2
      <4>3. CASE Caller[d] = e
        BY <1>0, <1>2, <1>5, <1>6, <3>2, <4>1, <4>2, <4>3 DEF Keeps
      <4>4. CASE Caller[d] = p
        BY <1>0, <1>2, <1>5, <1>6, <3>2, <4>1, <4>2, <4>4 DEF Keeps
      <4>5. QED
        BY <2>1, <4>3, <4>4
    <3>3. QED
      BY <3>1, <3>2
  <2>3. QED
    BY <1>1, <2>2, CallKept
<1>15. Unaccepted' /\ Graceful'
  <2>1. \A f \in Ends : InTransit(f) = <<>> => InTransit(f)' = InTransit(f)
    BY <1>0, <1>5
  <2>2. \A d \in Calls : /\ d \in requests'[Caller[d]] => d \in requests[Caller[d]]
                         /\ outcome'[d] = "fatal" => outcome[d] = "fatal"
    BY <1>0, <1>1, <1>4, <1>6
  <2>3. QED
    BY <1>0, <1>2, <2>1, <2>2, UnacceptedKept, GracefulKept
<1>16. QED
  BY <1>5, <1>8, <1>9, <1>10, <1>11, <1>12, <1>13, <1>14, <1>15, Assemble DEF EndOK

-----------------------------------------------------------------------------
(***************************************************************************)
(* Messages that are written                                               *)
(***************************************************************************)

\* The transceiver takes messages of e, and oneways among them may be done; e
\* stays as it is or loses the connection.
Writes(e) ==
    /\ state[e] \in Running
    /\ Shrinks(e) /\ Shrinks(Peer(e)) /\ InTransit(Peer(e))' = InTransit(Peer(e))
    /\ socketOpen[Peer(e)] => InTransit(e)' = InTransit(e)
    /\ SendQueue(e)' /\ SendQueue(Peer(e))'
    /\ sendStreams'[Peer(e)] = sendStreams[Peer(e)] /\ written'[Peer(e)] = written[Peer(e)]
    /\ \A c \in Calls : c \in Requested(sendStreams'[e]) => c \in Requested(sendStreams[e])
    /\ Requested(sendStreams'[e]) \subseteq Calls
    /\ \A c \in Calls :
         \/ outcome'[c] = outcome[c]
         \/ /\ outcome'[c] = "ok" /\ c \notin Twoway
            /\ c \in Requested(sendStreams[e]) /\ c \notin Requested(sendStreams'[e])
    /\ UNCHANGED <<environment, requests, dispatching, reaped, socketOpen, executions, torn>>
    /\ callbacks'[Peer(e)] = callbacks[Peer(e)]
    /\ dispatchCount'[Peer(e)] = dispatchCount[Peer(e)]
    /\ \/ state' = state /\ exception' = exception
       \/ /\ state' = [state EXCEPT ![e] = "Closed"]
          /\ exception' = [exception EXCEPT ![e] = Keep(@, "Lost")]
          /\ WriteMayFail(e)

LEMMA WritesStep ==
    ASSUME IInv, NEW e \in Ends, Writes(e)
    PROVE  /\ state' \in [Ends -> States] /\ exception' \in [Ends -> Exceptions]
           /\ state[e] # "Finished" /\ state'[e] # "Finished"
           /\ Ordering(e)' /\ Ordering(Peer(e))'
           /\ EndState(e)' /\ Routes(e)' /\ EndOK(Peer(e))' /\ Counting(Peer(e))'
           /\ \A c \in Calls : CallOK(c)'
           /\ Unaccepted' /\ Graceful'
<1> DEFINE p == Peer(e)
<1>0. p \in Ends /\ p # e /\ Peer(p) = e /\ Peer(p)' = e /\ Peer(e)' = p
      /\ (\A f \in Ends : f = e \/ f = p) /\ "A" \in Ends /\ "B" \in Ends
  BY PeerOfPeer DEF Peer, Ends
<1>1. /\ TypeOK /\ SendQueue(e) /\ SendQueue(p) /\ Ordering(e) /\ Ordering(p)
      /\ EndState(e) /\ Routes(e) /\ EndState(p)
      /\ \A d \in Calls : CallOK(d) /\ Caller[d] \in Ends
  BY <1>0, CallsAssumption DEF IInv, EndOK
<1>2. state \in [Ends -> States] /\ exception \in [Ends -> Exceptions]
  BY <1>1 DEF TypeOK
<1>3. /\ state' \in [Ends -> States] /\ exception' \in [Ends -> Exceptions]
      /\ state'[p] = state[p] /\ exception'[p] = exception[p]
      /\ \/ state'[e] = state[e] /\ exception'[e] = exception[e]
         \/ /\ state'[e] = "Closed" /\ exception'[e] = Keep(exception[e], "Lost")
            /\ WriteMayFail(e)
  BY <1>0, <1>2 DEF Writes, States, Exceptions, Keep
<1>4. /\ state[e] \in Running /\ state[e] \notin Ending
      /\ state[e] # "Finished" /\ state'[e] # "Finished"
      /\ state[e] # "NotValidated" /\ state'[e] # "NotValidated"
      /\ (state[e] \in Stopping => state'[e] \in Stopping)
      /\ (exception'[e] \in {"CloseConnection", "Idle"} => exception'[e] = exception[e])
      /\ (exception'[e] = "none" <=> state'[e] \in Unopened)
  <2>1. state[e] \in Running /\ (exception[e] = "none" <=> state[e] \in Unopened)
    BY <1>1 DEF Writes, EndState
  <2>2. QED
    BY <1>3, <2>1 DEF Running, Ending, Stopping, Unopened, Open, Keep
<1>5. /\ requests' = requests /\ dispatching' = dispatching /\ executions' = executions
      /\ socketOpen' = socketOpen /\ torn' = torn /\ reaped' = reaped
      /\ environment' = environment
      /\ sendStreams'[p] = sendStreams[p] /\ written'[p] = written[p]
      /\ callbacks'[p] = callbacks[p] /\ dispatchCount'[p] = dispatchCount[p]
      /\ InTransit(p)' = InTransit(p)
  BY DEF Writes
<1>6. ~socketOpen[p] => requests[p] = {}
  BY <1>1 DEF EndState
<1>7. /\ Ordering(e)' /\ InT(e)' \subseteq InT(e)
      /\ InTransit(e) = <<>> => InTransit(e)' = <<>>
  <2>1. Executed(p)' \subseteq Executed(p) /\ (~socketOpen'[p] => requests'[p] = {})
    BY <1>5, <1>6 DEF Executed
  <2>2. QED
    BY <1>1, <2>1, ShrinkingKeepsOrdering DEF Writes
<1>8. Ordering(p)' /\ InT(p)' = InT(p)
  <2>1. Executed(e)' = Executed(e)
    BY <1>5 DEF Executed
  <2>2. QED
    BY <1>0, <1>1, <1>5, <2>1 DEF Ordering, InT
<1>9. \A m \in InT(e) : m \in InT(e)' \/ requests[p] = {}
  BY <1>6 DEF Writes, InT
<1>10. EndState(e)'
  BY <1>0, <1>1, <1>4, <1>5, <1>7 DEF EndState
<1>11. Routes(e)'
  BY <1>0, <1>1, <1>5, <1>7 DEF Routes, Writes
<1>12. EndOK(p)' /\ Counting(p)'
  <2>1. OnlyOwnCalls(p)
    <3>1. \A d \in Calls : Caller[d] = p => d \notin Requested(sendStreams[e])
      BY <1>0, <1>1 DEF Routes
    <3>2. QED
      BY <1>5, <3>1 DEF OnlyOwnCalls, Writes
  <2>2. Untouched(p)
    BY <1>3, <1>5 DEF Untouched
  <2>3. QED
    BY <1>0, <1>8, <2>1, <2>2, UntouchedEnd
<1>13. ASSUME NEW d \in Calls
       PROVE  CallOK(d)'
  <2>1. Caller[d] = e \/ Caller[d] = p
    BY <1>0, <1>1
  <2>2. CASE Caller[d] = e
    <3>1. \/ outcome'[d] = outcome[d]
          \/ /\ outcome'[d] = "ok" /\ outcome[d] # "idle"
             /\ d \notin requests'[e] /\ d \notin Requested(sendStreams'[e])
      BY <1>1, <1>5, <2>2 DEF CallOK, Writes
    <3>2. d \in Requested(sendStreams'[e]) => d \in Requested(sendStreams[e])
      BY DEF Writes
    <3>3. Keeps(d)
      BY <1>0, <1>3, <1>4, <1>5, <1>7, <1>8, <2>2, <3>1, <3>2 DEF Keeps
    <3>4. QED
      BY <1>1, <3>3, CallKept
  <2>3. CASE Caller[d] = p
    <3>1. outcome'[d] = outcome[d]
      BY <1>0, <1>1, <2>3 DEF Routes, Writes
    <3>2. state[e] \in Ending => state'[e] \in Ending
      BY <1>4
    <3>3. Keeps(d)
      BY <1>0, <1>3, <1>4, <1>5, <1>7, <1>8, <1>9, <2>3, <3>1, <3>2 DEF Keeps
    <3>4. QED
      BY <1>1, <3>3, CallKept
  <2>4. QED
    BY <2>1, <2>2, <2>3
<1>14. Unaccepted'
  <2>1. \A f \in Ends : /\ state'[f] = "NotValidated" => state[f] = "NotValidated"
                        /\ state'[f] \in Running => state[f] \in Running
                        /\ InTransit(f) = <<>> => InTransit(f)' = <<>>
    BY <1>0, <1>3, <1>4, <1>5, <1>7 DEF Running
  <2>2. QED
    BY <1>0, <2>1, UnacceptedKept
<1>15. Graceful'
  <2>1. \A d \in Calls : outcome'[d] = "fatal" => outcome[d] = "fatal"
    BY DEF Writes
  <2>2. CASE state'[e] = state[e] /\ exception'[e] = exception[e]
    <3>1. \A f \in Ends : state'[f] = state[f] /\ exception'[f] = exception[f]
      BY <1>0, <1>3, <2>2
    <3>2. state["B"] \in Ending => InTransit("B")' = InTransit("B")
      BY <1>0, <1>4, <1>5
    <3>3. QED
      BY <1>0, <1>5, <2>1, <3>1, <3>2, GracefulKept
  <2>3. CASE state'[e] = "Closed" /\ exception'[e] = Keep(exception[e], "Lost") /\ WriteMayFail(e)
    <3>1. CASE Faulty
      BY <1>5, <3>1, GracefulFaulty
    <3>2. CASE state[p] = "Finished"
      BY <1>3, <1>4, <1>5, <2>1, <2>3, <3>2, GracefulLost
    <3>3. QED
      BY <1>1, <2>3, <3>1, <3>2 DEF WriteMayFail, EndState
  <2>4. QED
    BY <1>3, <2>2, <2>3
<1>16. QED
  BY <1>3, <1>4, <1>7, <1>8, <1>10, <1>11, <1>12, <1>13, <1>14, <1>15

LEMMA WriteHeadStep ==
    ASSUME IInv, NEW e \in Ends, WriteThenReadBlocks(e) \/ WriteThenReadFails(e)
    PROVE  IInv'
<1> DEFINE p == Peer(e)
<1>0. p \in Ends /\ p # e
  BY PeerOfPeer
<1>1. /\ TypeOK /\ SendQueue(e) /\ SendQueue(p) /\ Counting(e) /\ Upcalls(e) /\ EndState(p)
  BY <1>0 DEF IInv, EndOK
<1>2. /\ state[e] \in Running /\ sendStreams[e] # <<>> /\ ~written[e]
      /\ Write(e, sendStreams[e], 1) /\ written' = [written EXCEPT ![e] = TRUE]
      /\ UNCHANGED <<sendStreams, dispatchCount, requests, dispatching, callbacks, reaped,
                     socketOpen, callVars, environment, assertFailed>>
      /\ \/ state' = state /\ exception' = exception
         \/ /\ state' = [state EXCEPT ![e] = "Closed"]
            /\ exception' = [exception EXCEPT ![e] = Keep(@, "Lost")]
            /\ WriteMayFail(e)
  BY DEF WriteThenReadBlocks, WriteThenReadFails, Reading, Running, NoAssertFails, WriteMayFail
<1>3. waiters' \in [Ends -> [Threads -> WaiterStates]]
  <2>1. waiters' = waiters \/ NotifyAll(e, TRUE)
    BY DEF WriteThenReadBlocks, WriteThenReadFails
  <2>2. QED
    BY <1>1, <2>1, WaitersType DEF TypeOK
<1>4. /\ Shrinks(e) /\ Shrinks(p) /\ InTransit(p)' = InTransit(p)
      /\ socketOpen[p] => InTransit(e)' = InTransit(e)
      /\ channel' \in [Ends -> Seq(Messages)]
      /\ SendQueue(e)' /\ SendQueue(p)'
  BY <1>1, <1>2, WriteHeadEffect
<1>5. Requested(sendStreams[e]) \subseteq Calls
  BY <1>1, RequestedAre DEF TypeOK
<1>6. written' \in [Ends -> BOOLEAN] /\ written'[p] = written[p]
  BY <1>0, <1>1, <1>2 DEF TypeOK
<1>7. Writes(e)
  BY <1>2, <1>4, <1>5, <1>6 DEF Writes, callVars
<1>8. /\ state' \in [Ends -> States] /\ exception' \in [Ends -> Exceptions]
      /\ state[e] # "Finished" /\ state'[e] # "Finished"
      /\ Ordering(e)' /\ Ordering(p)'
      /\ EndState(e)' /\ Routes(e)' /\ EndOK(p)' /\ Counting(p)'
      /\ \A c \in Calls : CallOK(c)'
      /\ Unaccepted' /\ Graceful'
  BY <1>7, WritesStep
<1>9. TypeOK'
  BY <1>1, <1>2, <1>3, <1>4, <1>6, <1>8 DEF TypeOK, callVars
<1>10. Counting(e)'
  BY <1>1, <1>2, <1>8 DEF Counting
<1>11. Upcalls(e)'
  BY <1>1, <1>2 DEF Upcalls, callVars
<1>12. QED
  BY <1>4, <1>8, <1>9, <1>10, <1>11, Assemble DEF EndOK

\* The messages of the queue that are done are no longer in it.
LEMMA SentOnce ==
    ASSUME NEW q \in Seq(Messages), NEW n \in 0..Len(q), Once(q, {"request"})
    PROVE  /\ Requested(Prefix(q, n)) \subseteq Requested(q)
           /\ Requested(Suffix(q, n)) \subseteq Requested(q)
           /\ Requested(q) \subseteq Calls
           /\ \A c \in Requested(Prefix(q, n)) : c \notin Requested(Suffix(q, n))
           /\ \A c \in Requested(q) :
                c \in Requested(Prefix(q, n)) \/ c \in Requested(Suffix(q, n))
<1> DEFINE s == Prefix(q, n)
           t == Suffix(q, n)
<1>1. /\ s \in Seq(Messages) /\ Len(s) = n /\ \A i \in 1..n : s[i] = q[i]
      /\ t \in Seq(Messages) /\ Len(t) = Len(q) - n
      /\ \A i \in 1..(Len(q) - n) : t[i] = q[n + i]
      /\ s \o t = q
  <2>1. /\ s \in Seq(Messages) /\ Len(s) = n /\ \A i \in 1..n : s[i] = q[i]
        /\ t \in Seq(Messages) /\ Len(t) = Len(q) - n
        /\ \A i \in 1..(Len(q) - n) : t[i] = q[n + i]
    BY MessageParts
  <2>2. s \o t = q
    BY PartsJoined
  <2>3. QED
    BY <2>1, <2>2
<1>2. Len(q) \in Nat /\ n \in Nat /\ n <= Len(q) /\ DOMAIN q = 1..Len(q)
  BY ElemsOf
<1> HIDE DEF s, t
<1>3. \A m : m \in Elems(q) <=> m \in Elems(s) \/ m \in Elems(t)
  BY <1>1, ElemsJoined
<1>4. /\ \A c : c \in Requested(q) <=> Request(c) \in Elems(q)
      /\ \A c : c \in Requested(s) <=> Request(c) \in Elems(s)
      /\ \A c : c \in Requested(t) <=> Request(c) \in Elems(t)
      /\ Requested(q) \subseteq Calls
  BY <1>1, RequestedAre
<1>5. ASSUME NEW c, Request(c) \in Elems(s), Request(c) \in Elems(t)
      PROVE  FALSE
  <2>1. PICK i \in 1..n : s[i] = Request(c)
    BY <1>1, <1>5, ElemsOf
  <2>2. PICK j \in 1..(Len(q) - n) : t[j] = Request(c)
    BY <1>1, <1>5, ElemsOf
  <2>3. i \in 1..Len(q) /\ n + j \in 1..Len(q) /\ i # n + j
    <3>1. \A k \in Nat : n <= k /\ j \in 1..(k - n) /\ i \in 1..n =>
             i \in 1..k /\ n + j \in 1..k /\ i # n + j
      BY <1>2
    <3>2. QED
      BY <1>2, <3>1
  <2>4. q[i] = Request(c) /\ q[n + j] = Request(c) /\ Request(c).type \in {"request"}
    BY <1>1, <2>1, <2>2, MessageKinds
  <2>5. QED
    BY <1>2, <2>3, <2>4 DEF Once
<1>6. QED
  BY <1>3, <1>4, <1>5 DEF s, t

LEMMA SentStep ==
    ASSUME IInv, NEW e \in Ends, state[e] \in Running,
           NEW n \in (IF written[e] THEN 1 ELSE 0)..Len(sendStreams[e]), WriteAndMark(e, n),
           UNCHANGED <<environment, requests, dispatching, reaped, socketOpen, executions,
                       torn, assertFailed>>,
           waiters' \in [Ends -> [Threads -> WaiterStates]],
           \/ state' = state /\ exception' = exception
           \/ /\ state' = [state EXCEPT ![e] = "Closed"]
              /\ exception' = [exception EXCEPT ![e] = Keep(@, "Lost")]
              /\ WriteMayFail(e)
    PROVE  IInv'
<1> DEFINE p == Peer(e)
           q == sendStreams[e]
           done == Requested(Prefix(q, n))
           cb == [type |-> "sent", calls |-> done \cap Async]
<1>0. p \in Ends /\ p # e
  BY PeerOfPeer
<1>1. /\ TypeOK /\ SendQueue(e) /\ SendQueue(p) /\ Counting(e) /\ Upcalls(e) /\ Routes(e)
      /\ \A d \in Calls : CallOK(d)
  BY <1>0 DEF IInv, EndOK
<1>2. /\ q \in Seq(Messages) /\ sendStreams \in [Ends -> Seq(Messages)]
      /\ callbacks \in [Ends -> SUBSET [type : {"sent", "reply"}, calls : SUBSET Calls]]
      /\ outcome \in [Calls -> {"idle", "pending", "ok", "retry", "fatal"}]
      /\ dispatchCount \in [Ends -> Nat] /\ written \in [Ends -> BOOLEAN]
  BY <1>1 DEF TypeOK
<1>3. /\ Shrinks(e) /\ Shrinks(p) /\ InTransit(p)' = InTransit(p)
      /\ socketOpen[p] => InTransit(e)' = InTransit(e)
      /\ channel' \in [Ends -> Seq(Messages)]
      /\ n \in 0..Len(q)
      /\ SendQueue(e)' /\ SendQueue(p)'
  BY <1>1, WriteEffect
<1>4. Suffix(q, n) \in Seq(Messages) /\ Once(q, {"request"})
  BY <1>1, <1>2, <1>3, Parts DEF SendQueue
<1>5. /\ done \subseteq Requested(q) /\ Requested(Suffix(q, n)) \subseteq Requested(q)
      /\ Requested(q) \subseteq Calls
      /\ \A c \in done : c \notin Requested(Suffix(q, n))
  BY <1>2, <1>3, <1>4, SentOnce
<1>6. /\ sendStreams' = [sendStreams EXCEPT ![e] = Suffix(q, n)]
      /\ outcome' = [c \in Calls |-> IF c \in done \ Twoway THEN "ok" ELSE outcome[c]]
      /\ \/ callbacks' = callbacks /\ dispatchCount' = dispatchCount
         \/ /\ cb.calls # {}
            /\ callbacks' = [callbacks EXCEPT ![e] = callbacks[e] \cup {cb}]
            /\ dispatchCount' = [dispatchCount EXCEPT ![e] = @ + 1]
      /\ written' = [written EXCEPT ![e] = FALSE]
  BY DEF WriteAndMark, Sent
<1>7. cb \in [type : {"sent", "reply"}, calls : SUBSET Calls] /\ cb.calls \subseteq done
      /\ cb.type # "reply"
  BY <1>5
<1>8. cb.calls # {} => cb \notin callbacks[e]
  BY <1>1, <1>5, <1>7 DEF Upcalls
<1> HIDE DEF done, cb, q
<1>9. /\ sendStreams' \in [Ends -> Seq(Messages)] /\ sendStreams'[e] = Suffix(q, n)
      /\ sendStreams'[p] = sendStreams[p]
      /\ written' \in [Ends -> BOOLEAN] /\ written'[p] = written[p]
      /\ outcome' \in [Calls -> {"idle", "pending", "ok", "retry", "fatal"}]
  BY <1>0, <1>2, <1>4, <1>6
<1>10. /\ callbacks' \in [Ends -> SUBSET [type : {"sent", "reply"}, calls : SUBSET Calls]]
       /\ callbacks'[p] = callbacks[p]
       /\ callbacks'[e] = callbacks[e] \/ callbacks'[e] = callbacks[e] \cup {cb}
  <2>1. callbacks[e] \cup {cb} \in SUBSET [type : {"sent", "reply"}, calls : SUBSET Calls]
    BY <1>2, <1>7
  <2>2. callbacks \in [Ends -> SUBSET [type : {"sent", "reply"}, calls : SUBSET Calls]]
    BY <1>2
  <2>3. \/ callbacks' = callbacks
        \/ callbacks' = [callbacks EXCEPT ![e] = callbacks[e] \cup {cb}]
    BY <1>6
  <2>4. QED
    BY <1>0, <2>1, <2>2, <2>3
<1>11. dispatchCount'[p] = dispatchCount[p]
  BY <1>0, <1>2, <1>6
<1>12. Writes(e)
  <2>1. \A c \in Calls :
         \/ outcome'[c] = outcome[c]
         \/ /\ outcome'[c] = "ok" /\ c \notin Twoway
            /\ c \in Requested(sendStreams[e]) /\ c \notin Requested(sendStreams'[e])
    BY <1>5, <1>6, <1>9 DEF q
  <2>2. /\ \A c \in Calls : c \in Requested(sendStreams'[e]) => c \in Requested(sendStreams[e])
        /\ Requested(sendStreams'[e]) \subseteq Calls
    BY <1>5, <1>9 DEF q
  <2>3. QED
    BY <1>3, <1>9, <1>10, <1>11, <2>1, <2>2 DEF Writes
<1>13. /\ state' \in [Ends -> States] /\ exception' \in [Ends -> Exceptions]
       /\ state[e] # "Finished" /\ state'[e] # "Finished"
       /\ Ordering(e)' /\ Ordering(p)'
       /\ EndState(e)' /\ Routes(e)' /\ EndOK(p)' /\ Counting(p)'
       /\ \A c \in Calls : CallOK(c)'
       /\ Unaccepted' /\ Graceful'
  BY <1>12, WritesStep
<1>14. Counting(e)' /\ dispatchCount' \in [Ends -> Nat]
  <2>1. CASE callbacks' = callbacks /\ dispatchCount' = dispatchCount
    BY <1>1, <1>2, <1>13, <2>1 DEF Counting
  <2>2. CASE /\ cb.calls # {}
             /\ callbacks' = [callbacks EXCEPT ![e] = callbacks[e] \cup {cb}]
             /\ dispatchCount' = [dispatchCount EXCEPT ![e] = @ + 1]
    <3>1. callbacks'[e] = callbacks[e] \cup {cb}
      BY <1>2, <2>2
    <3>2. QED
      BY <1>1, <1>8, <1>13, <2>2, <3>1, CountedUp
  <2>3. QED
    BY <1>6, <2>1, <2>2
<1>15. TypeOK'
  BY <1>1, <1>3, <1>9, <1>10, <1>13, <1>14 DEF TypeOK
<1>16. Upcalls(e)'
  <2>1. ASSUME NEW other \in callbacks[e]
        PROVE  /\ \A d \in other.calls : /\ Caller[d] = e /\ outcome'[d] # "idle"
                                         /\ d \notin Requested(sendStreams'[e])
               /\ other.type = "reply" =>
                    \E d \in Calls : /\ other.calls = {d} /\ d \notin requests[e]
                                     /\ outcome'[d] = "pending" /\ executions[d] = 1
    <3>1. \A d \in other.calls : d \in Calls /\ d \notin done /\ outcome'[d] = outcome[d]
      BY <1>1, <1>2, <1>5, <1>6 DEF Upcalls, q
    <3>2. \A d \in other.calls : /\ Caller[d] = e /\ outcome'[d] # "idle"
                                 /\ d \notin Requested(sendStreams'[e])
      BY <1>1, <1>5, <1>9, <3>1 DEF Upcalls, q
    <3>3. ASSUME other.type = "reply"
          PROVE  \E d \in Calls : /\ other.calls = {d} /\ d \notin requests[e]
                                  /\ outcome'[d] = "pending" /\ executions[d] = 1
      <4>1. PICK d \in Calls : /\ other.calls = {d} /\ d \notin requests[e]
                               /\ outcome[d] = "pending" /\ executions[d] = 1
        BY <1>1, <3>3 DEF Upcalls
      <4>2. outcome'[d] = outcome[d]
        BY <3>1, <4>1
      <4>3. QED
        BY <4>1, <4>2
    <3>4. QED
      BY <3>2, <3>3
  <2>2. \A d \in cb.calls : /\ Caller[d] = e /\ outcome'[d] # "idle"
                            /\ d \notin Requested(sendStreams'[e])
    <3>1. ASSUME NEW d \in cb.calls
          PROVE  /\ Caller[d] = e /\ outcome'[d] # "idle" /\ d \notin Requested(sendStreams'[e])
      <4>1. d \in Calls /\ d \in done /\ d \in Requested(sendStreams[e])
        BY <1>5, <1>7 DEF q
      <4>2. Caller[d] = e /\ outcome[d] = "pending"
        BY <1>1, <4>1 DEF Routes, CallOK
      <4>3. QED
        BY <1>5, <1>6, <1>9, <4>1, <4>2
    <3>2. QED
      BY <3>1
  <2>3. QED
    BY <1>7, <1>10, <2>1, <2>2 DEF Upcalls
<1>17. QED
  BY <1>3, <1>13, <1>14, <1>15, <1>16, Assemble DEF EndOK

LEMMA WriteStep ==
    ASSUME IInv, NEW e \in Ends, WriteReady(e) \/ WriteFailed(e)
    PROVE  IInv'
<1>1. TypeOK
  BY DEF IInv
<1>2. Len(sendStreams[e]) \in Nat /\ waiters \in [Ends -> [Threads -> WaiterStates]]
  BY <1>1 DEF TypeOK
<1>3. CASE WriteReady(e)
  <2>1. PICK n \in 1..Len(sendStreams[e]) : WriteAndMark(e, n)
    BY <1>3 DEF WriteReady
  <2>2. n \in (IF written[e] THEN 1 ELSE 0)..Len(sendStreams[e])
    BY <1>2
  <2>3. QED
    BY <1>2, <1>3, <2>1, <2>2, SentStep DEF WriteReady, NoAssertFails
<1>4. CASE WriteFailed(e)
  <2>1. PICK n \in (IF written[e] THEN 1 ELSE 0)..Len(sendStreams[e]) - 1 : WriteAndMark(e, n)
    BY <1>4 DEF WriteFailed
  <2>2. n \in (IF written[e] THEN 1 ELSE 0)..Len(sendStreams[e])
    BY <1>2
  <2>3. waiters' \in [Ends -> [Threads -> WaiterStates]]
    BY <1>1, <1>4, WaitersType DEF WriteFailed
  <2>4. QED
    BY <1>4, <2>1, <2>2, <2>3, SentStep DEF WriteFailed, NoAssertFails
<1>5. QED
  BY <1>3, <1>4

-----------------------------------------------------------------------------
(***************************************************************************)
(* finish()                                                                *)
(***************************************************************************)

LEMMA OnceApart ==
    ASSUME NEW s \in Seq(Messages), NEW t \in Seq(Messages), NEW types, Once(s \o t, types),
           NEW m, m \in Elems(s), m \in Elems(t), m.type \in types
    PROVE  FALSE
<1>1. PICK i \in 1..Len(s) : s[i] = m
  BY ElemsOf
<1>2. PICK j \in 1..Len(t) : t[j] = m
  BY ElemsOf
<1>3. Len(s) \in Nat /\ Len(t) \in Nat /\ DOMAIN (s \o t) = 1..(Len(s) + Len(t))
  BY ElemsOf
<1>4. (s \o t)[i] = m /\ (s \o t)[Len(s) + j] = m
  BY <1>1, <1>2
<1>5. \A a, b \in Nat : \A x \in 1..a, y \in 1..b :
        x \in 1..(a + b) /\ a + y \in 1..(a + b) /\ x # a + y
  OBVIOUS
<1>6. i \in DOMAIN (s \o t) /\ Len(s) + j \in DOMAIN (s \o t) /\ i # Len(s) + j
  BY <1>3, <1>5
<1>7. QED
  BY <1>4, <1>6 DEF Once

\* A call whose request is still queued was not executed and, unless the
\* request is the head that has been written, will not be.
LEMMA QueuedNotSent ==
    ASSUME IInv, NEW e \in Ends, NEW c \in Requested(sendStreams[e]),
           ~(written[e] /\ Request(c) = Head(sendStreams[e]))
    PROVE  executions[c] = 0 /\ Request(c) \notin Elems(channel[Peer(e)])
<1> DEFINE q == sendStreams[e]
           t == channel[Peer(e)]
<1>1. TypeOK /\ SendQueue(e) /\ SendQueue(Peer(e)) /\ Ordering(e) /\ Routes(e)
      /\ \A d \in Calls : CallOK(d)
  BY PeerOfPeer DEF IInv, EndOK
<1>2. /\ q \in Seq(Messages) /\ t \in Seq(Messages) /\ Unwritten(e) \in Seq(Messages)
      /\ InTransit(e) = t \o Unwritten(e)
  BY <1>1, TransitType
<1>3. Request(c) \in Elems(q) /\ c \in Calls /\ Request(c).type \in {"request", "reply"}
  BY <1>2, RequestedAre, MessageKinds
<1>4. q # <<>>
  BY <1>3 DEF Elems
<1>5. Request(c) \in Elems(Unwritten(e))
  BY <1>2, <1>3, <1>4, HeadAndTail DEF Unwritten
<1>6. Request(c) \in InT(e)
  BY <1>2, <1>5, ElemsJoined DEF InT
<1>7. executions[c] = 0
  BY <1>1, <1>3, <1>6 DEF Routes, CallOK
<1>8. ASSUME Request(c) \in Elems(t)
      PROVE  FALSE
  BY <1>1, <1>2, <1>3, <1>5, <1>8, OnceApart DEF Ordering, Orderly
<1>9. QED
  BY <1>7, <1>8

LEMMA FinishCallsStep ==
    ASSUME IInv, NEW e \in Ends, FinishCalls(e)
    PROVE  IInv'
<1> DEFINE p == Peer(e)
           q == sendStreams[e]
<1>0. p \in Ends /\ p # e /\ Peer(p) = e /\ Peer(p)' = e /\ Peer(e)' = p
      /\ (\A f \in Ends : f = e \/ f = p) /\ "A" \in Ends /\ "B" \in Ends
  BY PeerOfPeer DEF Peer, Ends
<1>1. /\ TypeOK /\ SendQueue(e) /\ SendQueue(p) /\ Ordering(e) /\ Ordering(p)
      /\ EndState(e) /\ Routes(e) /\ Upcalls(e) /\ Counting(e) /\ EndState(p) /\ Graceful
      /\ \A d \in Calls : CallOK(d) /\ Caller[d] \in Ends
  BY <1>0, CallsAssumption DEF IInv, EndOK
<1>2. /\ state[e] = "Closed"
      /\ outcome' = [c \in Calls |-> Finished(e, c)]
      /\ torn' = IF written[e] THEN torn \cup Requested(Prefix(q, 1)) ELSE torn
      /\ sendStreams' = [sendStreams EXCEPT ![e] = <<>>]
      /\ written' = [written EXCEPT ![e] = FALSE]
      /\ requests' = [requests EXCEPT ![e] = {}]
      /\ UNCHANGED <<state, exception, dispatchCount, dispatching, callbacks, waiters, reaped,
                     socketOpen, channel, executions, assertFailed, environment>>
  BY DEF FinishCalls, NoAssertFails
<1>3. /\ outcome \in [Calls -> {"idle", "pending", "ok", "retry", "fatal"}]
      /\ requests \in [Ends -> SUBSET Calls] /\ q \in Seq(Messages)
      /\ sendStreams \in [Ends -> Seq(Messages)] /\ written \in [Ends -> BOOLEAN]
      /\ exception \in [Ends -> Exceptions] /\ torn \subseteq Calls
  BY <1>1 DEF TypeOK
<1>4. /\ Shrinks(e) /\ InTransit(e)' = channel[p]
      /\ Shrinks(p) /\ InTransit(p)' = InTransit(p)
      /\ sendStreams' \in [Ends -> Seq(Messages)] /\ written' \in [Ends -> BOOLEAN]
      /\ SendQueue(e)' /\ SendQueue(p)'
  BY <1>1, <1>2, FinishCallsEffect
<1>5. /\ sendStreams'[e] = <<>> /\ Requested(sendStreams'[e]) = {} /\ requests'[e] = {}
      /\ sendStreams'[p] = sendStreams[p] /\ requests'[p] = requests[p]
      /\ written'[p] = written[p]
      /\ requests' \in [Ends -> SUBSET Calls]
  <2>1. Requested(<<>>) = {}
    BY DEF Requested, Elems
  <2>2. QED
    BY <1>0, <1>2, <1>3, <2>1
<1>6. Requested(q) \subseteq Calls /\ \A c \in Requested(q) : Caller[c] = e
  BY <1>1, <1>3, RequestedAre DEF Routes
<1>7. ASSUME written[e]
      PROVE  /\ q # <<>> /\ Requested(Prefix(q, 1)) \subseteq Calls
             /\ \A c : Request(c) = Head(q) => c \in Requested(Prefix(q, 1))
  <2>1. q # <<>> /\ Len(q) \in Nat \ {0} /\ q[1] = Head(q)
    BY <1>1, <1>3, <1>7, HeadAndTail DEF SendQueue
  <2>2. Prefix(q, 1) \in Seq(Messages) /\ Len(Prefix(q, 1)) = 1 /\ Prefix(q, 1)[1] = q[1]
    <3>1. 1 \in 0..Len(q)
      BY <2>1
    <3>2. QED
      <4>1. /\ Prefix(q, 1) \in Seq(Messages) /\ Len(Prefix(q, 1)) = 1
            /\ \A i \in 1..1 : Prefix(q, 1)[i] = q[i]
        BY <1>3, <3>1, MessageParts
      <4>2. QED
        BY <4>1
  <2>3. Head(q) \in Elems(Prefix(q, 1))
    BY <2>1, <2>2, ElemsOf
  <2>4. QED
    BY <2>1, <2>2, <2>3, RequestedAre
<1>8. torn' \subseteq Calls /\ torn \subseteq torn'
  BY <1>2, <1>3, <1>7
<1>9. ASSUME NEW c \in Calls
      PROVE  /\ outcome'[c] \in {"idle", "pending", "ok", "retry", "fatal"}
             /\ \/ c \in Requested(q) /\ outcome'[c] = "retry"
                \/ /\ c \in requests[e] /\ c \notin Requested(q)
                   /\ outcome'[c] = IF exception[e] = "CloseConnection" THEN "retry" ELSE "fatal"
                \/ /\ c \notin requests[e] /\ c \notin Requested(q)
                   /\ outcome'[c] = outcome[c]
  <2>1. outcome'[c] = Finished(e, c)
    BY <1>2
  <2>2. CASE c \in Requested(q)
    BY <2>1, <2>2 DEF Finished
  <2>3. CASE c \in requests[e] /\ c \notin Requested(q)
    BY <2>1, <2>3 DEF Finished, Retryable
  <2>4. CASE c \notin requests[e] /\ c \notin Requested(q)
    BY <1>3, <2>1, <2>4 DEF Finished
  <2>5. QED
    BY <2>2, <2>3, <2>4
<1>10. outcome' \in [Calls -> {"idle", "pending", "ok", "retry", "fatal"}]
  <2>1. outcome' = [c \in Calls |-> outcome'[c]]
    BY <1>2
  <2>2. QED
    BY <1>9, <2>1
<1> HIDE DEF q
<1>11. TypeOK'
  BY <1>1, <1>2, <1>4, <1>5, <1>8, <1>10 DEF TypeOK
<1>12. /\ Ordering(e)' /\ InT(e)' \subseteq InT(e) /\ (InTransit(e) = <<>> => InTransit(e)' = <<>>)
       /\ Ordering(p)' /\ InT(p)' = InT(p)
  <2>1. Executed(p)' = Executed(p) /\ (~socketOpen'[p] => requests'[p] = {})
    BY <1>1, <1>2, <1>5 DEF Executed, EndState
  <2>2. Executed(e)' = {}
    BY <1>5 DEF Executed
  <2>3. QED
    BY <1>0, <1>1, <1>4, <1>5, <2>1, <2>2, ShrinkingKeepsOrdering DEF InT
<1>13. Counting(e)'
  BY <1>1, <1>2 DEF Counting
<1>14. EndState(e)' /\ Routes(e)'
  BY <1>0, <1>1, <1>2, <1>5, <1>12 DEF EndState, Routes
<1>15. Upcalls(e)'
  <2>1. SUFFICES ASSUME NEW cb \in callbacks[e]
        PROVE  /\ \A d \in cb.calls : Caller[d] = e /\ outcome'[d] # "idle"
               /\ cb.type = "reply" =>
                    \E d \in Calls : /\ cb.calls = {d}
                                     /\ outcome'[d] = "pending" /\ executions[d] = 1
    BY <1>2, <1>5 DEF Upcalls
  <2>2. \A d \in cb.calls : d \in Calls /\ Caller[d] = e /\ outcome[d] # "idle"
                            /\ d \notin Requested(q)
    BY <1>1 DEF Upcalls, TypeOK, q
  <2>3. \A d \in cb.calls : Caller[d] = e /\ outcome'[d] # "idle"
    BY <1>9, <2>2
  <2>4. ASSUME cb.type = "reply"
        PROVE  \E d \in Calls : /\ cb.calls = {d}
                                /\ outcome'[d] = "pending" /\ executions[d] = 1
    <3>1. PICK d \in Calls : /\ cb.calls = {d} /\ d \notin requests[e]
                             /\ outcome[d] = "pending" /\ executions[d] = 1
      BY <1>1, <2>4 DEF Upcalls
    <3>2. outcome'[d] = outcome[d]
      BY <1>9, <2>2, <3>1
    <3>3. QED
      BY <3>1, <3>2
  <2>5. QED
    BY <2>3, <2>4
<1>16. \A d \in Calls : Caller[d] = p => outcome'[d] = outcome[d]
  <2>1. \A d \in Calls : Caller[d] = p => d \notin requests[e] /\ d \notin Requested(q)
    BY <1>0, <1>1, <1>6 DEF Routes
  <2>2. QED
    BY <1>9, <2>1
<1>17. EndOK(p)' /\ Counting(p)'
  BY <1>0, <1>2, <1>5, <1>12, <1>16, UntouchedEnd DEF Untouched, OnlyOwnCalls
<1>18. ASSUME NEW d \in Calls
       PROVE  CallOK(d)'
  <2>1. CASE Caller[d] = p
    <3>1. Keeps(d)
      BY <1>0, <1>2, <1>5, <1>8, <1>12, <1>16, <2>1 DEF Keeps, Ending
    <3>2. QED
      BY <1>1, <3>1, CallKept
  <2>2. CASE Caller[d] = e
    <3>1. outcome'[d] = "idle" => outcome[d] = "idle"
      BY <1>9
    <3>2. outcome[d] = "idle" => outcome'[d] = "idle" \/ Request(d) \notin InT(e)
      BY <1>1, <2>2 DEF CallOK
    <3>3. ASSUME outcome'[d] = "retry", d \notin torn'
          PROVE  executions[d] = 0 /\ (Request(d) \in InT(e)' => state[p] \in Stopping)
      <4>1. CASE d \in Requested(q)
        <5>1. ~(written[e] /\ Request(d) = Head(q))
          BY <1>2, <1>7, <3>3 DEF q
        <5>2. executions[d] = 0 /\ Request(d) \notin Elems(channel[p])
          BY <4>1, <5>1, QueuedNotSent DEF q
        <5>3. QED
          BY <1>4, <5>2 DEF InT
      <4>2. CASE d \in requests[e] /\ d \notin Requested(q)
        <5>1. exception[e] = "CloseConnection"
          BY <1>9, <3>3, <4>2
        <5>2. QED
          BY <1>1, <2>2, <4>2, <5>1 DEF CallOK
      <4>3. CASE outcome'[d] = outcome[d]
        BY <1>1, <1>8, <1>12, <2>2, <3>3, <4>3 DEF CallOK
      <4>4. QED
        BY <1>9, <4>1, <4>2, <4>3
    <3>4. state[e] \in Ending
      BY <1>2 DEF Ending
    <3>5. QED
      BY <1>0, <1>1, <1>2, <1>5, <1>12, <2>2, <3>1, <3>2, <3>3, <3>4 DEF CallOK
  <2>3. QED
    BY <1>0, <1>1, <2>1, <2>2
<1>19. Unaccepted' /\ Graceful'
  <2>1. \A f \in Ends : InTransit(f) = <<>> => InTransit(f)' = <<>>
    BY <1>0, <1>4, <1>12
  <2>2. \A d \in Calls : d \in requests'[Caller[d]] => d \in requests[Caller[d]]
    BY <1>0, <1>1, <1>5
  <2>3. ASSUME NEW d \in Calls, outcome'[d] = "fatal", outcome[d] # "fatal",
               environment = "graceful"
        PROVE  exception[Caller[d]] = "Destroyed" \/ Harmless(d)
    <3>1. d \in requests[e] /\ exception[e] # "CloseConnection"
      BY <1>9, <2>3
    <3>2. Caller[d] = e
      BY <1>1, <3>1 DEF Routes
    <3>3. exception[e] \notin {"none", "Idle", "Forced"}
      BY <1>1, <1>2, <2>3, <3>1 DEF EndState, Graceful, Unopened, Open
    <3>4. exception[e] = "Lost" => Harmless(d)
      BY <1>1, <2>3, <3>1, <3>2 DEF Graceful
    <3>5. QED
      BY <1>3, <3>1, <3>2, <3>3, <3>4 DEF Exceptions
  <2>4. QED
    BY <1>0, <1>2, <2>1, <2>2, <2>3, UnacceptedKept, GracefulKept
<1>20. QED
  BY <1>4, <1>11, <1>12, <1>13, <1>14, <1>15, <1>17, <1>18, <1>19, Assemble DEF EndOK

LEMMA FinishDoneStep ==
    ASSUME IInv, NEW e \in Ends, FinishDone(e)
    PROVE  IInv'
<1> DEFINE p == Peer(e)
<1>0. p \in Ends /\ p # e /\ Peer(p) = e /\ Peer(p)' = e /\ Peer(e)' = p
      /\ (\A f \in Ends : f = e \/ f = p) /\ "A" \in Ends /\ "B" \in Ends
  BY PeerOfPeer DEF Peer, Ends
<1>1. /\ TypeOK /\ SendQueue(e) /\ SendQueue(p) /\ Ordering(e) /\ Ordering(p)
      /\ EndState(e) /\ Routes(e) /\ Upcalls(e) /\ Counting(e) /\ EndState(p)
      /\ \A d \in Calls : CallOK(d) /\ Caller[d] \in Ends
  BY <1>0, CallsAssumption DEF IInv, EndOK
<1>2. /\ state[e] = "Closed" /\ sendStreams[e] = <<>> /\ requests[e] = {}
      /\ state' = [state EXCEPT ![e] = "Finished"]
      /\ socketOpen' = [socketOpen EXCEPT ![e] = FALSE]
      /\ reaped' = IF dispatchCount[e] = 0 THEN [reaped EXCEPT ![e] = @ + 1] ELSE reaped
      /\ NotifyAll(e, TRUE)
      /\ UNCHANGED <<exception, dispatchCount, sendStreams, requests, dispatching, callbacks,
                     outcome, executions, torn, environment, assertFailed, written>>
  BY DEF FinishDone, NoAssertFails, callVars
<1>3. /\ Shrinks(e) /\ Shrinks(p) /\ channel' \in [Ends -> Seq(Messages)]
      /\ SendQueue(e)' /\ SendQueue(p)'
  <2>1. PICK n \in 0..Len(channel[p]) :
           channel' = [channel EXCEPT ![e] = <<>>, ![p] = Prefix(@, n)]
    BY DEF FinishDone
  <2>2. QED
    BY <1>1, <1>2, <2>1, FinishDoneEffect
<1>4. /\ state \in [Ends -> States] /\ socketOpen \in [Ends -> BOOLEAN]
      /\ reaped \in [Ends -> Nat]
  BY <1>1 DEF TypeOK
<1>5. /\ state' \in [Ends -> States] /\ state'[e] = "Finished" /\ state'[p] = state[p]
      /\ socketOpen' \in [Ends -> BOOLEAN] /\ socketOpen'[e] = FALSE
      /\ socketOpen'[p] = socketOpen[p]
      /\ waiters' \in [Ends -> [Threads -> WaiterStates]]
  BY <1>0, <1>1, <1>2, <1>4, WaitersType DEF States
<1>6. /\ reaped' \in [Ends -> Nat] /\ reaped'[p] = reaped[p]
      /\ reaped'[e] = IF dispatchCount[e] = 0 THEN 1 ELSE 0
  <2>1. reaped[e] = 0
    BY <1>1, <1>2 DEF Counting
  <2>2. QED
    BY <1>0, <1>2, <1>4, <2>1
<1>7. TypeOK'
  BY <1>1, <1>2, <1>3, <1>5, <1>6 DEF TypeOK
<1>8. \A f \in Ends : /\ Ordering(f)' /\ InT(f)' \subseteq InT(f)
                      /\ InTransit(f) = <<>> => InTransit(f)' = <<>>
  <2>1. Executed(p)' = Executed(p) /\ Executed(e)' = Executed(e)
        /\ (~socketOpen'[p] => requests'[p] = {}) /\ requests'[e] = {}
    BY <1>1, <1>2, <1>5 DEF Executed, EndState
  <2>2. QED
    BY <1>0, <1>1, <1>3, <2>1, ShrinkingKeepsOrdering
<1>9. Counting(e)'
  BY <1>1, <1>2, <1>5, <1>6 DEF Counting
<1>10. EndOK(e)'
  <2>1. EndState(e)'
    BY <1>1, <1>2, <1>5, <1>8 DEF EndState, Unopened, Open, Stopping, Ending
  <2>2. Routes(e)' /\ Upcalls(e)'
    BY <1>0, <1>1, <1>2, <1>8 DEF Routes, Upcalls
  <2>3. QED
    BY <2>1, <2>2 DEF EndOK
<1>11. EndOK(p)' /\ Counting(p)'
  BY <1>0, <1>2, <1>5, <1>6, <1>8, UntouchedEnd DEF Untouched, OnlyOwnCalls
<1>12. ASSUME NEW d \in Calls
       PROVE  CallOK(d)'
  <2>1. state'[e] \in Ending /\ state'[e] \in Stopping
    BY <1>5 DEF Stopping, Ending
  <2>2. Caller[d] = e \/ Caller[d] = p
    BY <1>0, <1>1
  <2>3. Keeps(d)
    <3>1. CASE Caller[d] = e
      BY <1>0, <1>2, <1>5, <1>8, <2>1, <3>1 DEF Keeps
    <3>2. CASE Caller[d] = p
      BY <1>0, <1>2, <1>5, <1>8, <2>1, <3>2 DEF Keeps
    <3>3. QED
      BY <2>2, <3>1, <3>2
  <2>4. QED
    BY <1>1, <2>3, CallKept
<1>13. Unaccepted' /\ Graceful'
  <2>1. \A f \in Ends : /\ state'[f] = "NotValidated" <=> state[f] = "NotValidated"
                        /\ state'[f] \in Running => state[f] \in Running
                        /\ state'[f] \in Ending <=> state[f] \in Ending
    BY <1>0, <1>2, <1>5 DEF Running, Ending
  <2>2. QED
    BY <1>0, <1>2, <1>8, <2>1, UnacceptedKept, GracefulKept
<1>14. Ordering(e)' /\ Ordering(p)'
  BY <1>0, <1>8
<1>15. QED
  BY <1>3, <1>7, <1>9, <1>10, <1>11, <1>12, <1>13, <1>14, Assemble

-----------------------------------------------------------------------------
(***************************************************************************)
(* The invariant                                                           *)
(***************************************************************************)

LEMMA StutterStep ==
    ASSUME IInv, UNCHANGED vars
    PROVE  IInv'
<1>1. "A" \in Ends /\ TypeOK
  BY DEF Ends, IInv
<1>2. UNCHANGED <<environment, connection, dispatchCount, written, requests, dispatching,
                  callbacks, reaped, socketOpen, callVars>>
  BY DEF vars, connection, callVars
<1>3. waiters' \in [Ends -> [Threads -> WaiterStates]] /\ assertFailed' \in BOOLEAN
  BY <1>1 DEF vars, TypeOK
<1>4. QED
  BY <1>1, <1>2, <1>3, SameStateStep

LEMMA NextStep ==
    ASSUME IInv, [Next]_vars
    PROVE  IInv'
<1>1. CASE Accept
  BY <1>1, AcceptStep
<1>2. CASE Connect
  BY <1>2, ConnectStep
<1>3. ASSUME NEW c \in Calls, Invoke(c) \/ InvokeRefused(c)
      PROVE  IInv'
  BY <1>3, InvokeStep, InvokeRefusedStep
<1>4. ASSUME NEW e \in Ends, Activate(e) \/ Fault(e)
      PROVE  IInv'
  BY <1>4, ActivateStep, ClosedStep
<1>5. ASSUME NEW e \in Ends, IO(e)
      PROVE  IInv'
  <2>1. CASE WriteReady(e) \/ WriteFailed(e)
    BY <2>1, WriteStep
  <2>2. CASE ReceiveClose(e)
    BY <2>2, ReceiveCloseStep
  <2>3. CASE ReceiveRequest(e)
    BY <2>3, ReceiveRequestStep
  <2>4. CASE ReceiveReply(e)
    BY <2>4, ReceiveReplyStep
  <2>5. CASE EndOfStream(e)
    BY <2>5, ClosedStep
  <2>6. CASE FinishCalls(e)
    BY <2>6, FinishCallsStep
  <2>7. CASE FinishDone(e)
    BY <2>7, FinishDoneStep
  <2>8. QED
    BY <1>5, <2>1, <2>2, <2>3, <2>4, <2>5, <2>6, <2>7 DEF IO
<1>6. ASSUME NEW e \in Ends,
             WriteFailedThenRead(e) \/ WriteThenReadBlocks(e) \/ WriteThenReadFails(e)
      PROVE  IInv'
  BY <1>6, WriteFailedThenReadStep, WriteHeadStep
<1>7. ASSUME NEW e \in Ends, Upcall(e)
      PROVE  IInv'
  <2>1. ASSUME NEW c \in dispatching[e], DispatchDone(e, c) \/ DispatchFailed(e, c)
        PROVE  IInv'
    BY <2>1, DispatchDoneStep, DispatchFailedStep
  <2>2. ASSUME NEW cb \in callbacks[e], CallbackDone(e, cb)
        PROVE  IInv'
    BY <2>2, CallbackDoneStep
  <2>3. QED
    BY <1>7, <2>1, <2>2 DEF Upcall
<1>8. ASSUME NEW e \in Ends, Application(e)
      PROVE  IInv'
  <2>1. CASE Hold(e)
    BY <2>1, ActivateStep
  <2>2. CASE CloseGracefully(e)
    BY <2>2, CloseGracefullyStep
  <2>3. CASE CloseForcefully(e)
    BY <2>3, ClosedStep
  <2>4. CASE Destroy(e) \/ Monitor(e)
    BY <2>4, DestroyStep
  <2>5. CASE WaitUntilFinished(e)
    BY <2>5, WaitUntilFinishedStep
  <2>6. QED
    BY <1>8, <2>1, <2>2, <2>3, <2>4, <2>5 DEF Application
<1>9. CASE UNCHANGED vars
  BY <1>9, StutterStep
<1>10. QED
  BY <1>1, <1>2, <1>3, <1>4, <1>5, <1>6, <1>7, <1>8, <1>9 DEF Next

LEMMA InitStep ==
    ASSUME Init
    PROVE  IInv
<1>1. /\ "A" \in Ends /\ "B" \in Ends /\ \A c \in Calls : Caller[c] \in Ends
      /\ \A e \in Ends : Peer(e) \in Ends
  BY CallsAssumption, PeerOfPeer DEF Ends
<1>2. TypeOK
  <2>1. /\ environment \in Environments
        /\ state \in [Ends -> States] /\ exception \in [Ends -> Exceptions]
        /\ dispatchCount \in [Ends -> Nat] /\ reaped \in [Ends -> Nat]
        /\ written \in [Ends -> BOOLEAN] /\ socketOpen \in [Ends -> BOOLEAN]
        /\ assertFailed \in BOOLEAN
    BY DEF Init, States, Exceptions
  <2>2. sendStreams \in [Ends -> Seq(Messages)] /\ channel \in [Ends -> Seq(Messages)]
    <3>1. <<>> \in Seq(Messages)
      OBVIOUS
    <3>2. QED
      BY <3>1 DEF Init
  <2>3. requests \in [Ends -> SUBSET Calls] /\ dispatching \in [Ends -> SUBSET Calls]
        /\ callbacks \in [Ends -> SUBSET [type : {"sent", "reply"}, calls : SUBSET Calls]]
    BY DEF Init
  <2>4. waiters \in [Ends -> [Threads -> WaiterStates]]
    BY DEF Init, WaiterStates
  <2>5. /\ outcome \in [Calls -> {"idle", "pending", "ok", "retry", "fatal"}]
        /\ executions \in [Calls -> Nat] /\ torn \subseteq Calls
    BY DEF Init
  <2>6. QED
    BY <2>1, <2>2, <2>3, <2>4, <2>5 DEF TypeOK
<1>3. ASSUME NEW e \in Ends
      PROVE  /\ sendStreams[e] = <<>> /\ channel[e] = <<>> /\ ~written[e]
             /\ InTransit(e) = <<>> /\ InT(e) = {} /\ requests[e] = {}
             /\ Requested(sendStreams[e]) = {}
  <2>1. sendStreams[e] = <<>> /\ channel[e] = <<>> /\ ~written[e] /\ requests[e] = {}
        /\ channel[Peer(e)] = <<>>
    BY <1>1 DEF Init
  <2>2. InTransit(e) = <<>>
    BY <2>1 DEF InTransit, Unwritten
  <2>3. Elems(<<>>) = {}
    BY DEF Elems
  <2>4. QED
    BY <2>1, <2>2, <2>3 DEF InT, Requested
<1>4. ASSUME NEW e \in Ends
      PROVE  Counting(e)
  <2>1. dispatching[e] = {} /\ callbacks[e] = {} /\ dispatchCount[e] = 0 /\ reaped[e] = 0
        /\ state[e] # "Finished"
    BY DEF Init
  <2>2. QED
    BY <2>1, FS_EmptySet DEF Counting
<1>5. ASSUME NEW e \in Ends
      PROVE  SendQueue(e) /\ Ordering(e)
  <2>1. Once(<<>>, {"request"}) /\ Orderly(<<>>) /\ Answers(<<>>, Executed(Peer(e)))
    BY DEF Once, Orderly, Answers
  <2>2. QED
    BY <1>3, <2>1 DEF SendQueue, Ordering
<1>6. ASSUME NEW e \in Ends
      PROVE  EndOK(e)
  <2>1. /\ socketOpen[e] /\ state[e] = "NotValidated" /\ exception[e] = "none"
        /\ dispatching[e] = {} /\ callbacks[e] = {} /\ \A c \in Calls : executions[c] = 0
    BY DEF Init
  <2>2. EndState(e)
    BY <1>2, <1>3, <2>1 DEF EndState, Unopened, TypeOK
  <2>3. Routes(e) /\ Upcalls(e)
    BY <1>3, <2>1 DEF Routes, Upcalls
  <2>4. QED
    BY <2>2, <2>3 DEF EndOK
<1>7. ASSUME NEW c \in Calls
      PROVE  CallOK(c)
  <2>1. executions[c] = 0 /\ outcome[c] = "idle" /\ dispatching[Peer(Caller[c])] = {}
    BY <1>1 DEF Init
  <2>2. QED
    BY <1>1, <1>3, <2>1 DEF CallOK
<1>8. Unaccepted /\ Graceful
  <2>1. state["A"] = "NotValidated" /\ state["B"] = "NotValidated"
        /\ \A e \in Ends : exception[e] = "none"
    BY <1>1 DEF Init
  <2>2. \A c \in Calls : outcome[c] = "idle"
    BY DEF Init
  <2>3. QED
    BY <1>1, <1>3, <2>1, <2>2 DEF Unaccepted, Graceful, Running, Ending
<1>9. QED
  BY <1>2, <1>4, <1>5, <1>6, <1>7, <1>8 DEF IInv

\* The invariant holds in every state of every behaviour of the connection.
THEOREM Invariance == Spec => []IInv
<1>1. Init => IInv
  BY InitStep
<1>2. IInv /\ [Next]_vars => IInv'
  BY NextStep
<1>3. QED
  BY <1>1, <1>2, PTL DEF Spec

-----------------------------------------------------------------------------
(***************************************************************************)
(* The safety properties                                                   *)
(***************************************************************************)

\* The variables of ConnectionI keep the values they are meant to have; none
\* of the counters goes below zero.
THEOREM ConnectionTypeCorrect == Spec => []TypeOK
<1>1. IInv => TypeOK
  BY DEF IInv
<1>2. QED
  BY <1>1, Invariance, PTL

\* _dispatchCount is the number of the dispatches and callbacks that run, also
\* after the connection has closed.
THEOREM UpcallsAreCounted == Spec => []DispatchCounted
<1>1. IInv => DispatchCounted
  BY DEF IInv, Counting, DispatchCounted
<1>2. QED
  BY <1>1, Invariance, PTL

\* A connection is given to the reaper once, whether finish() or the end of the
\* last upcall comes last.
THEOREM FinishedIsReapedOnce == Spec => []ReapedOnce
<1>1. IInv => ReapedOnce
  BY DEF IInv, Counting, ReapedOnce
<1>2. QED
  BY <1>1, Invariance, PTL

\* After initiateShutdown() has queued the close message no request and no reply
\* follows, whatever dispatches and callbacks end later.
THEOREM NothingFollowsClose == Spec => []CloseIsLast
<1>1. IInv => CloseIsLast
  BY DEF IInv, Ordering, Orderly, CloseIsLast
<1>2. QED
  BY <1>1, Invariance, PTL

\* The close message that parseMessage() reads comes when none of the calls this
\* end still waits for was executed, from a peer that dispatches no more: each
\* may be sent again on another connection.
THEOREM CloseLetsCallsRepeat == Spec => []CloseGuaranteesRepeat
<1>1. ASSUME IInv, NEW e \in Ends, state[e] \in Reading, channel[e] # <<>>,
             Head(channel[e]) = Close
      PROVE  /\ state[Peer(e)] \notin {"NotValidated", "Holding", "Active"}
             /\ \A c \in requests[e] : executions[c] = 0
  <2> DEFINE p == Peer(e)
             t == InTransit(p)
  <2>1. p \in Ends /\ Peer(p) = e
    BY PeerOfPeer
  <2>2. TypeOK /\ SendQueue(p) /\ Ordering(p) /\ EndState(p)
    BY <1>1, <2>1 DEF IInv, EndOK
  <2>3. /\ channel[e] \in Seq(Messages) /\ Unwritten(p) \in Seq(Messages)
        /\ t \in Seq(Messages) /\ t = channel[e] \o Unwritten(p)
    BY <2>1, <2>2, TransitType
  <2>4. Len(channel[e]) \in Nat \ {0} /\ channel[e][1] = Close
    BY <1>1, <2>3, HeadAndTail
  <2>5. 1 \in DOMAIN t /\ t[1] = Close
    <3>1. Len(Unwritten(p)) \in Nat /\ DOMAIN t = 1..(Len(channel[e]) + Len(Unwritten(p)))
      BY <2>3, ElemsOf
    <3>2. \A a \in Nat \ {0}, b \in Nat : 1 \in 1..(a + b) /\ 1 \in 1..a
      OBVIOUS
    <3>3. 1 \in DOMAIN t /\ 1 \in 1..Len(channel[e])
      BY <2>4, <3>1, <3>2
    <3>4. t[1] = channel[e][1]
      BY <2>3, <3>3
    <3>5. QED
      BY <2>4, <3>3, <3>4
  <2>6. state[p] \in Stopping
    BY <2>2, <2>5 DEF EndState, InT, Elems
  <2>7. ASSUME NEW c \in requests[e], executions[c] # 0
        PROVE  FALSE
    <3>1. c \in Executed(Peer(p))
      BY <2>1, <2>7 DEF Executed
    <3>2. PICK j \in DOMAIN t : j < 1
      BY <2>2, <2>5, <3>1 DEF Ordering, Answers
    <3>3. j \in 1..Len(t)
      BY <2>3
    <3>4. QED
      BY <2>3, <3>2, <3>3
  <2>8. QED
    BY <2>6, <2>7 DEF Stopping, Ending
<1>2. ASSUME IInv
      PROVE  CloseGuaranteesRepeat
  BY <1>1, <1>2 DEF CloseGuaranteesRepeat
<1>3. QED
  BY <1>2, Invariance, PTL

\* parseMessage() finds the request of every reply: UnknownRequestIdException is
\* never thrown at a peer that runs this code.
THEOREM RepliesFindRequests == Spec => []RepliesExpected
<1>1. ASSUME IInv, NEW e \in Ends, state[e] \in Running, NEW i \in DOMAIN channel[e],
             channel[e][i].type = "reply"
      PROVE  channel[e][i].call \in requests[e]
  <2> DEFINE p == Peer(e)
             m == channel[e][i]
  <2>1. p \in Ends /\ Peer(p) = e
    BY PeerOfPeer
  <2>2. TypeOK /\ SendQueue(p) /\ Routes(p)
    BY <1>1, <2>1 DEF IInv, EndOK
  <2>3. /\ channel[e] \in Seq(Messages) /\ Unwritten(p) \in Seq(Messages)
        /\ InTransit(p) = channel[e] \o Unwritten(p)
    BY <2>1, <2>2, TransitType
  <2>4. m \in Messages /\ m \in Elems(channel[e])
    BY <2>3 DEF Elems
  <2>5. m.call \in Calls /\ m = Reply(m.call)
    BY <1>1, <2>4, MessageKinds
  <2>6. Reply(m.call) \in InT(p)
    BY <2>3, <2>4, <2>5, ElemsJoined DEF InT
  <2>7. Caller[m.call] = e
    BY <2>1, <2>2, <2>5, <2>6 DEF Routes
  <2>8. state[e] \notin Ending
    BY <1>1 DEF Running, Ending
  <2>9. QED
    BY <1>1, <2>5, <2>6, <2>7, <2>8 DEF IInv, CallOK
<1>2. ASSUME IInv
      PROVE  RepliesExpected
  BY <1>1, <1>2 DEF RepliesExpected
<1>3. QED
  BY <1>2, Invariance, PTL

\* Without faults and forced closure a call fails for good only at an end that
\* was destroyed, or unexecuted at a peer destroyed before its validation.
THEOREM GracefulClosureLosesNothing == Spec => []GracefulLosesNothing
<1>1. IInv => GracefulLosesNothing
  BY DEF IInv, Graceful, Harmless, GracefulLosesNothing
<1>2. QED
  BY <1>1, Invariance, PTL

-----------------------------------------------------------------------------
(***************************************************************************)
(* The connection implements the invocation                                *)
(***************************************************************************)

\* What one step may do to a call.
Moves(c) ==
    /\ outcome'[c] # outcome[c] =>
         /\ outcome[c] \in {"idle", "pending"} /\ outcome'[c] # "idle"
         /\ outcome'[c] = "ok" /\ c \in Twoway => executions[c] = 1
    /\ c \in torn => c \in torn'
    /\ c \in torn' => c \in torn \/ outcome[c] = "pending"
    /\ executions'[c] # executions[c] =>
         /\ executions[c] = 0 /\ executions'[c] = 1
         /\ outcome[c] # "idle" /\ outcome'[c] = outcome[c]
         /\ outcome[c] = "retry" => c \in torn

AllMove == \A c \in Calls : Moves(c)

LEMMA CallsUnchanged ==
    ASSUME UNCHANGED callVars
    PROVE  AllMove
BY DEF callVars, AllMove, Moves

LEMMA InvokeMoves ==
    ASSUME TypeOK, NEW c \in Calls, Invoke(c) \/ InvokeRefused(c)
    PROVE  AllMove
<1>1. /\ outcome[c] = "idle" /\ UNCHANGED <<executions, torn>>
      /\ \/ outcome' = [outcome EXCEPT ![c] = "retry"]
         \/ outcome' = [outcome EXCEPT ![c] = "pending"]
         \/ outcome' = [outcome EXCEPT ![c] = "ok"] /\ c \notin Twoway
  <2>1. CASE InvokeRefused(c)
    BY <2>1 DEF InvokeRefused
  <2>2. CASE Invoke(c)
    <3>1. outcome[c] = "idle" /\ UNCHANGED <<executions, torn>>
      BY <2>2 DEF Invoke
    <3>2. CASE state'[Caller[c]] = "Closed"
      BY <2>2, <3>1, <3>2 DEF Invoke
    <3>3. CASE state'[Caller[c]] # "Closed"
      <4>1. outcome' = [outcome EXCEPT ![c] =
                           IF c \in Twoway \/ sendStreams'[Caller[c]] # <<>>
                           THEN "pending" ELSE "ok"]
        BY <2>2, <3>3 DEF Invoke
      <4>2. CASE c \in Twoway \/ sendStreams'[Caller[c]] # <<>>
        BY <3>1, <4>1, <4>2
      <4>3. CASE ~(c \in Twoway \/ sendStreams'[Caller[c]] # <<>>)
        BY <3>1, <4>1, <4>3
      <4>4. QED
        BY <4>2, <4>3
    <3>4. QED
      BY <3>2, <3>3
  <2>3. QED
    BY <2>1, <2>2
<1>2. outcome \in [Calls -> {"idle", "pending", "ok", "retry", "fatal"}]
  BY DEF TypeOK
<1>3. SUFFICES ASSUME NEW d \in Calls
      PROVE  Moves(d)
  BY DEF AllMove
<1>4. CASE d = c
  BY <1>1, <1>2, <1>4 DEF Moves
<1>5. CASE d # c
  BY <1>1, <1>2, <1>5 DEF Moves
<1>6. QED
  BY <1>4, <1>5

LEMMA CallbackMoves ==
    ASSUME IInv, NEW e \in Ends, NEW cb \in callbacks[e], CallbackDone(e, cb)
    PROVE  AllMove
<1>1. /\ outcome' = [d \in Calls |-> IF cb.type = "reply" /\ d \in cb.calls
                                     THEN "ok" ELSE outcome[d]]
      /\ UNCHANGED <<executions, torn>>
  BY DEF CallbackDone
<1>2. Upcalls(e)
  BY DEF IInv, EndOK
<1>3. SUFFICES ASSUME NEW d \in Calls
      PROVE  Moves(d)
  BY DEF AllMove
<1>4. CASE cb.type = "reply" /\ d \in cb.calls
  <2>1. outcome[d] = "pending" /\ executions[d] = 1
    BY <1>2, <1>4 DEF Upcalls
  <2>2. outcome'[d] = "ok"
    BY <1>1, <1>4
  <2>3. QED
    BY <1>1, <2>1, <2>2 DEF Moves
<1>5. CASE ~(cb.type = "reply" /\ d \in cb.calls)
  <2>1. outcome'[d] = outcome[d]
    BY <1>1, <1>5
  <2>2. QED
    BY <1>1, <2>1 DEF Moves
<1>6. QED
  BY <1>4, <1>5

\* What is queued is pending.
LEMMA QueuedPending ==
    ASSUME IInv, NEW e \in Ends, NEW n \in 0..Len(sendStreams[e]),
           NEW c \in Requested(Prefix(sendStreams[e], n))
    PROVE  c \in Calls /\ c \in Requested(sendStreams[e]) /\ outcome[c] = "pending"
<1> DEFINE q == sendStreams[e]
<1>1. q \in Seq(Messages) /\ Routes(e)
  BY DEF IInv, TypeOK, EndOK
<1>2. /\ Prefix(q, n) \in Seq(Messages) /\ Len(Prefix(q, n)) = n
      /\ \A i \in 1..n : Prefix(q, n)[i] = q[i]
  BY <1>1, Parts
<1>3. c \in Calls /\ Request(c) \in Elems(Prefix(q, n))
  BY <1>2, RequestedAre
<1>4. PICK i \in 1..n : q[i] = Request(c)
  BY <1>2, <1>3, ElemsOf
<1>5. i \in 1..Len(q)
  BY <1>1, <1>4
<1>6. Request(c) \in Elems(q)
  BY <1>1, <1>4, <1>5, ElemsOf
<1>7. c \in Requested(q)
  BY <1>1, <1>3, <1>6, RequestedAre
<1>8. QED
  BY <1>1, <1>3, <1>7 DEF Routes, IInv, CallOK

LEMMA WriteMovesCalls ==
    ASSUME IInv, NEW e \in Ends, WriteReady(e) \/ WriteFailed(e)
    PROVE  AllMove
<1>1. UNCHANGED <<executions, torn>>
  BY DEF WriteReady, WriteFailed
<1>2. PICK n \in 0..Len(sendStreams[e]) : WriteAndMark(e, n)
  <2>1. sendStreams[e] \in Seq(Messages)
    BY DEF IInv, TypeOK
  <2>2. \A k \in Nat : 1..k \subseteq 0..k /\ 0..(k - 1) \subseteq 0..k /\ 1..(k - 1) \subseteq 0..k
    OBVIOUS
  <2>3. Len(sendStreams[e]) \in Nat
    BY <2>1
  <2>4. QED
    BY <2>2, <2>3 DEF WriteReady, WriteFailed
<1> DEFINE done == Requested(Prefix(sendStreams[e], n))
<1>3. outcome' = [d \in Calls |-> IF d \in done \ Twoway THEN "ok" ELSE outcome[d]]
  BY <1>2 DEF WriteAndMark, Sent
<1>4. \A d \in done : outcome[d] = "pending"
  BY QueuedPending
<1> HIDE DEF done
<1>5. SUFFICES ASSUME NEW d \in Calls
      PROVE  Moves(d)
  BY DEF AllMove
<1>6. CASE d \in done \ Twoway
  <2>1. outcome[d] = "pending" /\ outcome'[d] = "ok"
    BY <1>3, <1>4, <1>6
  <2>2. QED
    BY <1>1, <1>6, <2>1 DEF Moves
<1>7. CASE d \notin done \ Twoway
  <2>1. outcome'[d] = outcome[d]
    BY <1>3, <1>7
  <2>2. QED
    BY <1>1, <2>1 DEF Moves
<1>8. QED
  BY <1>6, <1>7

\* The call of the head of the channel, where its message is.
LEMMA HeadInTransit ==
    ASSUME IInv, NEW e \in Ends, channel[e] # <<>>
    PROVE  Head(channel[e]) \in Messages /\ Head(channel[e]) \in InT(Peer(e))
<1>1. Peer(e) \in Ends /\ Peer(Peer(e)) = e /\ TypeOK /\ SendQueue(Peer(e))
  BY PeerOfPeer DEF IInv
<1>2. /\ channel[e] \in Seq(Messages) /\ Unwritten(Peer(e)) \in Seq(Messages)
      /\ InTransit(Peer(e)) = channel[e] \o Unwritten(Peer(e))
  BY <1>1, TransitType
<1>3. Head(channel[e]) \in Messages /\ Head(channel[e]) \in Elems(channel[e])
  BY <1>2, HeadAndTail
<1>4. QED
  BY <1>2, <1>3, ElemsJoined DEF InT

LEMMA ExecuteMoves ==
    ASSUME IInv, NEW e \in Ends, ReceiveRequest(e)
    PROVE  AllMove
<1> DEFINE c == Head(channel[e]).call
<1>1. /\ state[e] \in Reading /\ channel[e] # <<>> /\ Head(channel[e]).type = "request"
      /\ UNCHANGED <<outcome, torn>>
      /\ \/ UNCHANGED executions
         \/ state[e] # "Closing" /\ executions' = [executions EXCEPT ![c] = @ + 1]
  BY DEF ReceiveRequest, Receive
<1>2. Head(channel[e]) \in Messages /\ Head(channel[e]) \in InT(Peer(e))
  BY <1>1, HeadInTransit
<1>3. c \in Calls /\ Head(channel[e]) = Request(c)
  BY <1>1, <1>2, MessageKinds
<1>4. Peer(e) \in Ends /\ Peer(Peer(e)) = e /\ Routes(Peer(e)) /\ CallOK(c)
      /\ executions \in [Calls -> Nat]
  BY <1>3, PeerOfPeer DEF IInv, EndOK, TypeOK
<1> HIDE DEF c
<1>5. Caller[c] = Peer(e) /\ executions[c] = 0 /\ outcome[c] # "idle"
  BY <1>2, <1>3, <1>4 DEF Routes, CallOK
<1>6. state[e] # "Closing" => (outcome[c] = "retry" => c \in torn)
  BY <1>1, <1>2, <1>3, <1>4, <1>5 DEF CallOK, Stopping, Ending, Reading
<1>7. SUFFICES ASSUME NEW d \in Calls
      PROVE  Moves(d)
  BY DEF AllMove
<1>8. CASE UNCHANGED executions
  BY <1>1, <1>8 DEF Moves
<1>9. CASE state[e] # "Closing" /\ executions' = [executions EXCEPT ![c] = @ + 1]
  <2>1. executions' = [executions EXCEPT ![c] = 1]
    BY <1>4, <1>5, <1>9
  <2>2. CASE d = c
    <3>1. executions'[c] = 1
      BY <1>3, <1>4, <2>1
    <3>2. QED
      BY <1>1, <1>5, <1>6, <1>9, <2>2, <3>1 DEF Moves
  <2>3. CASE d # c
    <3>1. executions'[d] = executions[d]
      BY <1>4, <2>1, <2>3
    <3>2. QED
      BY <1>1, <3>1 DEF Moves
  <2>4. QED
    BY <2>2, <2>3
<1>10. QED
  BY <1>1, <1>8, <1>9

LEMMA ReplyMoves ==
    ASSUME IInv, NEW e \in Ends, ReceiveReply(e)
    PROVE  AllMove
<1> DEFINE c == Head(channel[e]).call
<1>1. /\ state[e] \in Reading /\ channel[e] # <<>> /\ Head(channel[e]).type = "reply"
      /\ UNCHANGED <<executions, torn>>
      /\ UNCHANGED outcome \/ outcome' = [outcome EXCEPT ![c] = "ok"]
  BY DEF ReceiveReply, Receive
<1>2. Head(channel[e]) \in Messages /\ Head(channel[e]) \in InT(Peer(e))
  BY <1>1, HeadInTransit
<1>3. c \in Calls /\ Head(channel[e]) = Reply(c)
  BY <1>1, <1>2, MessageKinds
<1>4. Peer(e) \in Ends /\ Peer(Peer(e)) = e /\ Routes(Peer(e)) /\ CallOK(c)
      /\ outcome \in [Calls -> {"idle", "pending", "ok", "retry", "fatal"}]
  BY <1>3, PeerOfPeer DEF IInv, EndOK, TypeOK
<1> HIDE DEF c
<1>5. Caller[c] = e
  BY <1>2, <1>3, <1>4 DEF Routes
<1>6. executions[c] = 1 /\ outcome[c] = "pending"
  BY <1>1, <1>2, <1>3, <1>4, <1>5 DEF CallOK, Reading, Ending
<1>7. SUFFICES ASSUME NEW d \in Calls
      PROVE  Moves(d)
  BY DEF AllMove
<1>8. CASE d = c
  BY <1>1, <1>4, <1>6, <1>8 DEF Moves
<1>9. CASE d # c
  BY <1>1, <1>4, <1>9 DEF Moves
<1>10. QED
  BY <1>8, <1>9

LEMMA FinishMoves ==
    ASSUME IInv, NEW e \in Ends, FinishCalls(e)
    PROVE  AllMove
<1> DEFINE q == sendStreams[e]
<1>1. /\ outcome' = [d \in Calls |-> Finished(e, d)]
      /\ torn' = IF written[e] THEN torn \cup Requested(Prefix(q, 1)) ELSE torn
      /\ UNCHANGED executions
  BY DEF FinishCalls
<1>2. Routes(e) /\ TypeOK /\ SendQueue(e) /\ q \in Seq(Messages)
  BY DEF IInv, EndOK, TypeOK
<1>3. ASSUME NEW d \in Calls, d \in requests[e] \/ d \in Requested(q)
      PROVE  outcome[d] = "pending"
  BY <1>2, <1>3 DEF Routes, IInv, CallOK
<1>4. ASSUME NEW d, d \in torn'
      PROVE  d \in torn \/ outcome[d] = "pending"
  <2>1. CASE written[e]
    <3>1. Len(q) \in Nat \ {0}
      BY <1>2, <2>1, HeadAndTail DEF SendQueue
    <3>2. 1 \in 0..Len(q)
      BY <3>1
    <3>3. QED
      BY <1>1, <1>4, <2>1, <3>2, QueuedPending
  <2>2. CASE ~written[e]
    BY <1>1, <1>4, <2>2
  <2>3. QED
    BY <2>1, <2>2
<1>5. \A d \in torn : d \in torn'
  BY <1>1
<1>6. ASSUME NEW d \in Calls
      PROVE  \/ outcome'[d] = outcome[d]
             \/ outcome[d] = "pending" /\ outcome'[d] \in {"retry", "fatal"}
  <2>1. outcome'[d] = Finished(e, d)
    BY <1>1
  <2>2. CASE d \in Requested(q)
    BY <1>3, <2>1, <2>2 DEF Finished
  <2>3. CASE d \in requests[e] /\ d \notin Requested(q)
    BY <1>3, <2>1, <2>3 DEF Finished
  <2>4. CASE d \notin requests[e] /\ d \notin Requested(q)
    BY <2>1, <2>4 DEF Finished
  <2>5. QED
    BY <2>2, <2>3, <2>4
<1>7. SUFFICES ASSUME NEW d \in Calls
      PROVE  Moves(d)
  BY DEF AllMove
<1>8. QED
  BY <1>1, <1>4, <1>5, <1>6 DEF Moves

LEMMA NextMoves ==
    ASSUME IInv, [Next]_vars
    PROVE  AllMove
<1>1. CASE Accept \/ Connect
  BY <1>1, CallsUnchanged DEF Accept, Connect
<1>2. ASSUME NEW c \in Calls, Invoke(c) \/ InvokeRefused(c)
      PROVE  AllMove
  BY <1>2, InvokeMoves DEF IInv
<1>3. ASSUME NEW e \in Ends, Activate(e) \/ Fault(e)
      PROVE  AllMove
  BY <1>3, CallsUnchanged DEF Activate, Fault
<1>4. ASSUME NEW e \in Ends, IO(e)
      PROVE  AllMove
  <2>1. CASE WriteReady(e) \/ WriteFailed(e)
    BY <2>1, WriteMovesCalls
  <2>2. CASE ReceiveClose(e) \/ EndOfStream(e) \/ FinishDone(e)
    BY <2>2, CallsUnchanged DEF ReceiveClose, EndOfStream, FinishDone
  <2>3. CASE ReceiveRequest(e)
    BY <2>3, ExecuteMoves
  <2>4. CASE ReceiveReply(e)
    BY <2>4, ReplyMoves
  <2>5. CASE FinishCalls(e)
    BY <2>5, FinishMoves
  <2>6. QED
    BY <1>4, <2>1, <2>2, <2>3, <2>4, <2>5 DEF IO
<1>5. ASSUME NEW e \in Ends,
             WriteFailedThenRead(e) \/ WriteThenReadBlocks(e) \/ WriteThenReadFails(e)
      PROVE  AllMove
  BY <1>5, CallsUnchanged DEF WriteFailedThenRead, WriteThenReadBlocks, WriteThenReadFails
<1>6. ASSUME NEW e \in Ends, Upcall(e)
      PROVE  AllMove
  <2>1. ASSUME NEW c \in dispatching[e], DispatchDone(e, c) \/ DispatchFailed(e, c)
        PROVE  AllMove
    BY <2>1, CallsUnchanged DEF DispatchDone, DispatchFailed
  <2>2. ASSUME NEW cb \in callbacks[e], CallbackDone(e, cb)
        PROVE  AllMove
    BY <2>2, CallbackMoves
  <2>3. QED
    BY <1>6, <2>1, <2>2 DEF Upcall
<1>7. ASSUME NEW e \in Ends, Application(e)
      PROVE  AllMove
  BY <1>7, CallsUnchanged DEF Application, Hold, CloseGracefully, CloseForcefully, Destroy,
                              Monitor, WaitUntilFinished
<1>8. CASE UNCHANGED vars
  BY <1>8, CallsUnchanged DEF vars
<1>9. QED
  BY <1>1, <1>2, <1>3, <1>4, <1>5, <1>6, <1>7, <1>8 DEF Next

\* The outcome of each call as the invocation sees it.
Told == [c \in Calls |-> IF c \in torn /\ outcome[c] = "retry" THEN "fatal" ELSE outcome[c]]

LEMMA MapStep ==
    ASSUME IInv, IInv', AllMove
    PROVE  Repaired!Next
<1>1. /\ outcome \in [Calls -> {"idle", "pending", "ok", "retry", "fatal"}]
      /\ outcome' \in [Calls -> {"idle", "pending", "ok", "retry", "fatal"}]
      /\ executions' \in [Calls -> Nat]
  BY DEF IInv, TypeOK
<1>2. Told' \in [Calls -> Repaired!Outcomes]
  BY <1>1 DEF Told, Repaired!Outcomes
<1>3. \A c \in Calls :
        /\ Told[c] = IF c \in torn /\ outcome[c] = "retry" THEN "fatal" ELSE outcome[c]
        /\ Told'[c] = IF c \in torn' /\ outcome'[c] = "retry" THEN "fatal" ELSE outcome'[c]
  BY DEF Told
<1>4. ASSUME NEW c \in Calls, Told'[c] # Told[c]
      PROVE  /\ Told[c] \notin {"ok", "retry", "fatal"}
             /\ Told'[c] \in {"ok", "retry", "fatal"} \cup {"pending"}
             /\ Told'[c] = "ok" /\ c \in Twoway => executions[c] = 1
             /\ Told'[c] = "retry" => executions'[c] = 0
  <2>1. Moves(c) /\ CallOK(c)'
    BY DEF AllMove, IInv
  <2>2. outcome'[c] # outcome[c]
    BY <1>3, <1>4, <2>1 DEF Moves
  <2>3. Told'[c] = "retry" => executions'[c] = 0
    BY <1>3, <2>1 DEF CallOK
  <2>4. QED
    BY <1>1, <1>3, <2>1, <2>2, <2>3 DEF Moves
<1>5. ASSUME NEW c \in Calls, executions'[c] # executions[c]
      PROVE  /\ executions[c] = 0 /\ executions'[c] = 1
             /\ Told[c] \notin {"idle", "retry"}
  <2>1. Moves(c)
    BY DEF AllMove
  <2>2. QED
    BY <1>3, <1>5, <2>1 DEF Moves
<1>6. QED
  BY <1>1, <1>2, <1>4, <1>5
     DEF Repaired!Next, Repaired!CallerStep, Repaired!ExecuteStep, Repaired!Ended, Told

\* At-most-once: but for the requests that were written and that finish() reports
\* as not sent, every step of the connection is a step of the abstract invocation
\* or leaves it alone, whatever closes, fails or is destroyed at either end.
THEOREM ConnectionImplementsInvocation == Spec => AtMostOnceUnlessTorn
<1>1. Init => Repaired!Init
  BY DEF Init, Repaired!Init
<1>2. IInv /\ IInv' /\ [Next]_vars => [Repaired!Next]_<<Told, executions>>
  BY NextMoves, MapStep
<1>3. QED
  BY <1>1, <1>2, Invariance, PTL DEF Spec, AtMostOnceUnlessTorn, Repaired!Spec, Told
=============================================================================
