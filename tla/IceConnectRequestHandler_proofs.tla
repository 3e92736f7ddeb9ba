------------------- MODULE IceConnectRequestHandler_proofs -------------------
(***************************************************************************)
(* Proofs about IceConnectRequestHandler, for all sets of callers, of      *)
(* handlers, of connections and of scripts: the three safety properties    *)
(* that TLC checks on the instances of MCIceConnectRequestHandler.         *)
(***************************************************************************)
EXTENDS IceConnectRequestHandler, FiniteSetTheorems, TLAPS

CallerPlaces == {"idle", "connect", "invoke", "marshal", "direct", "failed"}
AnswerPlaces == {"establish", "router", "flush", "send", "update", "finish", "done"}

PlacesOK ==
    /\ \A h \in Handlers : at[h] \in AnswerPlaces
    /\ \A c \in Callers : /\ at[c] \in CallerPlaces
                          /\ at[c] # "idle" => call[c] \in 1..Len(script[c])
                          /\ call[c] >= 1

\* A request that has been made was made through a delegate.
ViaOK ==
    /\ \A c \in Callers : at[c] # "idle" => via[Current(c)] \in Delegates
    /\ \A r \in Requests : r[2] < call[r[1]] => via[r] \in Delegates

\* The flags of a handler follow the thread that brings its answer.
FlagsOK ==
    \A h \in Handlers :
        /\ at[h] \in {"establish", "router", "flush"}
              => ~flushing[h] /\ ~initialized[h] /\ ~exception[h]
        /\ at[h] \in {"send", "update", "finish"} => flushing[h] /\ ~initialized[h]
        /\ at[h] = "send" => ~exception[h]
        /\ at[h] = "done" => initialized[h] \/ exception[h]
        /\ initialized[h] => ~exception[h]
        /\ at[h] \in {"router", "flush", "send", "update", "finish"} \/ initialized[h]
              => connection[h] \in Connections

\* The queue of h has been sent and the proxy has been given its new handler.
Sent(h) == initialized[h] \/ (at[h] = "finish" /\ ~exception[h])

\* h will send no more requests of its queue, or the proxy has forgotten it.
Gone(h) == h \in dropped \/ exception[h]

DelegateOK ==
    /\ \A c \in Callers : at[c] = "connect" => delegate = None
    /\ \A c, d \in Callers : at[c] = "connect" /\ at[d] = "connect" => c = d
    /\ \A c \in Callers : at[c] \in {"invoke", "marshal"} => updateRequestHandler[Handler(c)]
    /\ \A h \in Handlers :
          /\ delegate = <<h, "connect">> => updateRequestHandler[h] /\ ~Sent(h)
          /\ delegate = <<h, "connection">> => Sent(h)
          /\ updateRequestHandler[h] => Sent(h) \/ Gone(h) \/ delegate = <<h, "connect">>
          /\ requests[h] # <<>> => updateRequestHandler[h]

QueueSent ==
    /\ \A h \in Handlers : Sent(h) \/ (at[h] = "update" /\ ~exception[h]) => requests[h] = <<>>
    /\ \A c \in Callers : at[c] = "direct" => Sent(Handler(c))

\* The requests of a caller are in order in each queue, and after those on the wire and
\* in the queues of other handlers unless their handler is gone; a caller with a request
\* in a queue goes on with that handler, unless it is gone.
QueueInOrder ==
    /\ \A h \in Handlers : \A i, j \in 1..Len(requests[h]) :
          i < j /\ requests[h][i][1] = requests[h][j][1]
          => requests[h][i][2] < requests[h][j][2]
    /\ \A i, j \in 1..Len(wire) :
          i < j /\ wire[i][1] = wire[j][1]
          => wire[i][2] < wire[j][2] \/ HandlerOf(wire[j]) \in dropped
    /\ \A h \in Handlers : \A i \in 1..Len(wire), j \in 1..Len(requests[h]) :
          wire[i][1] = requests[h][j][1] => wire[i][2] < requests[h][j][2] \/ Gone(h)
    /\ \A g, h \in Handlers : \A i \in 1..Len(requests[g]), j \in 1..Len(requests[h]) :
          g # h /\ requests[g][i][1] = requests[h][j][1]
          => requests[g][i][2] < requests[h][j][2] \/ Gone(h)
    /\ \A c \in Callers, h \in Handlers : \A j \in 1..Len(requests[h]) :
          at[c] # "idle" /\ requests[h][j][1] = c => Handler(c) = h \/ Gone(h)

\* A request in a queue or on the wire has been made, through the handler with the queue.
Made ==
    /\ \A h \in Handlers : \A j \in 1..Len(requests[h]) :
          /\ requests[h][j][2] < call[requests[h][j][1]]
          /\ HandlerOf(requests[h][j]) = h
    /\ \A i \in 1..Len(wire) : wire[i][2] < call[wire[i][1]]

\* The counting part of Conserved.
Balanced ==
    \A r \in Requests :
        IF r[2] < call[r[1]]
        THEN Occurrences(requests[HandlerOf(r)], r) + Occurrences(wire, r) + failures[r] = 1
        ELSE Occurrences(wire, r) + failures[r] = 0

History == Balanced /\ Made /\ QueueInOrder
Control == PlacesOK /\ ViaOK /\ FlagsOK /\ DelegateOK /\ QueueSent
IInv    == TypeOK /\ Control /\ History

-----------------------------------------------------------------------------
(***************************************************************************)
(* Lemmas about the number of occurrences of a request in a sequence       *)
(***************************************************************************)

Positions(s, r) == {i \in 1..Len(s) : s[i] = r}

\* The positions of a request in a sequence are finitely many.
LEMMA PositionsCounted ==
    ASSUME NEW s \in Seq(Requests), NEW r
    PROVE  /\ IsFiniteSet(Positions(s, r))
           /\ Cardinality(Positions(s, r)) \in Nat
           /\ Occurrences(s, r) = Cardinality(Positions(s, r))
<1>1. Len(s) \in Nat /\ DOMAIN s = 1..Len(s)
  OBVIOUS
<1>2. IsFiniteSet(1..Len(s))
  BY <1>1, FS_Interval
<1>3. Positions(s, r) \subseteq 1..Len(s)
  BY DEF Positions
<1>4. IsFiniteSet(Positions(s, r))
  BY <1>2, <1>3, FS_Subset
<1>5. {i \in DOMAIN s : s[i] = r} = Positions(s, r)
  BY <1>1 DEF Positions
<1>6. Occurrences(s, r) = Cardinality(Positions(s, r))
  BY <1>5 DEF Occurrences
<1>7. QED
  BY <1>4, <1>6, FS_CardinalityType

\* A request occurs 0 times in a sequence that does not hold it.
LEMMA OccurrencesType ==
    ASSUME NEW s \in Seq(Requests), NEW r
    PROVE  /\ Occurrences(s, r) \in Nat
           /\ Occurrences(s, r) = 0 <=> \A i \in 1..Len(s) : s[i] # r
<1>1. Cardinality(Positions(s, r)) = 0 <=> Positions(s, r) = {}
  BY PositionsCounted, FS_EmptySet
<1>2. Positions(s, r) = {} <=> \A i \in 1..Len(s) : s[i] # r
  BY DEF Positions
<1>3. QED
  BY <1>1, <1>2, PositionsCounted

\* Nothing occurs in the empty sequence.
LEMMA OccurrencesEmpty == \A r : Occurrences(<<>>, r) = 0
<1> TAKE r
<1>1. <<>> \in Seq(Requests) /\ Len(<<>>) = 0
  OBVIOUS
<1>2. Occurrences(<<>>, r) = 0 <=> \A i \in 1..Len(<<>>) : <<>>[i] # r
  BY <1>1, OccurrencesType
<1>3. QED
  BY <1>1, <1>2

\* A request that is appended occurs once more.
LEMMA OccurrencesAppend ==
    ASSUME NEW s \in Seq(Requests), NEW q \in Requests, NEW r
    PROVE  Occurrences(Append(s, q), r) = Occurrences(s, r) + IF q = r THEN 1 ELSE 0
<1> DEFINE t == Append(s, q)
           n == Len(s) + 1
<1>1. Len(s) \in Nat /\ Len(t) = n /\ t[n] = q /\ \A i \in 1..Len(s) : t[i] = s[i]
  OBVIOUS
<1>2. t \in Seq(Requests)
  OBVIOUS
<1> HIDE DEF t
<1>3. CASE q = r
  <2>1. Positions(t, r) = Positions(s, r) \cup {n}
    BY <1>1, <1>3 DEF Positions
  <2>2. n \notin Positions(s, r)
    BY <1>1 DEF Positions
  <2>3. Cardinality(Positions(t, r)) = Cardinality(Positions(s, r)) + 1
    BY <2>1, <2>2, PositionsCounted, FS_AddElement
  <2>4. QED
    BY <1>2, <1>3, <2>3, PositionsCounted DEF t
<1>4. CASE q # r
  <2>1. Positions(t, r) = Positions(s, r)
    BY <1>1, <1>4 DEF Positions
  <2>2. Occurrences(t, r) = Occurrences(s, r) /\ Occurrences(s, r) \in Nat
    BY <1>2, <2>1, PositionsCounted
  <2>3. QED
    BY <1>4, <2>2 DEF t
<1>5. QED
  BY <1>3, <1>4

\* The first request occurs once less in the tail.
LEMMA OccurrencesTail ==
    ASSUME NEW s \in Seq(Requests), s # <<>>, NEW r
    PROVE  Occurrences(Tail(s), r) = Occurrences(s, r) - IF Head(s) = r THEN 1 ELSE 0
<1> DEFINE t == Tail(s)
           Q == Positions(t, r)
           U == Positions(s, r) \ {1}
           g == [i \in Q |-> i + 1]
<1>1. Len(s) \in Nat \ {0} /\ Len(t) = Len(s) - 1 /\ \A i \in 1..Len(t) : t[i] = s[i + 1]
  OBVIOUS
<1>2. Head(s) = s[1] /\ t \in Seq(Requests)
  OBVIOUS
<1> HIDE DEF t
<1>3. g \in Bijection(Q, U)
  <2>1. g \in [Q -> U]
    BY <1>1 DEF Positions
  <2>2. \A i, j \in Q : g[i] = g[j] => i = j
    BY <1>1 DEF Positions
  <2>3. \A u \in U : \E i \in Q : g[i] = u
    <3> TAKE u \in U
    <3>1. u - 1 \in Q
      BY <1>1 DEF Positions
    <3>2. (u - 1) + 1 = u
      BY <1>1 DEF Positions
    <3>3. g[u - 1] = u
      BY <3>1, <3>2
    <3> HIDE DEF g, Q
    <3>4. QED
      BY <3>1, <3>3
  <2> HIDE DEF g, U, Q
  <2>4. QED
    BY <2>1, <2>2, <2>3 DEF Bijection, Injection, IsInjective, Surjection
<1>4. IsFiniteSet(Q) /\ Cardinality(Q) \in Nat /\ Occurrences(t, r) = Cardinality(Q)
  BY <1>2, PositionsCounted
<1>5. IsFiniteSet(U) /\ Cardinality(U) = Cardinality(Q)
  <2> HIDE DEF g, U, Q
  <2>1. QED
    BY <1>3, <1>4, FS_Bijection DEF ExistsBijection
<1>6. Cardinality(U) = IF 1 \in Positions(s, r) THEN Cardinality(Positions(s, r)) - 1
                                                ELSE Cardinality(Positions(s, r))
  BY PositionsCounted, FS_RemoveElement
<1>7. 1 \in Positions(s, r) <=> Head(s) = r
  BY <1>1, <1>2 DEF Positions
<1> HIDE DEF Q, U
<1>8. QED
  BY <1>4, <1>5, <1>6, <1>7, PositionsCounted DEF t

-----------------------------------------------------------------------------
(***************************************************************************)
(* What the variables hold                                                 *)
(***************************************************************************)

\* A request is a caller with the number of a call.
LEMMA RequestParts ==
    ASSUME NEW r \in Requests
    PROVE  r[1] \in Callers /\ r[2] \in 1..MaxCalls /\ r[2] \in Nat /\ r = <<r[1], r[2]>>
BY ScriptsAssumption DEF Requests

\* A delegate has one of the handlers, and is not None.
LEMMA DelegateParts ==
    ASSUME NEW d \in Delegates
    PROVE  /\ d[1] \in Handlers /\ d[2] \in {"connect", "connection"} /\ d = <<d[1], d[2]>>
           /\ d # None
BY CallersAssumption DEF Delegates

\* The delegates of a handler.
LEMMA DelegateOf ==
    ASSUME NEW h \in Handlers
    PROVE  /\ <<h, "connect">> \in Delegates /\ <<h, "connection">> \in Delegates
           /\ <<h, "connect">> # None /\ <<h, "connection">> # None
BY CallersAssumption DEF Delegates

\* The current call of a caller is a request, and the next one of that caller.
LEMMA CurrentRequest ==
    ASSUME TypeOK, PlacesOK, NEW c \in Callers, call[c] \in 1..Len(script[c])
    PROVE  /\ Current(c) \in Requests /\ Current(c)[1] = c /\ Current(c)[2] = call[c]
           /\ call[c] \in Nat
<1>1. script \in Scripts
  BY DEF TypeOK
<1>2. /\ script[c] \in Seq({"async", "sync", "batch"})
      /\ Len(script[c]) <= MaxCalls /\ MaxCalls \in Nat
  BY <1>1, ScriptsAssumption
<1>3. call[c] \in 1..MaxCalls
  BY <1>1, <1>2
<1>4. QED
  BY <1>3, <1>2 DEF Requests, Current

\* A caller inside a call has a request and a handler.
LEMMA InCall ==
    ASSUME TypeOK, PlacesOK, ViaOK, NEW c \in Callers, at[c] # "idle"
    PROVE  /\ Current(c) \in Requests /\ Current(c)[1] = c /\ Current(c)[2] = call[c]
           /\ call[c] \in Nat /\ via[Current(c)] \in Delegates /\ Handler(c) \in Handlers
           /\ HandlerOf(Current(c)) = Handler(c)
<1>1. call[c] \in 1..Len(script[c])
  BY DEF PlacesOK
<1>2. via[Current(c)] \in Delegates
  BY DEF ViaOK
<1>3. QED
  BY <1>1, <1>2, CurrentRequest, DelegateParts DEF Handler, HandlerOf

\* When the call of c returns, its request and no other counts as returned.
LEMMA Returned ==
    ASSUME TypeOK, NEW c \in Callers, Return(c), NEW r \in Requests
    PROVE  /\ r[2] < call'[r[1]] <=> r[2] < call[r[1]] \/ r = Current(c)
           /\ r = Current(c) => ~(r[2] < call[r[1]])
<1>1. r[1] \in Callers /\ r[2] \in Nat /\ r = <<r[1], r[2]>> /\ call \in [Callers -> Nat]
  BY RequestParts, ScriptsAssumption DEF TypeOK
<1>2. call' = [call EXCEPT ![c] = call[c] + 1]
  BY DEF Return
<1>3. CASE r[1] = c
  <2>1. call'[r[1]] = call[c] + 1
    BY <1>1, <1>2, <1>3
  <2>2. r = Current(c) <=> r[2] = call[c]
    BY <1>1, <1>3 DEF Current
  <2>3. call[c] \in Nat
    BY <1>1
  <2>4. QED
    BY <1>1, <1>3, <2>1, <2>2, <2>3
<1>4. CASE r[1] # c
  <2>1. call'[r[1]] = call[r[1]]
    BY <1>1, <1>2, <1>4
  <2>2. r # Current(c)
    BY <1>4 DEF Current
  <2>3. QED
    BY <2>1, <2>2
<1>5. QED
  BY <1>3, <1>4

\* No more requests of a call than its number have been made.
LEMMA CallGrows ==
    ASSUME TypeOK, NEW c \in Callers, Return(c), NEW x \in Callers
    PROVE  call'[x] \in Nat /\ call[x] \in Nat /\ call[x] <= call'[x] /\ call'[c] = call[c] + 1
BY DEF TypeOK, Return

\* What the sequences hold.
LEMMA Held ==
    ASSUME TypeOK
    PROVE  /\ wire \in Seq(Requests) /\ Len(wire) \in Nat
           /\ \A i \in 1..Len(wire) : wire[i] \in Requests
           /\ \A h \in Handlers :
                 /\ requests[h] \in Seq(Requests) /\ Len(requests[h]) \in Nat
                 /\ \A i \in 1..Len(requests[h]) : requests[h][i] \in Requests
           /\ \A r \in Requests :
                 /\ failures[r] \in Nat /\ Occurrences(wire, r) \in Nat
                 /\ \A h \in Handlers : Occurrences(requests[h], r) \in Nat
<1>1. /\ wire \in Seq(Requests) /\ \A h \in Handlers : requests[h] \in Seq(Requests)
      /\ \A r \in Requests : failures[r] \in Nat
  BY DEF TypeOK
<1>2. QED
  BY <1>1, OccurrencesType

\* The callers and the numbers of the requests in the sequences.
LEMMA HeldParts ==
    ASSUME TypeOK
    PROVE  /\ \A i \in 1..Len(wire) : wire[i][1] \in Callers /\ wire[i][2] \in Nat
           /\ \A h \in Handlers : \A i \in 1..Len(requests[h]) :
                 requests[h][i][1] \in Callers /\ requests[h][i][2] \in Nat
BY Held, RequestParts

\* A request that has returned was made through a handler.
LEMMA MadeThrough ==
    ASSUME ViaOK, NEW r \in Requests, r[2] < call[r[1]]
    PROVE  HandlerOf(r) \in Handlers
BY DelegateParts DEF ViaOK, HandlerOf

\* A request in the queue of another handler does not occur in this one.
LEMMA OnlyThere ==
    ASSUME TypeOK, Made, NEW h \in Handlers, NEW r \in Requests,
           Occurrences(requests[h], r) > 0
    PROVE  r[2] < call[r[1]] /\ HandlerOf(r) = h
<1>1. requests[h] \in Seq(Requests) /\ Occurrences(requests[h], r) # 0
  BY Held
<1>2. PICK i \in 1..Len(requests[h]) : requests[h][i] = r
  BY <1>1, OccurrencesType
<1>3. QED
  BY <1>2 DEF Made

-----------------------------------------------------------------------------
(***************************************************************************)
(* The ways in which a step changes where the requests are                 *)
(***************************************************************************)

\* The requests that are queued or on the wire stay older than the current ones.
LEMMA BeforeCall ==
    ASSUME TypeOK, Made, NEW c \in Callers, Return(c)
    PROVE  /\ \A h \in Handlers : \A i \in 1..Len(requests[h]) :
                 requests[h][i][2] < call'[requests[h][i][1]]
           /\ \A i \in 1..Len(wire) : wire[i][2] < call'[wire[i][1]]
<1>1. ASSUME NEW r \in Requests, r[2] < call[r[1]]
      PROVE  r[2] < call'[r[1]]
  BY <1>1, Returned
<1>2. QED
  BY <1>1, Held DEF Made

\* Handlers that are gone stay so.
GoneStays == /\ dropped \subseteq dropped'
             /\ \A h \in Handlers : exception[h] => exception'[h]

\* No request moves, no caller starts a call, and the handler of a call stays.
LEMMA HistorySame ==
    ASSUME TypeOK, PlacesOK, ViaOK, History,
           UNCHANGED <<requests, wire, failures, call>>, GoneStays,
           \A r \in Requests : HandlerOf(r)' = HandlerOf(r),
           \A c \in Callers : at[c] = "idle" => at'[c] = "idle"
    PROVE  History'
<1>1. Balanced'
  BY DEF History, Balanced, Occurrences
<1>2. /\ \A i \in 1..Len(wire) : HandlerOf(wire[i])' = HandlerOf(wire[i])
      /\ \A h \in Handlers : \A i \in 1..Len(requests[h]) :
            HandlerOf(requests[h][i])' = HandlerOf(requests[h][i])
  BY Held
<1>3. Made'
  BY <1>2 DEF History, Made
<1>4. \A c \in Callers : at[c] # "idle" => Handler(c)' = Handler(c)
  <2> SUFFICES ASSUME NEW c \in Callers, at[c] # "idle"
               PROVE  Handler(c)' = Handler(c)
    OBVIOUS
  <2>1. Current(c)' = Current(c) /\ Current(c) \in Requests
    BY InCall DEF Current
  <2>2. HandlerOf(Current(c))' = HandlerOf(Current(c))
    BY <2>1 DEF HandlerOf
  <2>3. QED
    BY <2>2 DEF Handler
<1>5. QueueInOrder'
  <2>1. \A g \in Handlers : Gone(g) => Gone(g)'
    BY DEF Gone, GoneStays
  <2>2. (\A i, j \in 1..Len(wire) :
            i < j /\ wire[i][1] = wire[j][1]
            => wire[i][2] < wire[j][2] \/ HandlerOf(wire[j]) \in dropped)'
    BY <1>2 DEF History, QueueInOrder, GoneStays
  <2>3. QED
    BY <1>4, <2>1, <2>2 DEF History, QueueInOrder
<1>6. QED
  BY <1>1, <1>3, <1>5 DEF History

\* The current call of c fails.
LEMMA HistoryFailed ==
    ASSUME TypeOK, PlacesOK, ViaOK, History, NEW c \in Callers, at[c] # "idle",
           failures' = [failures EXCEPT ![Current(c)] = @ + 1], Return(c), GoneStays,
           UNCHANGED <<requests, wire, exception>>
    PROVE  History'
<1>1. Current(c) \in Requests /\ Current(c)[1] = c /\ Current(c)[2] = call[c] /\ call[c] \in Nat
  BY InCall
<1>2. \A r : HandlerOf(r)' = HandlerOf(r)
  BY DEF HandlerOf, Return
<1>3. Balanced'
  <2> SUFFICES ASSUME NEW r \in Requests
               PROVE  IF r[2] < call'[r[1]]
                      THEN Occurrences(requests[HandlerOf(r)], r) + Occurrences(wire, r)
                             + failures'[r] = 1
                      ELSE Occurrences(wire, r) + failures'[r] = 0
    BY <1>2 DEF Balanced
  <2>1. failures'[r] = IF r = Current(c) THEN failures[r] + 1 ELSE failures[r]
    BY <1>1, Held DEF TypeOK
  <2>2. IF r[2] < call[r[1]]
        THEN Occurrences(requests[HandlerOf(r)], r) + Occurrences(wire, r) + failures[r] = 1
        ELSE Occurrences(wire, r) + failures[r] = 0
    BY DEF History, Balanced
  <2>3. CASE r = Current(c)
    <3>1. ~(r[2] < call[r[1]]) /\ r[2] < call'[r[1]]
      BY <2>3, Returned
    <3>2. Occurrences(requests[HandlerOf(r)], r) = 0
      <4>1. HandlerOf(r) \in Handlers
        BY <2>3, InCall
      <4>2. QED
        BY <3>1, <4>1, OnlyThere, Held DEF History
    <3>3. QED
      BY <2>1, <2>2, <2>3, <3>1, <3>2, Held
  <2>4. CASE r # Current(c)
    BY <2>1, <2>2, <2>4, Returned
  <2>5. QED
    BY <2>3, <2>4
<1>4. Made'
  BY <1>2, BeforeCall DEF History, Made
<1>5. QueueInOrder'
  <2>1. \A d \in Callers : at'[d] # "idle" => at[d] # "idle" /\ Handler(d)' = Handler(d)
    BY <1>1 DEF Return, Goes, TypeOK, Threads, Handler, HandlerOf, Current
  <2>2. \A g \in Handlers : Gone(g) => Gone(g)'
    BY DEF Gone, GoneStays
  <2>3. \A r : HandlerOf(r) \in dropped => HandlerOf(r)' \in dropped'
    BY <1>2 DEF GoneStays
  <2>4. QED
    BY <2>1, <2>2, <2>3 DEF History, QueueInOrder
<1>6. QED
  BY <1>3, <1>4, <1>5 DEF History

\* The current call of c is appended to the queue of its handler.
LEMMA HistoryQueued ==
    ASSUME TypeOK, PlacesOK, ViaOK, History, NEW c \in Callers, at[c] # "idle",
           requests' = [requests EXCEPT ![Handler(c)] = Append(@, Current(c))],
           Return(c), UNCHANGED <<wire, failures, exception, dropped>>
    PROVE  History'
<1> DEFINE h == Handler(c)
           n == Len(requests[h]) + 1
<1>1. /\ Current(c) \in Requests /\ Current(c)[1] = c /\ Current(c)[2] = call[c]
      /\ call[c] \in Nat /\ h \in Handlers /\ HandlerOf(Current(c)) = h
  BY InCall
<1>2. \A r : HandlerOf(r)' = HandlerOf(r)
  BY DEF HandlerOf, Return
<1>3. \A g : Gone(g)' <=> Gone(g)
  BY DEF Gone
<1>4. /\ requests'[h] = Append(requests[h], Current(c))
      /\ \A g \in Handlers \ {h} : requests'[g] = requests[g]
  BY <1>1 DEF TypeOK
<1>5. /\ Len(requests[h]) \in Nat /\ Len(requests'[h]) = n /\ requests'[h][n] = Current(c)
      /\ \A i \in 1..Len(requests[h]) : requests'[h][i] = requests[h][i]
  BY <1>1, <1>4, Held
<1> HIDE DEF h
<1>6. Balanced'
  <2> SUFFICES ASSUME NEW r \in Requests
               PROVE  IF r[2] < call'[r[1]]
                      THEN Occurrences(requests'[HandlerOf(r)], r) + Occurrences(wire, r)
                             + failures[r] = 1
                      ELSE Occurrences(wire, r) + failures[r] = 0
    BY <1>2 DEF Balanced
  <2>1. Occurrences(requests'[h], r) = Occurrences(requests[h], r) + IF Current(c) = r THEN 1 ELSE 0
    BY <1>1, <1>4, Held, OccurrencesAppend
  <2>2. IF r[2] < call[r[1]]
        THEN Occurrences(requests[HandlerOf(r)], r) + Occurrences(wire, r) + failures[r] = 1
        ELSE Occurrences(wire, r) + failures[r] = 0
    BY DEF History, Balanced
  <2>3. CASE r = Current(c)
    <3>1. ~(r[2] < call[r[1]]) /\ r[2] < call'[r[1]]
      BY <2>3, Returned
    <3>2. Occurrences(requests[h], r) = 0
      BY <1>1, <3>1, OnlyThere, Held DEF History
    <3>3. QED
      BY <1>1, <2>1, <2>2, <2>3, <3>1, <3>2, Held
  <2>4. CASE r # Current(c)
    <3>1. r[2] < call'[r[1]] <=> r[2] < call[r[1]]
      BY <2>4, Returned
    <3>2. CASE r[2] < call[r[1]]
      <4>1. HandlerOf(r) \in Handlers
        BY <3>2, MadeThrough
      <4>2. Occurrences(requests'[HandlerOf(r)], r) = Occurrences(requests[HandlerOf(r)], r)
        BY <1>1, <1>4, <2>1, <2>4, <4>1, Held
      <4>3. QED
        BY <2>2, <3>1, <3>2, <4>2
    <3>3. QED
      BY <2>2, <3>1, <3>2
  <2>5. QED
    BY <2>3, <2>4
<1>7. Made'
  <2>1. ASSUME NEW g \in Handlers, NEW j \in 1..Len(requests'[g])
        PROVE  requests'[g][j][2] < call'[requests'[g][j][1]] /\ HandlerOf(requests'[g][j]) = g
    <3>1. CASE g # h \/ j # n
      <4>1. j \in 1..Len(requests[g]) /\ requests'[g][j] = requests[g][j]
        BY <1>4, <1>5, <2>1, <3>1
      <4>2. QED
        BY <2>1, <4>1, BeforeCall DEF History, Made
    <3>2. CASE g = h /\ j = n
      BY <1>1, <1>5, <3>2, CallGrows
    <3>3. QED
      BY <3>1, <3>2
  <2>2. QED
    BY <1>2, <2>1, BeforeCall DEF History, Made
<1>8. QueueInOrder'
  <2>1. ASSUME NEW g \in Handlers, NEW j \in 1..Len(requests'[g])
        PROVE  \/ /\ g = h /\ j = n /\ requests'[g][j] = Current(c)
               \/ /\ j \in 1..Len(requests[g]) /\ requests'[g][j] = requests[g][j]
                  /\ requests[g][j][1] = c => requests[g][j][2] < call[c]
    <3>1. CASE g = h /\ j = n
      BY <1>5, <3>1
    <3>2. CASE g # h \/ j # n
      <4>1. j \in 1..Len(requests[g]) /\ requests'[g][j] = requests[g][j]
        BY <1>4, <1>5, <2>1, <3>2
      <4>2. QED
        BY <2>1, <4>1 DEF History, Made
    <3>3. QED
      BY <3>1, <3>2
  <2>2. \A i \in 1..Len(wire) : wire[i][1] = c => wire[i][2] < call[c]
    BY DEF History, Made
  <2>3. \A g \in Handlers : \A i, j \in 1..Len(requests'[g]) :
           i < j /\ requests'[g][i][1] = requests'[g][j][1]
           => requests'[g][i][2] < requests'[g][j][2]
    <3> SUFFICES ASSUME NEW g \in Handlers, NEW i \in 1..Len(requests'[g]),
                        NEW j \in 1..Len(requests'[g]), i < j,
                        requests'[g][i][1] = requests'[g][j][1]
                 PROVE  requests'[g][i][2] < requests'[g][j][2]
      OBVIOUS
    <3>1. i \in 1..Len(requests[g]) /\ requests'[g][i] = requests[g][i]
      BY <1>4, <1>5
    <3>2. CASE j \in 1..Len(requests[g]) /\ requests'[g][j] = requests[g][j]
      BY <3>1, <3>2 DEF History, QueueInOrder
    <3>3. CASE g = h /\ j = n /\ requests'[g][j] = Current(c)
      BY <1>1, <3>1, <3>3 DEF History, Made
    <3>4. QED
      BY <2>1, <3>2, <3>3
  <2>4. \A g \in Handlers : \A i \in 1..Len(wire), j \in 1..Len(requests'[g]) :
           wire[i][1] = requests'[g][j][1] => wire[i][2] < requests'[g][j][2] \/ Gone(g)
    <3> SUFFICES ASSUME NEW g \in Handlers, NEW i \in 1..Len(wire),
                        NEW j \in 1..Len(requests'[g]), wire[i][1] = requests'[g][j][1]
                 PROVE  wire[i][2] < requests'[g][j][2] \/ Gone(g)
      OBVIOUS
    <3>1. CASE j \in 1..Len(requests[g]) /\ requests'[g][j] = requests[g][j]
      BY <3>1 DEF History, QueueInOrder
    <3>2. CASE g = h /\ j = n /\ requests'[g][j] = Current(c)
      BY <1>1, <2>2, <3>2
    <3>3. QED
      BY <2>1, <3>1, <3>2
  <2>5. \A f, g \in Handlers : \A i \in 1..Len(requests'[f]), j \in 1..Len(requests'[g]) :
           f # g /\ requests'[f][i][1] = requests'[g][j][1]
           => requests'[f][i][2] < requests'[g][j][2] \/ Gone(g)
    <3> SUFFICES ASSUME NEW f \in Handlers, NEW g \in Handlers, NEW i \in 1..Len(requests'[f]),
                        NEW j \in 1..Len(requests'[g]), f # g,
                        requests'[f][i][1] = requests'[g][j][1]
                 PROVE  requests'[f][i][2] < requests'[g][j][2] \/ Gone(g)
      OBVIOUS
    <3>1. CASE /\ i \in 1..Len(requests[f]) /\ requests'[f][i] = requests[f][i]
               /\ j \in 1..Len(requests[g]) /\ requests'[g][j] = requests[g][j]
      BY <3>1 DEF History, QueueInOrder
    <3>2. CASE f = h /\ i = n /\ requests'[f][i] = Current(c)
      <4>1. j \in 1..Len(requests[g]) /\ requests[g][j][1] = c
        BY <1>1, <1>4, <3>2
      <4>2. Handler(c) = g \/ Gone(g)
        BY <4>1 DEF History, QueueInOrder
      <4>3. QED
        BY <3>2, <4>2 DEF h
    <3>3. CASE g = h /\ j = n /\ requests'[g][j] = Current(c)
      <4>1. /\ i \in 1..Len(requests[f]) /\ requests'[f][i] = requests[f][i]
            /\ requests[f][i][1] = c
        BY <1>1, <1>4, <3>3
      <4>2. QED
        BY <1>1, <3>3, <4>1 DEF History, Made
    <3>4. QED
      BY <2>1, <3>1, <3>2, <3>3
  <2>6. \A d \in Callers, g \in Handlers : \A j \in 1..Len(requests'[g]) :
           at'[d] # "idle" /\ requests'[g][j][1] = d => Handler(d)' = g \/ Gone(g)
    <3> SUFFICES ASSUME NEW d \in Callers, NEW g \in Handlers, NEW j \in 1..Len(requests'[g]),
                        at'[d] # "idle", requests'[g][j][1] = d
                 PROVE  Handler(d)' = g \/ Gone(g)
      OBVIOUS
    <3>1. d # c /\ at'[d] = at[d] /\ call'[d] = call[d]
      BY DEF Return, Goes, TypeOK, Threads
    <3>2. Handler(d)' = Handler(d)
      BY <1>2, <3>1 DEF Handler, HandlerOf, Current, Return
    <3>3. j \in 1..Len(requests[g]) /\ requests'[g][j] = requests[g][j]
      BY <1>1, <2>1, <3>1
    <3>4. QED
      BY <3>1, <3>2, <3>3 DEF History, QueueInOrder
  <2>7. \A i, j \in 1..Len(wire) :
           i < j /\ wire[i][1] = wire[j][1]
           => wire[i][2] < wire[j][2] \/ HandlerOf(wire[j]) \in dropped
    BY DEF History, QueueInOrder
  <2>8. wire' = wire /\ dropped' = dropped
    OBVIOUS
  <2>9. (\A i, j \in 1..Len(wire) :
            i < j /\ wire[i][1] = wire[j][1]
            => wire[i][2] < wire[j][2] \/ HandlerOf(wire[j]) \in dropped)'
    BY <1>2, <2>7, <2>8
  <2>10. (\A f, g \in Handlers : \A i \in 1..Len(requests[f]), j \in 1..Len(requests[g]) :
             f # g /\ requests[f][i][1] = requests[g][j][1]
             => requests[f][i][2] < requests[g][j][2] \/ Gone(g))'
    BY <1>3, <2>5
  <2>11. (\A d \in Callers, g \in Handlers : \A j \in 1..Len(requests[g]) :
             at[d] # "idle" /\ requests[g][j][1] = d => Handler(d) = g \/ Gone(g))'
    BY <1>3, <2>6
  <2>12. (\A g \in Handlers : \A i \in 1..Len(wire), j \in 1..Len(requests[g]) :
             wire[i][1] = requests[g][j][1] => wire[i][2] < requests[g][j][2] \/ Gone(g))'
    BY <1>3, <2>4, <2>8
  <2>13. QED
    BY <2>3, <2>9, <2>10, <2>11, <2>12 DEF QueueInOrder
<1>9. QED
  BY <1>6, <1>7, <1>8 DEF History

\* The current call of c goes to a connection; the queue of its handler is empty.
LEMMA HistoryWired ==
    ASSUME TypeOK, PlacesOK, ViaOK, History, NEW c \in Callers, at[c] # "idle",
           requests[Handler(c)] = <<>>,
           wire' = Append(wire, Current(c)), Return(c),
           UNCHANGED <<requests, failures, exception, dropped>>
    PROVE  History'
<1> DEFINE n == Len(wire) + 1
<1>1. /\ Current(c) \in Requests /\ Current(c)[1] = c /\ Current(c)[2] = call[c]
      /\ call[c] \in Nat /\ Handler(c) \in Handlers /\ HandlerOf(Current(c)) = Handler(c)
  BY InCall
<1>2. \A r : HandlerOf(r)' = HandlerOf(r)
  BY DEF HandlerOf, Return
<1>3. \A g : Gone(g)' <=> Gone(g)
  BY DEF Gone
<1>4. /\ Len(wire) \in Nat /\ Len(wire') = n /\ wire'[n] = Current(c)
      /\ \A i \in 1..Len(wire) : wire'[i] = wire[i]
  BY <1>1, Held
<1>5. Balanced'
  <2> SUFFICES ASSUME NEW r \in Requests
               PROVE  IF r[2] < call'[r[1]]
                      THEN Occurrences(requests[HandlerOf(r)], r) + Occurrences(wire', r)
                             + failures[r] = 1
                      ELSE Occurrences(wire', r) + failures[r] = 0
    BY <1>2 DEF Balanced
  <2>1. Occurrences(wire', r) = Occurrences(wire, r) + IF Current(c) = r THEN 1 ELSE 0
    BY <1>1, Held, OccurrencesAppend
  <2>2. IF r[2] < call[r[1]]
        THEN Occurrences(requests[HandlerOf(r)], r) + Occurrences(wire, r) + failures[r] = 1
        ELSE Occurrences(wire, r) + failures[r] = 0
    BY DEF History, Balanced
  <2>3. CASE r = Current(c)
    <3>1. ~(r[2] < call[r[1]]) /\ r[2] < call'[r[1]]
      BY <2>3, Returned
    <3>2. Occurrences(requests[HandlerOf(r)], r) = 0
      BY <1>1, <2>3, OccurrencesEmpty
    <3>3. QED
      BY <2>1, <2>2, <2>3, <3>1, <3>2, Held
  <2>4. CASE r # Current(c)
    <3>1. Occurrences(wire', r) = Occurrences(wire, r)
      BY <2>1, <2>4, Held
    <3>2. QED
      BY <2>2, <2>4, <3>1, Returned
  <2>5. QED
    BY <2>3, <2>4
<1>6. Made'
  <2>1. \A i \in 1..Len(wire') : wire'[i][2] < call'[wire'[i][1]]
    BY <1>1, <1>4, BeforeCall, CallGrows DEF History
  <2>2. QED
    BY <1>2, <2>1, BeforeCall DEF History, Made
<1>7. QueueInOrder'
  <2>1. \A i, j \in 1..Len(wire') :
           i < j /\ wire'[i][1] = wire'[j][1]
           => wire'[i][2] < wire'[j][2] \/ HandlerOf(wire'[j]) \in dropped
    <3> SUFFICES ASSUME NEW i \in 1..Len(wire'), NEW j \in 1..Len(wire'), i < j,
                        wire'[i][1] = wire'[j][1]
                 PROVE  wire'[i][2] < wire'[j][2] \/ HandlerOf(wire'[j]) \in dropped
      OBVIOUS
    <3>1. i \in 1..Len(wire) /\ wire'[i] = wire[i]
      BY <1>4
    <3>2. CASE j = n
      BY <1>1, <1>4, <3>1, <3>2 DEF History, Made
    <3>3. CASE j # n
      <4>1. j \in 1..Len(wire) /\ wire'[j] = wire[j]
        BY <1>4, <3>3
      <4>2. QED
        BY <3>1, <4>1 DEF History, QueueInOrder
    <3>4. QED
      BY <3>2, <3>3
  <2>2. \A h \in Handlers : \A i \in 1..Len(wire'), j \in 1..Len(requests[h]) :
           wire'[i][1] = requests[h][j][1] => wire'[i][2] < requests[h][j][2] \/ Gone(h)
    <3> SUFFICES ASSUME NEW h \in Handlers, NEW i \in 1..Len(wire'),
                        NEW j \in 1..Len(requests[h]), wire'[i][1] = requests[h][j][1]
                 PROVE  wire'[i][2] < requests[h][j][2] \/ Gone(h)
      OBVIOUS
    <3>1. CASE i = n
      <4>1. requests[h][j][1] = c
        BY <1>1, <1>4, <3>1
      <4>2. Handler(c) = h \/ Gone(h)
        BY <4>1 DEF History, QueueInOrder
      <4>3. h # Handler(c)
        OBVIOUS
      <4>4. QED
        BY <4>2, <4>3
    <3>2. CASE i # n
      <4>1. i \in 1..Len(wire) /\ wire'[i] = wire[i]
        BY <1>4, <3>2
      <4>2. QED
        BY <4>1 DEF History, QueueInOrder
    <3>3. QED
      BY <3>1, <3>2
  <2>3. \A d \in Callers : at'[d] # "idle" => at[d] # "idle" /\ Handler(d)' = Handler(d)
    BY DEF Return, Goes, TypeOK, Threads, Handler, HandlerOf, Current
  <2>4. /\ \A h \in Handlers : \A i, j \in 1..Len(requests[h]) :
              i < j /\ requests[h][i][1] = requests[h][j][1]
              => requests[h][i][2] < requests[h][j][2]
        /\ \A g, h \in Handlers : \A i \in 1..Len(requests[g]), j \in 1..Len(requests[h]) :
              g # h /\ requests[g][i][1] = requests[h][j][1]
              => requests[g][i][2] < requests[h][j][2] \/ Gone(h)
        /\ \A d \in Callers, h \in Handlers : \A j \in 1..Len(requests[h]) :
              at[d] # "idle" /\ requests[h][j][1] = d => Handler(d) = h \/ Gone(h)
    BY DEF History, QueueInOrder
  <2>5. requests' = requests /\ dropped' = dropped
    OBVIOUS
  <2>6. QED
    BY <1>2, <1>3, <2>1, <2>2, <2>3, <2>4, <2>5 DEF QueueInOrder
<1>8. QED
  BY <1>5, <1>6, <1>7 DEF History

\* The first request of the queue of h is sent.
LEMMA HistorySent ==
    ASSUME TypeOK, ViaOK, History, NEW h \in Handlers, requests[h] # <<>>, ~exception[h],
           wire' = Append(wire, Head(requests[h])),
           requests' = [requests EXCEPT ![h] = Tail(@)],
           UNCHANGED <<failures, call, via, at, exception, dropped>>
    PROVE  History'
<1> DEFINE n == Len(wire) + 1
           q == requests[h][1]
<1>1. /\ Len(requests[h]) \in Nat \ {0} /\ Head(requests[h]) = q /\ q \in Requests
      /\ q[1] \in Callers /\ q[2] \in Nat
  <2>1. Len(requests[h]) \in Nat \ {0} /\ Head(requests[h]) = q /\ q \in Requests
    BY Held
  <2>2. QED
    BY <2>1, RequestParts
<1>2. /\ requests'[h] = Tail(requests[h])
      /\ \A g \in Handlers \ {h} : requests'[g] = requests[g]
  BY DEF TypeOK
<1>3. /\ Len(requests'[h]) = Len(requests[h]) - 1
      /\ \A i \in 1..Len(requests'[h]) : requests'[h][i] = requests[h][i + 1]
                                         /\ i + 1 \in 1..Len(requests[h])
  <2>1. requests[h] \in Seq(Requests)
    BY Held
  <2>2. /\ Len(Tail(requests[h])) = Len(requests[h]) - 1
        /\ \A i \in 1..Len(Tail(requests[h])) : Tail(requests[h])[i] = requests[h][i + 1]
    BY <2>1
  <2>3. \A i \in 1..(Len(requests[h]) - 1) : i + 1 \in 1..Len(requests[h])
    BY <1>1
  <2>4. QED
    BY <1>2, <2>2, <2>3
<1>4. /\ Len(wire) \in Nat /\ Len(wire') = n /\ wire'[n] = q
      /\ \A i \in 1..Len(wire) : wire'[i] = wire[i]
  BY <1>1, Held
<1>5. HandlerOf(q) = h /\ q[2] < call[q[1]]
  BY <1>1 DEF History, Made
<1>6. \A r : HandlerOf(r)' = HandlerOf(r)
  BY DEF HandlerOf
<1>7. \A g : Gone(g)' <=> Gone(g)
  BY DEF Gone
<1>8. \A d : Handler(d)' = Handler(d)
  BY <1>6 DEF Handler, Current
\* Each place of a queue is one of the old queue.
<1>9. ASSUME NEW g \in Handlers, NEW j \in 1..Len(requests'[g])
      PROVE  \E k \in 1..Len(requests[g]) : /\ requests'[g][j] = requests[g][k]
                                            /\ k = IF g = h THEN j + 1 ELSE j
  BY <1>2, <1>3, <1>9
<1> HIDE DEF q
<1>10. Balanced'
  <2> SUFFICES ASSUME NEW r \in Requests
               PROVE  IF r[2] < call[r[1]]
                      THEN Occurrences(requests'[HandlerOf(r)], r) + Occurrences(wire', r)
                             + failures[r] = 1
                      ELSE Occurrences(wire', r) + failures[r] = 0
    BY <1>6 DEF Balanced
  <2>1. Occurrences(wire', r) = Occurrences(wire, r) + IF q = r THEN 1 ELSE 0
    <3>1. wire \in Seq(Requests) /\ q \in Requests /\ wire' = Append(wire, q)
      BY <1>1, Held
    <3>2. Occurrences(Append(wire, q), r) = Occurrences(wire, r) + IF q = r THEN 1 ELSE 0
      BY <3>1, OccurrencesAppend
    <3>3. QED
      BY <3>1, <3>2, Zenon
  <2>2. Occurrences(requests'[h], r) = Occurrences(requests[h], r) - IF q = r THEN 1 ELSE 0
    BY <1>1, <1>2, Held, OccurrencesTail
  <2>3. IF r[2] < call[r[1]]
        THEN Occurrences(requests[HandlerOf(r)], r) + Occurrences(wire, r) + failures[r] = 1
        ELSE Occurrences(wire, r) + failures[r] = 0
    BY DEF History, Balanced
  <2>4. CASE r = q
    BY <1>5, <2>1, <2>2, <2>3, <2>4, Held
  <2>5. CASE r # q
    <3>1. Occurrences(wire', r) = Occurrences(wire, r)
      BY <2>1, <2>5, Held
    <3>2. CASE r[2] < call[r[1]]
      <4>1. HandlerOf(r) \in Handlers
        BY <3>2, MadeThrough
      <4>2. Occurrences(requests'[HandlerOf(r)], r) = Occurrences(requests[HandlerOf(r)], r)
        BY <1>2, <2>2, <2>5, <4>1, Held
      <4>3. QED
        BY <2>3, <3>1, <3>2, <4>2
    <3>3. QED
      BY <2>3, <3>1, <3>2
  <2>6. QED
    BY <2>4, <2>5
<1>11. Made'
  <2>1. \A i \in 1..Len(wire') : wire'[i][2] < call[wire'[i][1]]
    BY <1>4, <1>5 DEF History, Made
  <2>2. \A g \in Handlers : \A j \in 1..Len(requests'[g]) :
           requests'[g][j][2] < call[requests'[g][j][1]] /\ HandlerOf(requests'[g][j]) = g
    BY <1>9 DEF History, Made
  <2>3. QED
    BY <1>6, <2>1, <2>2 DEF Made
<1>12. QueueInOrder'
  <2>1. \A i, j \in 1..Len(wire') :
           i < j /\ wire'[i][1] = wire'[j][1]
           => wire'[i][2] < wire'[j][2] \/ HandlerOf(wire'[j]) \in dropped
    <3> SUFFICES ASSUME NEW i \in 1..Len(wire'), NEW j \in 1..Len(wire'), i < j,
                        wire'[i][1] = wire'[j][1]
                 PROVE  wire'[i][2] < wire'[j][2] \/ HandlerOf(wire'[j]) \in dropped
      OBVIOUS
    <3>1. i \in 1..Len(wire) /\ wire'[i] = wire[i]
      BY <1>4
    <3>2. CASE j = n
      <4>1. wire[i][2] < q[2] \/ Gone(h)
        BY <1>1, <1>4, <3>1, <3>2 DEF History, QueueInOrder, q
      <4>2. QED
        BY <1>4, <1>5, <3>1, <3>2, <4>1 DEF Gone
    <3>3. CASE j # n
      <4>1. j \in 1..Len(wire) /\ wire'[j] = wire[j]
        BY <1>4, <3>3
      <4>2. QED
        BY <3>1, <4>1 DEF History, QueueInOrder
    <3>4. QED
      BY <3>2, <3>3
  <2>2. \A g \in Handlers : \A i \in 1..Len(wire'), j \in 1..Len(requests'[g]) :
           wire'[i][1] = requests'[g][j][1] => wire'[i][2] < requests'[g][j][2] \/ Gone(g)
    <3> SUFFICES ASSUME NEW g \in Handlers, NEW i \in 1..Len(wire'),
                        NEW j \in 1..Len(requests'[g]), wire'[i][1] = requests'[g][j][1]
                 PROVE  wire'[i][2] < requests'[g][j][2] \/ Gone(g)
      OBVIOUS
    <3>1. PICK k \in 1..Len(requests[g]) : /\ requests'[g][j] = requests[g][k]
                                           /\ k = IF g = h THEN j + 1 ELSE j
      BY <1>9
    <3>2. CASE i = n /\ g = h
      <4>1. 1 < k /\ 1 \in 1..Len(requests[h]) /\ requests[h][1][1] = requests[h][k][1]
        BY <1>1, <1>4, <3>1, <3>2 DEF q
      <4>2. requests[h][1][2] < requests[h][k][2]
        BY <3>1, <3>2, <4>1 DEF History, QueueInOrder
      <4>3. QED
        BY <1>4, <3>1, <3>2, <4>2 DEF q
    <3>3. CASE i = n /\ g # h
      <4>1. 1 \in 1..Len(requests[h]) /\ requests[h][1][1] = requests[g][k][1]
        BY <1>1, <1>4, <3>1, <3>3 DEF q
      <4>2. requests[h][1][2] < requests[g][k][2] \/ Gone(g)
        BY <3>1, <3>3, <4>1 DEF History, QueueInOrder
      <4>3. QED
        BY <1>4, <3>1, <3>3, <4>2 DEF q
    <3>4. CASE i # n
      <4>1. i \in 1..Len(wire) /\ wire'[i] = wire[i]
        BY <1>4, <3>4
      <4>2. QED
        BY <3>1, <4>1 DEF History, QueueInOrder
    <3>5. QED
      BY <3>2, <3>3, <3>4
  <2>3. \A g \in Handlers : \A i, j \in 1..Len(requests'[g]) :
           i < j /\ requests'[g][i][1] = requests'[g][j][1]
           => requests'[g][i][2] < requests'[g][j][2]
    <3> SUFFICES ASSUME NEW g \in Handlers, NEW i \in 1..Len(requests'[g]),
                        NEW j \in 1..Len(requests'[g]), i < j,
                        requests'[g][i][1] = requests'[g][j][1]
                 PROVE  requests'[g][i][2] < requests'[g][j][2]
      OBVIOUS
    <3>1. PICK k \in 1..Len(requests[g]) : /\ requests'[g][i] = requests[g][k]
                                           /\ k = IF g = h THEN i + 1 ELSE i
      BY <1>9
    <3>2. PICK l \in 1..Len(requests[g]) : /\ requests'[g][j] = requests[g][l]
                                           /\ l = IF g = h THEN j + 1 ELSE j
      BY <1>9
    <3>3. k < l
      BY <3>1, <3>2
    <3>4. QED
      BY <3>1, <3>2, <3>3 DEF History, QueueInOrder
  <2>4. \A f, g \in Handlers : \A i \in 1..Len(requests'[f]), j \in 1..Len(requests'[g]) :
           f # g /\ requests'[f][i][1] = requests'[g][j][1]
           => requests'[f][i][2] < requests'[g][j][2] \/ Gone(g)
    <3> SUFFICES ASSUME NEW f \in Handlers, NEW g \in Handlers, NEW i \in 1..Len(requests'[f]),
                        NEW j \in 1..Len(requests'[g]), f # g,
                        requests'[f][i][1] = requests'[g][j][1]
                 PROVE  requests'[f][i][2] < requests'[g][j][2] \/ Gone(g)
      OBVIOUS
    <3>1. PICK k \in 1..Len(requests[f]) : requests'[f][i] = requests[f][k]
      BY <1>9
    <3>2. PICK l \in 1..Len(requests[g]) : requests'[g][j] = requests[g][l]
      BY <1>9
    <3>3. QED
      BY <3>1, <3>2 DEF History, QueueInOrder
  <2>5. \A d \in Callers, g \in Handlers : \A j \in 1..Len(requests'[g]) :
           at[d] # "idle" /\ requests'[g][j][1] = d => Handler(d) = g \/ Gone(g)
    BY <1>9 DEF History, QueueInOrder
  <2>6. dropped' = dropped /\ at' = at
    OBVIOUS
  <2>7. (\A i, j \in 1..Len(wire) :
            i < j /\ wire[i][1] = wire[j][1]
            => wire[i][2] < wire[j][2] \/ HandlerOf(wire[j]) \in dropped)'
    BY <1>6, <2>1, <2>6
  <2>8. (\A f, g \in Handlers : \A i \in 1..Len(requests[f]), j \in 1..Len(requests[g]) :
            f # g /\ requests[f][i][1] = requests[g][j][1]
            => requests[f][i][2] < requests[g][j][2] \/ Gone(g))'
    BY <1>7, <2>4
  <2>9. (\A d \in Callers, g \in Handlers : \A j \in 1..Len(requests[g]) :
            at[d] # "idle" /\ requests[g][j][1] = d => Handler(d) = g \/ Gone(g))'
    BY <1>7, <1>8, <2>5, <2>6
  <2>10. (\A g \in Handlers : \A i \in 1..Len(wire), j \in 1..Len(requests[g]) :
             wire[i][1] = requests[g][j][1] => wire[i][2] < requests[g][j][2] \/ Gone(g))'
    BY <1>7, <2>2
  <2>11. QED
    BY <2>3, <2>7, <2>8, <2>9, <2>10 DEF QueueInOrder
<1>13. QED
  BY <1>10, <1>11, <1>12 DEF History

\* All requests of the queue of h fail.
LEMMA HistoryFlushed ==
    ASSUME TypeOK, ViaOK, History, NEW h \in Handlers,
           failures' = [r \in Requests |->
                           IF \E i \in DOMAIN requests[h] : requests[h][i] = r
                           THEN failures[r] + 1 ELSE failures[r]],
           requests' = [requests EXCEPT ![h] = <<>>], GoneStays,
           UNCHANGED <<wire, call, via, at, exception>>
    PROVE  History'
<1>1. /\ requests'[h] = <<>> /\ Len(requests'[h]) = 0
      /\ \A g \in Handlers \ {h} : requests'[g] = requests[g]
  BY DEF TypeOK
<1>2. \A r : HandlerOf(r)' = HandlerOf(r)
  BY DEF HandlerOf
<1>3. \A d : Handler(d)' = Handler(d)
  BY <1>2 DEF Handler, Current
<1>4. \A g \in Handlers : \A j \in 1..Len(requests'[g]) :
         j \in 1..Len(requests[g]) /\ requests'[g][j] = requests[g][j]
  BY <1>1
<1>5. Balanced'
  <2> SUFFICES ASSUME NEW r \in Requests
               PROVE  IF r[2] < call[r[1]]
                      THEN Occurrences(requests'[HandlerOf(r)], r) + Occurrences(wire, r)
                             + failures'[r] = 1
                      ELSE Occurrences(wire, r) + failures'[r] = 0
    BY <1>2 DEF Balanced
  <2>1. IF r[2] < call[r[1]]
        THEN Occurrences(requests[HandlerOf(r)], r) + Occurrences(wire, r) + failures[r] = 1
        ELSE Occurrences(wire, r) + failures[r] = 0
    BY DEF History, Balanced
  <2>2. DOMAIN requests[h] = 1..Len(requests[h])
    BY Held
  <2>3. CASE \E i \in 1..Len(requests[h]) : requests[h][i] = r
    <3>1. r[2] < call[r[1]] /\ HandlerOf(r) = h
      BY <2>3 DEF History, Made
    <3>2. Occurrences(requests[h], r) # 0
      BY <2>3, Held, OccurrencesType
    <3>3. Occurrences(requests'[h], r) = 0
      BY <1>1, OccurrencesEmpty
    <3>4. failures'[r] = failures[r] + 1
      BY <2>2, <2>3
    <3>5. QED
      BY <2>1, <3>1, <3>2, <3>3, <3>4, Held, SMTT(30)
  <2>4. CASE ~\E i \in 1..Len(requests[h]) : requests[h][i] = r
    <3>1. failures'[r] = failures[r]
      BY <2>2, <2>4
    <3>2. CASE r[2] < call[r[1]]
      <4>1. HandlerOf(r) \in Handlers
        BY <3>2, MadeThrough
      <4>2. Occurrences(requests[h], r) = 0 /\ Occurrences(requests'[h], r) = 0
        BY <1>1, <2>4, Held, OccurrencesType, OccurrencesEmpty
      <4>3. Occurrences(requests'[HandlerOf(r)], r) = Occurrences(requests[HandlerOf(r)], r)
        BY <1>1, <4>1, <4>2
      <4>4. QED
        BY <2>1, <3>1, <3>2, <4>3
    <3>3. QED
      BY <2>1, <3>1, <3>2
  <2>5. QED
    BY <2>3, <2>4
<1>6. Made'
  BY <1>2, <1>4 DEF History, Made
<1>7. QueueInOrder'
  <2>1. \A g \in Handlers : Gone(g) => Gone(g)'
    BY DEF Gone, GoneStays
  <2>2. \A g \in Handlers : g \in dropped => g \in dropped'
    BY DEF GoneStays
  <2>3. \A g \in Handlers : \A i, j \in 1..Len(requests'[g]) :
           i < j /\ requests'[g][i][1] = requests'[g][j][1]
           => requests'[g][i][2] < requests'[g][j][2]
    BY <1>4 DEF History, QueueInOrder
  <2>4. \A i, j \in 1..Len(wire) :
           i < j /\ wire[i][1] = wire[j][1]
           => wire[i][2] < wire[j][2] \/ HandlerOf(wire[j]) \in dropped'
    <3>1. \A i \in 1..Len(wire) : HandlerOf(wire[i]) \in Handlers
      BY Held, MadeThrough DEF History, Made
    <3>2. QED
      BY <2>2, <3>1 DEF History, QueueInOrder
  <2>5. \A g \in Handlers : \A i \in 1..Len(wire), j \in 1..Len(requests'[g]) :
           wire[i][1] = requests'[g][j][1] => wire[i][2] < requests'[g][j][2] \/ Gone(g)'
    BY <1>4, <2>1 DEF History, QueueInOrder
  <2>6. \A f, g \in Handlers : \A i \in 1..Len(requests'[f]), j \in 1..Len(requests'[g]) :
           f # g /\ requests'[f][i][1] = requests'[g][j][1]
           => requests'[f][i][2] < requests'[g][j][2] \/ Gone(g)'
    BY <1>4, <2>1 DEF History, QueueInOrder
  <2>7. \A d \in Callers, g \in Handlers : \A j \in 1..Len(requests'[g]) :
           at[d] # "idle" /\ requests'[g][j][1] = d => Handler(d) = g \/ Gone(g)'
    BY <1>4, <2>1 DEF History, QueueInOrder
  <2>8. wire' = wire /\ at' = at
    OBVIOUS
  <2>9. QED
    BY <1>2, <1>3, <2>3, <2>4, <2>5, <2>6, <2>7, <2>8, SMTT(30) DEF QueueInOrder
<1>8. QED
  BY <1>5, <1>6, <1>7 DEF History

-----------------------------------------------------------------------------
(***************************************************************************)
(* The steps preserve the invariant                                        *)
(***************************************************************************)

\* IInv holds initially.
LEMMA InitIInv == Init => IInv
<1> SUFFICES ASSUME Init PROVE IInv
  OBVIOUS
<1>1. /\ wire = <<>> /\ Len(<<>>) = 0 /\ <<>> \in Seq(Requests)
      /\ \A h \in Handlers : requests[h] = <<>>
  BY DEF Init
<1>2. TypeOK
  BY <1>1, CallersAssumption DEF Init, TypeOK, Threads, Places
<1>3. Control
  <2>1. \A c \in Callers : at[c] = "idle" /\ call[c] = 1
    BY DEF Init, Threads
  <2>2. \A h \in Handlers : at[h] = "establish"
    BY CallersAssumption DEF Init, Threads
  <2>3. \A r \in Requests : ~(r[2] < call[r[1]])
    BY <2>1, RequestParts, ScriptsAssumption
  <2>4. \A h \in Handlers : delegate # <<h, "connect">> /\ delegate # <<h, "connection">>
    BY DelegateOf DEF Init
  <2>5. QED
    BY <1>1, <2>1, <2>2, <2>3, <2>4
    DEF Init, Control, PlacesOK, ViaOK, FlagsOK, DelegateOK, QueueSent, Sent, CallerPlaces,
        AnswerPlaces
<1>4. Balanced
  <2> SUFFICES ASSUME NEW r \in Requests
               PROVE  /\ Occurrences(wire, r) + failures[r] = 0
                      /\ ~(r[2] < call[r[1]])
    BY DEF Balanced
  <2>1. failures[r] = 0 /\ call[r[1]] = 1 /\ r[2] \in 1..MaxCalls
    BY RequestParts DEF Init
  <2>2. Occurrences(wire, r) = 0
    BY <1>1, OccurrencesEmpty
  <2>3. QED
    BY <2>1, <2>2, ScriptsAssumption
<1>5. QueueInOrder /\ Made
  BY <1>1 DEF QueueInOrder, Made
<1>6. QED
  BY <1>2, <1>3, <1>4, <1>5 DEF IInv, History

\* A thread begins to wait.
LEMMA WaitKept ==
    ASSUME IInv, NEW t \in Threads, NEW h \in Handlers, Wait(t, h)
    PROVE  IInv'
<1>1. UNCHANGED <<handlerVars, proxyVars, at, script, call, via, fateVars>>
  BY DEF Wait
<1>2. History'
  BY <1>1, HistorySame DEF IInv, Control, handlerVars, proxyVars, fateVars, GoneStays, HandlerOf
<1>3. TypeOK'
  <2>1. waiting' \in [Handlers -> SUBSET Threads]
    BY DEF IInv, TypeOK, Wait
  <2>2. QED
    BY <1>1, <2>1 DEF IInv, TypeOK, handlerVars, proxyVars, fateVars
<1>4. Control'
  BY <1>1
  DEF IInv, handlerVars, proxyVars, fateVars, Control, PlacesOK, ViaOK, FlagsOK, DelegateOK,
      QueueSent, Sent, Gone, CallerPlaces, AnswerPlaces, Handler, HandlerOf, Current
<1>5. QED
  BY <1>2, <1>3, <1>4 DEF IInv

\* What the invariant says of the delegate after a step.
DelegateStep ==
    \A h \in Handlers :
        /\ delegate' = <<h, "connect">> => updateRequestHandler'[h] /\ ~Sent(h)
        /\ delegate' = <<h, "connection">> => Sent(h)
        /\ updateRequestHandler[h] => updateRequestHandler'[h]
        /\ updateRequestHandler'[h] => \/ Sent(h) \/ exception[h] \/ h \in dropped'
                                       \/ delegate' = <<h, "connect">>

\* A step that leaves the delegate alone.
LEMMA DelegateSame ==
    ASSUME IInv, UNCHANGED <<delegate, updateRequestHandler, dropped>>
    PROVE  DelegateStep
BY DEF IInv, Control, DelegateOK, DelegateStep, Gone

\* A reset loses no delegate of a handler that can still send without a record.
LEMMA ResetStep ==
    ASSUME IInv, NEW d, Reset(d), UNCHANGED updateRequestHandler
    PROVE  /\ DelegateStep /\ dropped \subseteq dropped' /\ dropped' \subseteq Handlers
           /\ delegate' \in {None, delegate} /\ creator' = creator
           /\ \A e \in Callers : at[e] # "connect"
<1>1. delegate' \in {None, delegate} /\ dropped \subseteq dropped' /\ creator' = creator
  BY DEF Reset
<1>2. \A h \in Handlers : delegate = <<h, "connect">> /\ delegate' # delegate
                          => exception[h] \/ h \in dropped'
  BY DEF Reset
<1>3. dropped' \subseteq Handlers /\ \A e \in Callers : at[e] # "connect"
  BY DEF Reset, ProxyFree, IInv, TypeOK
<1>4. DelegateStep
  BY <1>1, <1>2, DelegateOf DEF IInv, Control, DelegateOK, DelegateStep, Gone
<1>5. QED
  BY <1>1, <1>3, <1>4

\* The control part of the invariant after a step of caller c to a place, in which its
\* request gets the delegate d.
LEMMA CallerControl ==
    ASSUME IInv, NEW c \in Callers, NEW place \in CallerPlaces, Goes(c, place),
           UNCHANGED <<initialized, flushing, exception, connection, script>>,
           dropped \subseteq dropped', DelegateStep,
           call[c] \in 1..Len(script[c]),
           IF place = "idle" THEN at[c] # "idle" /\ Return(c) ELSE call' = call,
           NEW d \in Delegates, via' = [via EXCEPT ![Current(c)] = d],
           place = "connect" => delegate' = None,
           place = "connect" \/ delegate' # delegate
              => \A e \in Callers : e # c => at[e] # "connect",
           place \in {"invoke", "marshal"} => updateRequestHandler'[d[1]],
           place = "direct" => Sent(d[1]),
           \A h \in Handlers : requests'[h] = requests[h]
                               \/ (updateRequestHandler[h] /\ ~Sent(h) /\ at[h] # "update")
    PROVE  Control'
<1>1. /\ \A t \in Threads : at'[t] = IF t = c THEN place ELSE at[t]
      /\ Callers \subseteq Threads /\ Handlers \subseteq Threads /\ c \notin Handlers
  BY CallersAssumption DEF IInv, TypeOK, Goes, Threads
<1>2. /\ Current(c) \in Requests /\ Current(c)[1] = c /\ Current(c)[2] = call[c]
      /\ call[c] \in Nat
  BY CurrentRequest DEF IInv, Control
<1>3. \A r \in Requests : via'[r] = IF r = Current(c) THEN d ELSE via[r]
  BY <1>2 DEF IInv, TypeOK
<1>4. \A h \in Handlers : /\ at'[h] = at[h] /\ (Sent(h)' <=> Sent(h))
                           /\ (Gone(h) => Gone(h)')
                           /\ (exception[h] \/ h \in dropped' => Gone(h)')
  BY <1>1 DEF Sent, Gone
<1>5. \A e \in Callers : e # c => /\ at'[e] = at[e] /\ call'[e] = call[e]
                                  /\ (at[e] # "idle" => /\ via'[Current(e)] = via[Current(e)]
                                                        /\ Handler(e)' = Handler(e))
  <2> SUFFICES ASSUME NEW e \in Callers, e # c
               PROVE  /\ at'[e] = at[e] /\ call'[e] = call[e]
                      /\ at[e] # "idle" => /\ via'[Current(e)] = via[Current(e)]
                                           /\ Handler(e)' = Handler(e)
    OBVIOUS
  <2>1. at'[e] = at[e] /\ call'[e] = call[e]
    BY <1>1 DEF Return, IInv, TypeOK
  <2>2. Current(e)' = Current(e) /\ Current(e) # Current(c)
    BY <2>1 DEF Current
  <2>3. CASE at[e] # "idle"
    <3>1. Current(e) \in Requests
      BY <2>3, InCall DEF IInv, Control
    <3>2. via'[Current(e)] = via[Current(e)]
      BY <1>3, <2>2, <3>1
    <3>3. Handler(e)' = via'[Current(e)][1] /\ Handler(e) = via[Current(e)][1]
      BY <2>2 DEF Handler, HandlerOf
    <3>4. QED
      BY <2>1, <3>2, <3>3
  <2>4. QED
    BY <2>1, <2>3
<1>6. at'[c] = place /\ d[1] \in Handlers
  BY <1>1, DelegateParts
<1>7. place # "idle" => call'[c] = call[c] /\ Handler(c)' = d[1] /\ via'[Current(c)'] = d
  <2>1. CASE place # "idle"
    <3>1. Current(c)' = Current(c)
      BY <2>1 DEF Current
    <3>2. QED
      BY <1>2, <1>3, <2>1, <3>1 DEF Handler, HandlerOf
  <2>2. QED
    BY <2>1
<1>8. place = "idle" => call'[c] = call[c] + 1
  BY DEF Return, IInv, TypeOK
<1>9. PlacesOK'
  <2>1. (\A h \in Handlers : at[h] \in AnswerPlaces)'
    BY <1>4 DEF IInv, Control, PlacesOK
  <2>2. ASSUME NEW e \in Callers
        PROVE  /\ at'[e] \in CallerPlaces
               /\ at'[e] # "idle" => call'[e] \in 1..Len(script'[e])
               /\ call'[e] >= 1
    <3>1. CASE e = c
      BY <1>2, <1>6, <1>7, <1>8, <3>1 DEF IInv, Control, PlacesOK
    <3>2. CASE e # c
      BY <1>5, <3>2 DEF IInv, Control, PlacesOK
    <3>3. QED
      BY <3>1, <3>2
  <2>3. QED
    BY <2>1, <2>2 DEF PlacesOK
<1>10. ViaOK'
  <2>1. ASSUME NEW e \in Callers, at'[e] # "idle"
        PROVE  via'[Current(e)'] \in Delegates
    <3>1. CASE e = c
      BY <1>6, <1>7, <2>1, <3>1
    <3>2. CASE e # c
      <4>1. at[e] # "idle" /\ Current(e)' = Current(e)
        BY <1>5, <2>1, <3>2 DEF Current
      <4>2. QED
        BY <1>5, <3>2, <4>1 DEF IInv, Control, ViaOK
    <3>3. QED
      BY <3>1, <3>2
  <2>2. ASSUME NEW r \in Requests, r[2] < call'[r[1]]
        PROVE  via'[r] \in Delegates
    <3>1. CASE r = Current(c)
      BY <1>3, <3>1
    <3>2. CASE r # Current(c)
      <4>1. r[2] < call[r[1]]
        <5>1. CASE place = "idle"
          BY <2>2, <3>2, <5>1, Returned DEF IInv
        <5>2. CASE place # "idle"
          BY <2>2, <5>2
        <5>3. QED
          BY <5>1, <5>2
      <4>2. QED
        BY <1>3, <3>2, <4>1 DEF IInv, Control, ViaOK
    <3>3. QED
      BY <3>1, <3>2
  <2>3. QED
    BY <2>1, <2>2 DEF ViaOK
<1>11. FlagsOK'
  BY <1>4 DEF IInv, Control, FlagsOK
<1>12. DelegateOK'
  <2>1. (\A e \in Callers : at[e] = "connect" => delegate = None)'
    BY <1>5, <1>6 DEF IInv, Control, DelegateOK
  <2>2. (\A e, f \in Callers : at[e] = "connect" /\ at[f] = "connect" => e = f)'
    BY <1>5, <1>6 DEF IInv, Control, DelegateOK
  <2>3. ASSUME NEW e \in Callers, at'[e] \in {"invoke", "marshal"}
        PROVE  updateRequestHandler'[Handler(e)']
    <3>1. CASE e = c
      BY <1>6, <1>7, <2>3, <3>1
    <3>2. CASE e # c
      <4>1. at[e] \in {"invoke", "marshal"} /\ Handler(e)' = Handler(e)
        BY <1>5, <2>3, <3>2
      <4>2. updateRequestHandler[Handler(e)] /\ Handler(e) \in Handlers
        BY <4>1, InCall DEF IInv, Control, DelegateOK
      <4>3. QED
        BY <4>1, <4>2 DEF DelegateStep
    <3>3. QED
      BY <3>1, <3>2
  <2>4. ASSUME NEW h \in Handlers
        PROVE  /\ delegate' = <<h, "connect">> => updateRequestHandler'[h] /\ ~Sent(h)'
               /\ delegate' = <<h, "connection">> => Sent(h)'
               /\ updateRequestHandler'[h]
                     => Sent(h)' \/ Gone(h)' \/ delegate' = <<h, "connect">>
    BY <1>4 DEF DelegateStep
  <2>5. ASSUME NEW h \in Handlers, requests'[h] # <<>>
        PROVE  updateRequestHandler'[h]
    BY <2>5 DEF DelegateStep, IInv, Control, DelegateOK
  <2>6. QED
    BY <2>1, <2>2, <2>3, <2>4, <2>5 DEF DelegateOK
<1>13. QueueSent'
  <2>1. ASSUME NEW h \in Handlers, Sent(h)' \/ (at'[h] = "update" /\ ~exception'[h])
        PROVE  requests'[h] = <<>>
    BY <1>4, <2>1 DEF IInv, Control, QueueSent
  <2>2. ASSUME NEW e \in Callers, at'[e] = "direct"
        PROVE  Sent(Handler(e))'
    <3>1. CASE e = c
      BY <1>1, <1>6, <1>7, <2>2, <3>1 DEF Sent
    <3>2. CASE e # c
      <4>1. at[e] = "direct" /\ Handler(e)' = Handler(e)
        BY <1>5, <2>2, <3>2
      <4>2. Sent(Handler(e)) /\ Handler(e) \in Handlers
        BY <4>1, InCall DEF IInv, Control, QueueSent
      <4>3. QED
        BY <1>4, <4>1, <4>2 DEF Sent
    <3>3. QED
      BY <3>1, <3>2
  <2>3. QED
    BY <2>1, <2>2 DEF QueueSent
<1>14. QED
  BY <1>9, <1>10, <1>11, <1>12, <1>13 DEF Control

\* A caller goes from one place of its call to another, with or without an exception.
LEMMA MoveKept ==
    ASSUME IInv, NEW c \in Callers, at[c] \in {"connect", "invoke", "marshal", "direct"},
           NEW place \in {"marshal", "direct", "failed"}, Goes(c, place),
           UNCHANGED <<initialized, flushing, exception, connection, requests,
                       updateRequestHandler, proxyVars, workItems, wire, failures,
                       script, call, via>>,
           place = "marshal" => at[c] = "invoke",
           place = "direct" => initialized[Handler(c)],
           batchRequestInProgress' \in [Handlers -> BOOLEAN],
           waiting' \in [Handlers -> SUBSET Threads], broken' \subseteq Connections
    PROVE  IInv'
<1>1. UNCHANGED <<delegate, dropped, call, via, script, exception, updateRequestHandler>>
  BY DEF proxyVars
<1>2. \A t \in Threads : at'[t] = IF t = c THEN place ELSE at[t]
  BY DEF IInv, TypeOK, Goes
<1>3. History'
  <2>1. \A e \in Callers : at[e] = "idle" => at'[e] = "idle"
    BY <1>2 DEF Threads
  <2>2. QED
    BY <1>1, <2>1, HistorySame DEF IInv, Control, GoneStays, HandlerOf
<1>4. TypeOK'
  BY DEF IInv, TypeOK, Goes, Places, Threads, proxyVars
<1>5. Control'
  <2> DEFINE d == via[Current(c)]
  <2>1. Current(c) \in Requests /\ d \in Delegates /\ Handler(c) = d[1]
    BY InCall DEF IInv, Control, Handler, HandlerOf
  <2>2. via' = [via EXCEPT ![Current(c)] = d]
    BY <1>1, <2>1 DEF IInv, TypeOK
  <2>3. call[c] \in 1..Len(script[c])
    BY DEF IInv, Control, PlacesOK
  <2>4. DelegateStep
    BY <1>1, DelegateSame
  <2>5. place = "marshal" => updateRequestHandler'[d[1]]
    BY <1>1, <2>1 DEF IInv, Control, DelegateOK
  <2>6. place = "direct" => Sent(d[1])
    BY <2>1 DEF Sent
  <2>7. place \in CallerPlaces /\ place \notin {"idle", "connect", "invoke"}
    BY DEF CallerPlaces
  <2> HIDE DEF d
  <2>8. QED
    BY <1>1, <2>1, <2>2, <2>3, <2>4, <2>5, <2>6, <2>7, CallerControl
<1>6. QED
  BY <1>3, <1>4, <1>5 DEF IInv

\* The end of a call that looks at _initialized.
LEMMA EndsInInitializedKept ==
    ASSUME IInv, NEW c \in Callers, at[c] \in {"invoke", "marshal"}, EndsInInitialized(c)
    PROVE  IInv'
<1>1. Handler(c) \in Handlers
  BY InCall DEF IInv, Control
<1>2. CASE MustWait(Handler(c)) /\ Wait(c, Handler(c))
  BY <1>1, <1>2, WaitKept DEF Threads
<1>3. CASE /\ Throws(Handler(c)) /\ Fail(c)
           /\ UNCHANGED <<handlerVars, proxyVars, waiting, fateVars>>
  BY <1>3, MoveKept DEF Fail, handlerVars, fateVars, IInv, TypeOK
<1>4. CASE /\ initialized[Handler(c)] /\ Goes(c, "direct")
           /\ UNCHANGED <<handlerVars, proxyVars, waiting, script, call, via, fateVars>>
  BY <1>4, MoveKept DEF handlerVars, fateVars, IInv, TypeOK
<1>5. QED
  BY <1>2, <1>3, <1>4 DEF EndsInInitialized

\* Proxy::__getDelegate(): the call gets a delegate, and its handler.
LEMMA InvokeKept ==
    ASSUME IInv, NEW c \in Callers, Invoke(c)
    PROVE  IInv'
<1>1. /\ at[c] = "idle" /\ ProxyFree
      /\ UNCHANGED <<handlerVars, delegate, dropped, waiting, script, call, fateVars>>
  BY DEF Invoke
<1>2. call[c] \in 1..Len(script[c])
  <2>1. script[c] \in Seq({"async", "sync", "batch"})
    BY ScriptsAssumption DEF IInv, TypeOK
  <2>2. QED
    BY <2>1 DEF Invoke
<1>3. /\ Current(c) \in Requests /\ Current(c)[1] = c /\ Current(c)[2] = call[c]
      /\ call[c] \in Nat
  BY <1>2, CurrentRequest DEF IInv, Control
<1>4. PICK d \in Delegates, place \in {"connect", "invoke", "direct"} :
         /\ via' = [via EXCEPT ![Current(c)] = d] /\ Goes(c, place)
         /\ creator' \in [Handlers -> Callers \cup {None}]
         /\ \/ delegate = None /\ place = "connect"
            \/ /\ delegate = d
               /\ place = IF d[2] = "connect" THEN "invoke" ELSE "direct"
  <2>1. CASE delegate = None
    <3>1. PICK h \in Handlers : /\ creator' = [creator EXCEPT ![h] = c]
                                /\ via' = [via EXCEPT ![Current(c)] = <<h, "connect">>]
      BY <2>1 DEF Invoke
    <3>2. creator' \in [Handlers -> Callers \cup {None}]
      BY <3>1 DEF IInv, TypeOK
    <3>3. <<h, "connect">> \in Delegates /\ Goes(c, "connect")
      BY <2>1, DelegateOf DEF Invoke
    <3>4. QED
      BY <2>1, <3>1, <3>2, <3>3
  <2>2. CASE delegate # None
    <3>1. delegate \in Delegates /\ creator' \in [Handlers -> Callers \cup {None}]
      BY <2>2 DEF IInv, TypeOK, Invoke
    <3>2. /\ via' = [via EXCEPT ![Current(c)] = delegate]
          /\ Goes(c, IF delegate[2] = "connect" THEN "invoke" ELSE "direct")
      BY <2>2 DEF Invoke
    <3>3. QED
      BY <3>1, <3>2
  <2>3. QED
    BY <2>1, <2>2
<1>5. d[1] \in Handlers /\ d[2] \in {"connect", "connection"} /\ d = <<d[1], d[2]>> /\ d # None
  BY DelegateParts
<1>6. /\ \A r \in Requests : via'[r] = IF r = Current(c) THEN d ELSE via[r]
      /\ \A t \in Threads : at'[t] = IF t = c THEN place ELSE at[t]
      /\ Callers \subseteq Threads /\ Handlers \subseteq Threads /\ c \notin Handlers
  BY <1>3, <1>4, CallersAssumption DEF IInv, TypeOK, Goes, Threads
<1>7. /\ \A r \in Requests : r[2] < call[r[1]] => via'[r] = via[r]
      /\ \A e \in Callers : at[e] # "idle" => via'[Current(e)] = via[Current(e)]
  <2>1. ASSUME NEW e \in Callers, at[e] # "idle"
        PROVE  Current(e) \in Requests /\ Current(e) # Current(c)
    BY <1>1, <2>1, InCall DEF IInv, Control, Current
  <2>2. QED
    BY <1>3, <1>6, <2>1
<1>8. TypeOK'
  <2>1. via' \in [Requests -> Delegates \cup {None}] /\ at' \in [Threads -> Places]
    BY <1>3, <1>4 DEF IInv, TypeOK, Goes, Places
  <2>2. QED
    BY <1>1, <1>4, <2>1 DEF IInv, TypeOK, handlerVars, fateVars
<1>9. Control'
  <2>1. UNCHANGED <<initialized, flushing, exception, connection, requests,
                    updateRequestHandler, script, delegate, dropped, call>>
    BY <1>1 DEF handlerVars
  <2>2. DelegateStep
    BY <2>1, DelegateSame
  <2>3. place = "invoke" => updateRequestHandler'[d[1]]
    BY <1>4, <1>5, <2>1 DEF IInv, Control, DelegateOK
  <2>4. place = "direct" => Sent(d[1])
    BY <1>4, <1>5 DEF IInv, Control, DelegateOK
  <2>5. place = "connect" => delegate' = None
    BY <1>4, <1>5, <2>1
  <2>6. \A e \in Callers : at[e] # "connect"
    BY <1>1 DEF ProxyFree
  <2>7. place \in CallerPlaces /\ place \notin {"idle", "marshal"}
    BY DEF CallerPlaces
  <2>8. QED
    BY <1>2, <1>4, <2>1, <2>2, <2>3, <2>4, <2>5, <2>6, <2>7, CallerControl
<1>10. History'
  <2>1. \A r \in Requests : r[2] < call[r[1]] => HandlerOf(r)' = HandlerOf(r)
    BY <1>7 DEF HandlerOf
  <2>2. UNCHANGED <<requests, wire, failures, call, exception, dropped>>
    BY <1>1 DEF handlerVars, fateVars
  <2>3. Balanced'
    BY <2>1, <2>2 DEF IInv, History, Balanced, Occurrences
  <2>4. /\ \A i \in 1..Len(wire) : wire[i] \in Requests /\ wire[i][2] < call[wire[i][1]]
        /\ \A h \in Handlers : \A i \in 1..Len(requests[h]) :
              requests[h][i] \in Requests /\ requests[h][i][2] < call[requests[h][i][1]]
    BY Held DEF IInv, History, Made
  <2>5. Made'
    BY <2>1, <2>2, <2>4 DEF IInv, History, Made
  <2>6. \A h \in Handlers : Gone(h)' = Gone(h)
    BY <2>2 DEF Gone
  <2>7. \A e \in Callers, h \in Handlers : \A j \in 1..Len(requests[h]) :
           at'[e] # "idle" /\ requests[h][j][1] = e => Handler(e)' = h \/ Gone(h)
    <3> SUFFICES ASSUME NEW e \in Callers, NEW h \in Handlers, NEW j \in 1..Len(requests[h]),
                        at'[e] # "idle", requests[h][j][1] = e, ~Gone(h)
                 PROVE  Handler(e)' = h
      OBVIOUS
    <3>1. CASE e = c
      <4>1. requests[h] # <<>>
        <5>1. Len(<<>>) = 0
          OBVIOUS
        <5>2. QED
          BY <5>1
      <4>2. delegate = <<h, "connect">>
        BY <4>1 DEF IInv, Control, DelegateOK, QueueSent
      <4>3. d = <<h, "connect">>
        BY <1>4, <4>2, DelegateOf
      <4>4. Handler(c)' = d[1]
        BY <1>1, <1>3, <1>6 DEF Handler, HandlerOf, Current
      <4>5. QED
        BY <3>1, <4>3, <4>4
    <3>2. CASE e # c
      <4>1. at[e] # "idle" /\ Handler(e)' = Handler(e)
        BY <1>1, <1>6, <1>7, <3>2 DEF Handler, HandlerOf, Current
      <4>2. QED
        BY <4>1 DEF IInv, History, QueueInOrder
    <3>3. QED
      BY <3>1, <3>2
  <2>8. (\A e \in Callers, h \in Handlers : \A j \in 1..Len(requests[h]) :
            at[e] # "idle" /\ requests[h][j][1] = e => Handler(e) = h \/ Gone(h))'
    BY <2>2, <2>6, <2>7
  <2>9. (\A i, j \in 1..Len(wire) :
            i < j /\ wire[i][1] = wire[j][1]
            => wire[i][2] < wire[j][2] \/ HandlerOf(wire[j]) \in dropped)'
    BY <2>1, <2>2, <2>4 DEF IInv, History, QueueInOrder
  <2>10. (\A h \in Handlers : \A i, j \in 1..Len(requests[h]) :
             i < j /\ requests[h][i][1] = requests[h][j][1]
             => requests[h][i][2] < requests[h][j][2])'
    BY <2>2 DEF IInv, History, QueueInOrder
  <2>11. (\A h \in Handlers : \A i \in 1..Len(wire), j \in 1..Len(requests[h]) :
             wire[i][1] = requests[h][j][1] => wire[i][2] < requests[h][j][2] \/ Gone(h))'
    <3>1. \A h \in Handlers : \A i \in 1..Len(wire), j \in 1..Len(requests[h]) :
             wire[i][1] = requests[h][j][1] => wire[i][2] < requests[h][j][2] \/ Gone(h)
      BY DEF IInv, History, QueueInOrder
    <3>2. QED
      BY <2>2, <2>6, <3>1
  <2>12. (\A g, h \in Handlers : \A i \in 1..Len(requests[g]), j \in 1..Len(requests[h]) :
             g # h /\ requests[g][i][1] = requests[h][j][1]
             => requests[g][i][2] < requests[h][j][2] \/ Gone(h))'
    <3>1. \A g, h \in Handlers : \A i \in 1..Len(requests[g]), j \in 1..Len(requests[h]) :
             g # h /\ requests[g][i][1] = requests[h][j][1]
             => requests[g][i][2] < requests[h][j][2] \/ Gone(h)
      BY DEF IInv, History, QueueInOrder
    <3>2. QED
      BY <2>2, <2>6, <3>1
  <2>13. QueueInOrder'
    BY <2>8, <2>9, <2>10, <2>11, <2>12 DEF QueueInOrder
  <2>14. QED
    BY <2>3, <2>5, <2>13 DEF History
<1>11. QED
  BY <1>8, <1>9, <1>10 DEF IInv

\* Proxy::__getDelegate() after getConnection(): the delegate of the call.
LEMMA ConnectKept ==
    ASSUME IInv, NEW c \in Callers, Connect(c)
    PROVE  IInv'
<1> DEFINE h == Handler(c)
<1>1. /\ at[c] = "connect" /\ delegate = None
      /\ \A e \in Callers : e # c => at[e] # "connect"
  BY DEF Connect, ConnectUnless, Runs, IInv, Control, DelegateOK
<1>2. /\ h \in Handlers /\ Current(c) \in Requests /\ via[Current(c)] \in Delegates
      /\ h = via[Current(c)][1] /\ call[c] \in 1..Len(script[c])
  BY <1>1, InCall DEF IInv, Control, PlacesOK, Handler, HandlerOf
<1>3. \A g \in Handlers : delegate # <<g, "connect">> /\ delegate # <<g, "connection">>
  BY <1>1, DelegateOf
<1> HIDE DEF h
<1>4. CASE MustWait(h) /\ Wait(c, h)
  BY <1>2, <1>4, WaitKept DEF Threads
<1>5. CASE /\ Throws(h) /\ Fail(c)
           /\ UNCHANGED <<handlerVars, proxyVars, waiting, fateVars>>
  BY <1>1, <1>5, MoveKept DEF Fail, handlerVars, fateVars, IInv, TypeOK
<1>6. CASE /\ initialized[h] /\ delegate' = <<h, "connection">>
           /\ via' = [via EXCEPT ![Current(c)] = <<h, "connection">>]
           /\ Goes(c, "direct")
           /\ UNCHANGED <<handlerVars, creator, dropped, waiting, script, call, fateVars>>
  <2>1. UNCHANGED <<initialized, flushing, exception, connection, requests,
                    updateRequestHandler, script, dropped, call, wire, failures>>
    BY <1>6 DEF handlerVars, fateVars
  <2>2. /\ <<h, "connection">> \in Delegates /\ <<h, "connection">>[1] = h
        /\ \A g \in Handlers : <<h, "connection">> # <<g, "connect">>
                               /\ (<<h, "connection">> = <<g, "connection">> => g = h)
    BY <1>2, DelegateOf
  <2>3. \A r \in Requests : HandlerOf(r)' = HandlerOf(r)
    BY <1>2, <1>6, <2>2 DEF HandlerOf, IInv, TypeOK
  <2>4. \A e \in Callers : at[e] = "idle" => at'[e] = "idle"
    BY <1>1, <1>6 DEF Goes, IInv, TypeOK, Threads
  <2>5. History'
    BY <2>1, <2>3, <2>4, HistorySame DEF IInv, Control, GoneStays
  <2>6. TypeOK'
    BY <1>6, <2>2 DEF IInv, TypeOK, Goes, Places, Threads, handlerVars, fateVars
  <2>7. DelegateStep
    BY <1>3, <1>6, <2>1, <2>2 DEF IInv, Control, DelegateOK, DelegateStep, Sent, Gone
  <2>8. Control'
    BY <1>1, <1>2, <1>6, <2>1, <2>2, <2>7, CallerControl DEF CallerPlaces, Sent
  <2>9. QED
    BY <2>5, <2>6, <2>8 DEF IInv
<1>7. CASE /\ NotYet(h)
           /\ updateRequestHandler' = [updateRequestHandler EXCEPT ![h] = TRUE]
           /\ delegate' = <<h, "connect">>
           /\ Goes(c, "invoke")
           /\ UNCHANGED <<initialized, flushing, exception, connection, batchRequestInProgress,
                          requests, creator, dropped, waiting, script, call, via, fateVars>>
  <2>1. UNCHANGED <<wire, failures, workItems, broken>>
    BY <1>7 DEF fateVars
  <2>2. /\ <<h, "connect">> \in Delegates /\ <<h, "connect">>[1] = h
        /\ \A g \in Handlers : <<h, "connect">> # <<g, "connection">>
                               /\ (<<h, "connect">> = <<g, "connect">> => g = h)
    BY <1>2, DelegateOf
  <2>3. \A e \in Callers : at[e] = "idle" => at'[e] = "idle"
    BY <1>1, <1>7 DEF Goes, IInv, TypeOK, Threads
  <2>4. History'
    BY <1>7, <2>1, <2>3, HistorySame DEF IInv, Control, GoneStays, HandlerOf
  <2>5. TypeOK'
    <3>1. /\ delegate' \in Delegates \cup {None} /\ at' \in [Threads -> Places]
          /\ updateRequestHandler' \in [Handlers -> BOOLEAN]
      BY <1>7, <2>2 DEF IInv, TypeOK, Goes, Places
    <3>2. QED
      BY <1>7, <2>1, <3>1 DEF IInv, TypeOK
  <2>6. ~Sent(h)
    BY <1>2, <1>7 DEF NotYet, Sent, IInv, Control, FlagsOK
  <2>7. \A g \in Handlers : updateRequestHandler'[g] <=> g = h \/ updateRequestHandler[g]
    BY <1>2, <1>7 DEF IInv, TypeOK
  <2>8. DelegateStep
    BY <1>3, <1>7, <2>2, <2>6, <2>7 DEF IInv, Control, DelegateOK, DelegateStep, Gone
  <2>9. via' = [via EXCEPT ![Current(c)] = via[Current(c)]]
    BY <1>2, <1>7 DEF IInv, TypeOK
  <2>10. updateRequestHandler'[via[Current(c)][1]]
    BY <1>2, <2>7
  <2>11. Control'
    BY <1>1, <1>2, <1>7, <2>8, <2>9, <2>10, CallerControl DEF CallerPlaces
  <2>12. QED
    BY <2>4, <2>5, <2>11 DEF IInv
<1>8. QED
  BY <1>4, <1>5, <1>6, <1>7 DEF Connect, ConnectUnless, h

\* A request is queued, by a call that has or gives back the batch stream or does without.
LEMMA QueueKept ==
    ASSUME IInv, NEW c \in Callers, at[c] \in {"invoke", "marshal"}, NotYet(Handler(c)),
           requests' = [requests EXCEPT ![Handler(c)] = Append(@, Current(c))], Return(c),
           UNCHANGED <<initialized, flushing, exception, connection, updateRequestHandler,
                       proxyVars, fateVars>>,
           batchRequestInProgress' \in [Handlers -> BOOLEAN],
           waiting' \in [Handlers -> SUBSET Threads]
    PROVE  IInv'
<1>1. /\ Handler(c) \in Handlers /\ Current(c) \in Requests /\ via[Current(c)] \in Delegates
      /\ Handler(c) = via[Current(c)][1] /\ call[c] \in 1..Len(script[c])
  BY InCall DEF IInv, Control, PlacesOK, Handler, HandlerOf
<1>2. UNCHANGED <<delegate, dropped, creator, wire, failures, workItems, broken, script, via>>
  BY DEF proxyVars, fateVars, Return
<1>3. History'
  BY <1>2, HistoryQueued DEF IInv, Control
<1>4. TypeOK'
  <2>1. at' \in [Threads -> Places]
    BY DEF IInv, TypeOK, Return, Goes, Places
  <2>2. call' \in [Callers -> Nat]
    BY DEF IInv, TypeOK, Return
  <2>3. Append(requests[Handler(c)], Current(c)) \in Seq(Requests)
    BY <1>1 DEF IInv, TypeOK
  <2>4. requests' \in [Handlers -> Seq(Requests)]
    BY <1>1, <2>3 DEF IInv, TypeOK
  <2>5. QED
    BY <1>2, <2>1, <2>2, <2>4 DEF IInv, TypeOK
<1>5. ~Sent(Handler(c)) /\ at[Handler(c)] # "update" /\ updateRequestHandler[Handler(c)]
  BY <1>1 DEF IInv, Control, FlagsOK, DelegateOK, NotYet, Sent
<1>6. \A h \in Handlers : requests'[h] = requests[h]
                          \/ (updateRequestHandler[h] /\ ~Sent(h) /\ at[h] # "update")
  BY <1>1, <1>5 DEF IInv, TypeOK
<1>7. via' = [via EXCEPT ![Current(c)] = via[Current(c)]]
  BY <1>1, <1>2 DEF IInv, TypeOK
<1>8. DelegateStep
  BY <1>2, DelegateSame
<1>9. Control'
  BY <1>1, <1>2, <1>6, <1>7, <1>8, CallerControl DEF CallerPlaces, Return
<1>10. QED
  BY <1>3, <1>4, <1>9 DEF IInv

\* sendAsyncRequest().
LEMMA SendAsyncRequestKept ==
    ASSUME IInv, NEW c \in Callers, SendAsyncRequest(c)
    PROVE  IInv'
<1>1. at[c] = "invoke"
  BY DEF SendAsyncRequest, Calls, Runs
<1>2. CASE EndsInInitialized(c)
  BY <1>1, <1>2, EndsInInitializedKept
<1>3. CASE ~EndsInInitialized(c)
  BY <1>1, <1>3, QueueKept DEF SendAsyncRequest, IInv, TypeOK
<1>4. QED
  BY <1>2, <1>3

\* sendRequest().
LEMMA SendRequestKept ==
    ASSUME IInv, NEW c \in Callers, SendRequest(c)
    PROVE  IInv'
<1>1. at[c] = "invoke" /\ Handler(c) \in Handlers
  BY InCall DEF SendRequest, SendRequestWhen, Calls, Runs, IInv, Control
<1>2. CASE Wait(c, Handler(c))
  BY <1>1, <1>2, WaitKept DEF Threads
<1>3. CASE /\ exception[Handler(c)] /\ Fail(c)
           /\ UNCHANGED <<handlerVars, proxyVars, waiting, fateVars>>
  BY <1>1, <1>3, MoveKept DEF Fail, handlerVars, fateVars, IInv, TypeOK
<1>4. CASE /\ initialized[Handler(c)] /\ Goes(c, "direct")
           /\ UNCHANGED <<handlerVars, proxyVars, waiting, script, call, via, fateVars>>
  BY <1>1, <1>4, EndsInInitializedKept DEF EndsInInitialized
<1>5. QED
  BY <1>2, <1>3, <1>4 DEF SendRequest, SendRequestWhen

\* prepareBatchRequest().
LEMMA PrepareBatchRequestKept ==
    ASSUME IInv, NEW c \in Callers, PrepareBatchRequest(c)
    PROVE  IInv'
<1>1. at[c] = "invoke" /\ Handler(c) \in Handlers
  BY InCall DEF PrepareBatchRequest, Calls, Runs, IInv, Control
<1>2. CASE Wait(c, Handler(c))
  BY <1>1, <1>2, WaitKept DEF Threads
<1>3. CASE EndsInInitialized(c)
  BY <1>1, <1>3, EndsInInitializedKept
<1>4. CASE /\ batchRequestInProgress' = [batchRequestInProgress EXCEPT ![Handler(c)] = TRUE]
           /\ Goes(c, "marshal")
           /\ UNCHANGED <<initialized, flushing, exception, connection, requests,
                          updateRequestHandler, proxyVars, waiting, script, call, via,
                          fateVars>>
  <2>1. /\ UNCHANGED <<wire, failures, workItems, broken>>
        /\ batchRequestInProgress' \in [Handlers -> BOOLEAN]
        /\ waiting' \in [Handlers -> SUBSET Threads] /\ broken' \subseteq Connections
    BY <1>4 DEF fateVars, IInv, TypeOK
  <2>2. QED
    BY <1>1, <1>4, <2>1, MoveKept
<1>5. QED
  BY <1>2, <1>3, <1>4 DEF PrepareBatchRequest

\* finishBatchRequest().
LEMMA FinishBatchRequestKept ==
    ASSUME IInv, NEW c \in Callers, FinishBatchRequest(c)
    PROVE  IInv'
<1>1. at[c] = "marshal"
  BY DEF FinishBatchRequest, FinishBatch, Calls, Runs
<1>2. CASE EndsInInitialized(c)
  BY <1>1, <1>2, EndsInInitializedKept
<1>3. CASE ~EndsInInitialized(c)
  <2>1. /\ batchRequestInProgress' \in [Handlers -> BOOLEAN]
        /\ waiting' \in [Handlers -> SUBSET Threads]
    <3>1. /\ batchRequestInProgress'
                = [batchRequestInProgress EXCEPT ![Handler(c)] = FALSE]
          /\ waiting' = [waiting EXCEPT ![Handler(c)] = @ \ Threads]
      BY <1>3 DEF FinishBatchRequest, FinishBatch
    <3>2. QED
      BY <3>1 DEF IInv, TypeOK
  <2>2. QED
    BY <1>1, <1>3, <2>1, QueueKept DEF FinishBatchRequest, FinishBatch
<1>4. QED
  BY <1>2, <1>3

\* abortBatchRequest().
LEMMA AbortBatchRequestKept ==
    ASSUME IInv, NEW c \in Callers, AbortBatchRequest(c)
    PROVE  IInv'
<1>1. at[c] = "marshal"
  BY DEF AbortBatchRequest, Calls, Runs
<1>2. CASE EndsInInitialized(c)
  BY <1>1, <1>2, EndsInInitializedKept
<1>3. CASE ~EndsInInitialized(c)
  <2>1. /\ UNCHANGED <<initialized, flushing, exception, connection, requests,
                       updateRequestHandler, proxyVars, wire, failures, workItems, broken>>
        /\ Goes(c, "failed") /\ UNCHANGED <<script, call, via>>
    BY <1>3 DEF AbortBatchRequest, fateVars, Fail
  <2>2. /\ batchRequestInProgress' \in [Handlers -> BOOLEAN]
        /\ waiting' \in [Handlers -> SUBSET Threads] /\ broken' \subseteq Connections
    BY <1>3, <2>1 DEF AbortBatchRequest, NotifyAll, IInv, TypeOK
  <2>3. QED
    BY <1>1, <2>1, <2>2, MoveKept
<1>4. QED
  BY <1>2, <1>3

\* A call on the connection, outside of the handler.
LEMMA CallConnectionKept ==
    ASSUME IInv, NEW c \in Callers, CallConnection(c)
    PROVE  IInv'
<1>1. at[c] = "direct" /\ UNCHANGED <<handlerVars, proxyVars, waiting, workItems, failures>>
  BY DEF CallConnection
<1>2. /\ Handler(c) \in Handlers /\ Current(c) \in Requests /\ via[Current(c)] \in Delegates
      /\ Handler(c) = via[Current(c)][1] /\ call[c] \in 1..Len(script[c])
  BY <1>1, InCall DEF IInv, Control, PlacesOK, Handler, HandlerOf
<1>3. Sent(Handler(c)) /\ requests[Handler(c)] = <<>>
  BY <1>1, <1>2 DEF IInv, Control, QueueSent
<1>4. CASE /\ broken' = broken \cup {connection[Handler(c)]} /\ Fail(c) /\ UNCHANGED wire
  <2>1. connection[Handler(c)] \in Connections
    BY <1>2, <1>3 DEF Sent, IInv, Control, FlagsOK
  <2>2. broken' \subseteq Connections
    BY <1>4, <2>1 DEF IInv, TypeOK
  <2>3. QED
    BY <1>1, <1>4, <2>2, MoveKept DEF Fail, handlerVars, IInv, TypeOK
<1>5. CASE wire' = Append(wire, Current(c)) /\ Return(c) /\ UNCHANGED broken
  <2>1. UNCHANGED <<initialized, flushing, exception, connection, requests, delegate,
                    updateRequestHandler, dropped, creator, script, via>>
    BY <1>1, <1>5 DEF handlerVars, proxyVars, Return
  <2>2. History'
    BY <1>1, <1>3, <1>5, <2>1, HistoryWired DEF IInv, Control
  <2>3. TypeOK'
    BY <1>1, <1>2, <1>5, <2>1 DEF IInv, TypeOK, Return, Goes, Places, Threads, handlerVars
  <2>4. via' = [via EXCEPT ![Current(c)] = via[Current(c)]] /\ DelegateStep
    BY <1>2, <2>1, DelegateSame DEF IInv, TypeOK
  <2>5. Control'
    BY <1>1, <1>2, <1>5, <2>1, <2>4, CallerControl DEF CallerPlaces, Return
  <2>6. QED
    BY <2>2, <2>3, <2>5 DEF IInv
<1>6. QED
  BY <1>4, <1>5 DEF CallConnection

\* Proxy::__handleException(), for the exception of a call.
LEMMA HandleExceptionKept ==
    ASSUME IInv, NEW c \in Callers, HandleException(c)
    PROVE  IInv'
<1>1. /\ at[c] = "failed" /\ Reset(via[Current(c)]) /\ Return(c)
      /\ failures' = [failures EXCEPT ![Current(c)] = @ + 1]
      /\ UNCHANGED <<initialized, flushing, exception, connection, requests,
                     batchRequestInProgress, updateRequestHandler, waiting, workItems, broken,
                     wire, script, via>>
  BY DEF HandleException, handlerVars, Return
<1>2. /\ Current(c) \in Requests /\ via[Current(c)] \in Delegates
      /\ call[c] \in 1..Len(script[c])
  BY <1>1, InCall DEF IInv, Control, PlacesOK
<1>3. /\ DelegateStep /\ dropped \subseteq dropped' /\ dropped' \subseteq Handlers
      /\ delegate' \in {None, delegate} /\ creator' = creator
      /\ \A e \in Callers : at[e] # "connect"
  BY <1>1, ResetStep
<1>4. History'
  BY <1>1, <1>3, HistoryFailed DEF IInv, Control, GoneStays
<1>5. TypeOK'
  BY <1>1, <1>2, <1>3 DEF IInv, TypeOK, Return, Goes, Places, Threads
<1>6. via' = [via EXCEPT ![Current(c)] = via[Current(c)]]
  BY <1>1, <1>2 DEF IInv, TypeOK
<1>7. Control'
  BY <1>1, <1>2, <1>3, <1>6, CallerControl DEF CallerPlaces, Return
<1>8. QED
  BY <1>4, <1>5, <1>7 DEF IInv

\* The control part of the invariant after a step of the thread that brings h its answer.
LEMMA AnswerControl ==
    ASSUME IInv, NEW h \in Handlers, NEW place \in AnswerPlaces, Goes(h, place),
           UNCHANGED <<updateRequestHandler, script, call, via, dropped>>,
           \A g \in Handlers : g # h =>
              /\ initialized'[g] = initialized[g] /\ exception'[g] = exception[g]
              /\ requests'[g] = requests[g],
           FlagsOK', exception[h] => exception'[h], requests[h] = <<>> => requests'[h] = <<>>,
           Sent(h) => initialized'[h] \/ (place = "finish" /\ ~exception'[h]),
           delegate' = delegate \/ (delegate = <<h, "connect">> /\ delegate' = <<h, "connection">>
                                    /\ \A c \in Callers : at[c] # "connect"),
           initialized'[h] \/ (place = "finish" /\ ~exception'[h])
              => requests'[h] = <<>> /\ delegate' # <<h, "connect">>,
           delegate' # delegate => initialized'[h] \/ (place = "finish" /\ ~exception'[h]),
           place = "update" /\ ~exception'[h] => requests'[h] = <<>>
    PROVE  Control'
<1>1. /\ \A t \in Threads : at'[t] = IF t = h THEN place ELSE at[t]
      /\ Callers \subseteq Threads /\ Handlers \subseteq Threads /\ h \notin Callers
  BY CallersAssumption DEF IInv, TypeOK, Goes, Threads
<1>2. \A c \in Callers : at'[c] = at[c]
  BY <1>1
<1>3. \A c : Current(c)' = Current(c) /\ Handler(c)' = Handler(c)
  BY DEF Current, Handler, HandlerOf
<1>4. \A g \in Handlers : /\ g # h => at'[g] = at[g] /\ (Sent(g)' <=> Sent(g))
                           /\ (Sent(g) => Sent(g)') /\ (Gone(g) => Gone(g)')
  BY <1>1 DEF Sent, Gone
<1>5. Sent(h)' <=> initialized'[h] \/ (place = "finish" /\ ~exception'[h])
  BY <1>1 DEF Sent
<1>6. at'[h] = place
  BY <1>1
<1>7. PlacesOK'
  BY <1>2, <1>4, <1>6 DEF IInv, Control, PlacesOK
<1>8. ViaOK'
  BY <1>2, <1>3 DEF IInv, Control, ViaOK
<1>9. DelegateOK'
  <2>1. (\A c \in Callers : at[c] = "connect" => delegate = None)'
    BY <1>2 DEF IInv, Control, DelegateOK
  <2>2. (\A c, d \in Callers : at[c] = "connect" /\ at[d] = "connect" => c = d)'
    BY <1>2 DEF IInv, Control, DelegateOK
  <2>3. (\A c \in Callers : at[c] \in {"invoke", "marshal"} => updateRequestHandler[Handler(c)])'
    BY <1>2, <1>3 DEF IInv, Control, DelegateOK
  <2>4. ASSUME NEW g \in Handlers
        PROVE  /\ delegate' = <<g, "connect">> => updateRequestHandler'[g] /\ ~Sent(g)'
               /\ delegate' = <<g, "connection">> => Sent(g)'
               /\ updateRequestHandler'[g]
                     => Sent(g)' \/ Gone(g)' \/ delegate' = <<g, "connect">>
               /\ requests'[g] # <<>> => updateRequestHandler'[g]
    <3>1. CASE g = h
      <4>1. <<h, "connection">> # <<h, "connect">>
        OBVIOUS
      <4>2. /\ delegate = <<h, "connect">> => updateRequestHandler[h] /\ ~Sent(h)
            /\ delegate = <<h, "connection">> => Sent(h)
            /\ updateRequestHandler[h] => Sent(h) \/ Gone(h) \/ delegate = <<h, "connect">>
            /\ requests[h] # <<>> => updateRequestHandler[h]
        BY DEF IInv, Control, DelegateOK
      <4>3. delegate' # delegate => Sent(h)'
        BY <1>5
      <4>4. Sent(h)' => delegate' # <<h, "connect">>
        BY <1>5
      <4>5. delegate' = delegate \/ delegate' = <<h, "connection">>
        OBVIOUS
      <4>6. (Sent(h) => Sent(h)') /\ (Gone(h) => Gone(h)')
        BY <1>1 DEF Sent, Gone
      <4>7. updateRequestHandler' = updateRequestHandler
        OBVIOUS
      <4>8. delegate' = <<h, "connect">> => updateRequestHandler'[h] /\ ~Sent(h)'
        BY <4>1, <4>2, <4>4, <4>5, <4>7
      <4>9. delegate' = <<h, "connection">> => Sent(h)'
        BY <4>2, <4>3, <4>6
      <4>10. updateRequestHandler'[h] => Sent(h)' \/ Gone(h)' \/ delegate' = <<h, "connect">>
        BY <4>2, <4>3, <4>7, <4>6
      <4>11. requests'[h] # <<>> => updateRequestHandler'[h]
        BY <4>2, <4>7
      <4>12. QED
        BY <3>1, <4>8, <4>9, <4>10, <4>11 DEF Sent, Gone
    <3>2. CASE g # h
      BY <1>4, <3>2 DEF IInv, Control, DelegateOK
    <3>3. QED
      BY <3>1, <3>2
  <2>5. QED
    BY <2>1, <2>2, <2>3, <2>4 DEF DelegateOK
<1>10. QueueSent'
  <2>1. ASSUME NEW g \in Handlers, Sent(g)' \/ (at'[g] = "update" /\ ~exception'[g])
        PROVE  requests'[g] = <<>>
    BY <1>4, <1>5, <1>6, <2>1 DEF IInv, Control, QueueSent
  <2>2. ASSUME NEW c \in Callers, at'[c] = "direct"
        PROVE  Sent(Handler(c))'
    <3>1. at[c] = "direct" /\ Sent(Handler(c)) /\ Handler(c) \in Handlers
      BY <1>2, <2>2, InCall DEF IInv, Control, QueueSent
    <3>2. QED
      BY <1>1, <1>3, <1>4, <3>1 DEF Sent
  <2>3. QED
    BY <2>1, <2>2 DEF QueueSent
<1>11. QED
  BY <1>7, <1>8, <1>9, <1>10 DEF Control

\* A step of that thread that moves no request keeps the invariant.
LEMMA AnswerKept ==
    ASSUME IInv, NEW h \in Handlers, NEW place \in AnswerPlaces, Goes(h, place),
           UNCHANGED <<requests, wire, failures, call, via, script, dropped, creator,
                       batchRequestInProgress, updateRequestHandler, broken>>,
           delegate' \in {delegate, <<h, "connection">>},
           {initialized', flushing', exception'} \subseteq [Handlers -> BOOLEAN],
           connection' \in [Handlers -> Connections \cup {None}],
           workItems' \in [Handlers -> Nat], waiting' \in [Handlers -> SUBSET Threads],
           exception[h] => exception'[h],
           \A g \in Handlers : g # h => exception'[g] = exception[g],
           Control'
    PROVE  IInv'
<1>1. at' \in [Threads -> Places]
  BY DEF IInv, TypeOK, Goes, AnswerPlaces, Places
<1>2. TypeOK'
  BY <1>1, DelegateOf DEF IInv, TypeOK
<1>3. \A c \in Callers : at[c] = "idle" => at'[c] = "idle"
  BY CallersAssumption DEF Goes, IInv, TypeOK, Threads
<1>4. History'
  BY <1>3, HistorySame DEF IInv, Control, GoneStays, HandlerOf
<1>5. QED
  BY <1>2, <1>4 DEF IInv

\* The places and flags of the handlers.
LEMMA Answers ==
    ASSUME IInv, NEW h \in Handlers
    PROVE  /\ h \in Threads /\ h \notin Callers /\ at \in [Threads -> Places]
           /\ Handlers \subseteq Threads
           /\ {initialized, flushing, exception} \subseteq [Handlers -> BOOLEAN]
           /\ connection \in [Handlers -> Connections \cup {None}]
           /\ workItems \in [Handlers -> Nat] /\ waiting \in [Handlers -> SUBSET Threads]
           /\ FlagsOK /\ requests \in [Handlers -> Seq(Requests)]
BY CallersAssumption DEF IInv, TypeOK, Control, Threads

\* setConnection().
LEMMA SetConnectionKept ==
    ASSUME IInv, NEW h \in Handlers, SetConnection(h)
    PROVE  IInv'
<1>1. PICK place \in {"flush", "router"} : Goes(h, place)
  BY DEF SetConnection
<1>2. PICK k \in Connections : connection' = [connection EXCEPT ![h] = k]
  BY DEF SetConnection
<1>3. at[h] = "establish" /\ ~Sent(h)
  BY DEF SetConnection, IInv, Control, FlagsOK, Sent
<1>4. UNCHANGED <<initialized, flushing, exception, batchRequestInProgress, requests,
                  updateRequestHandler, delegate, creator, dropped, waiting, script, call, via,
                  workItems, broken, wire, failures>>
  BY DEF SetConnection, proxyVars, fateVars
<1>5. FlagsOK'
  BY <1>1, <1>2, <1>3, <1>4, Answers DEF FlagsOK, Goes
<1>6. place \in AnswerPlaces
  BY DEF AnswerPlaces
<1>7. ~initialized[h]
  BY <1>3 DEF Sent
<1>8. Control'
  BY <1>1, <1>3, <1>4, <1>5, <1>6, <1>7, AnswerControl
<1>9. QED
  BY <1>1, <1>2, <1>4, <1>6, <1>8, AnswerKept, Answers

\* addedProxy().
LEMMA AddedProxyKept ==
    ASSUME IInv, NEW h \in Handlers, AddedProxy(h)
    PROVE  IInv'
<1>1. Goes(h, "flush") /\ at[h] = "router" /\ "flush" \in AnswerPlaces
  BY DEF AddedProxy, AnswerPlaces
<1>2. UNCHANGED <<initialized, flushing, exception, connection, batchRequestInProgress,
                  requests, updateRequestHandler, delegate, creator, dropped, waiting, script,
                  call, via, workItems, broken, wire, failures>>
  BY DEF AddedProxy, handlerVars, proxyVars, fateVars
<1>3. FlagsOK'
  BY <1>1, <1>2, Answers DEF FlagsOK, Goes
<1>4. ~Sent(h) /\ ~initialized[h]
  BY <1>1 DEF IInv, Control, FlagsOK, Sent
<1>5. Control'
  BY <1>1, <1>2, <1>3, <1>4, AnswerControl
<1>6. QED
  BY <1>1, <1>2, <1>5, AnswerKept, Answers

\* setException().
LEMMA SetExceptionKept ==
    ASSUME IInv, NEW h \in Handlers, SetException(h)
    PROVE  IInv'
<1>1. Goes(h, "done") /\ at[h] \in {"establish", "router"} /\ "done" \in AnswerPlaces
  BY DEF SetException, AnswerPlaces
<1>2. /\ exception' = [exception EXCEPT ![h] = TRUE]
      /\ workItems' = [workItems EXCEPT ![h] = IF requests[h] # <<>> THEN @ + 1 ELSE @]
      /\ waiting' = [waiting EXCEPT ![h] = {}]
  BY DEF SetException, NotifyAll
<1>3. UNCHANGED <<initialized, flushing, connection, batchRequestInProgress,
                  requests, updateRequestHandler, delegate, creator, dropped, script,
                  call, via, broken, wire, failures>>
  BY DEF SetException, proxyVars
<1>4. FlagsOK'
  BY <1>1, <1>2, <1>3, Answers DEF FlagsOK, Goes
<1>5. ~Sent(h) /\ ~initialized[h] /\ exception'[h]
  BY <1>1, <1>2, Answers DEF IInv, Control, FlagsOK, Sent
<1>6. \A g \in Handlers : g # h => exception'[g] = exception[g]
  BY <1>2, Answers
<1>7. Control'
  BY <1>1, <1>3, <1>4, <1>5, <1>6, AnswerControl
<1>8. /\ exception' \in [Handlers -> BOOLEAN] /\ workItems' \in [Handlers -> Nat]
      /\ waiting' \in [Handlers -> SUBSET Threads]
  BY <1>2, Answers
<1>9. QED
  BY <1>1, <1>3, <1>5, <1>6, <1>7, <1>8, AnswerKept, Answers

\* The first section of flushRequests().
LEMMA BeginFlushKept ==
    ASSUME IInv, NEW h \in Handlers, BeginFlush(h)
    PROVE  IInv'
<1>1. CASE Wait(h, h)
  BY <1>1, WaitKept, Answers
<1>2. CASE ~Wait(h, h)
  <2>1. Goes(h, "send") /\ at[h] = "flush" /\ "send" \in AnswerPlaces
    BY <1>2 DEF BeginFlush, Runs, AnswerPlaces
  <2>2. flushing' = [flushing EXCEPT ![h] = TRUE]
    BY <1>2 DEF BeginFlush
  <2>3. UNCHANGED <<initialized, exception, connection, batchRequestInProgress,
                    requests, updateRequestHandler, delegate, creator, dropped, waiting, script,
                    call, via, workItems, broken, wire, failures>>
    BY <1>2 DEF BeginFlush, proxyVars, fateVars
  <2>4. FlagsOK' /\ flushing' \in [Handlers -> BOOLEAN]
    BY <2>1, <2>2, <2>3, Answers DEF FlagsOK, Goes
  <2>5. ~Sent(h) /\ ~initialized[h]
    BY <2>1 DEF IInv, Control, FlagsOK, Sent
  <2>6. Control'
    BY <2>1, <2>3, <2>4, <2>5, AnswerControl
  <2>7. QED
    BY <2>1, <2>3, <2>4, <2>6, AnswerKept, Answers
<1>3. QED
  BY <1>1, <1>2

\* The proxy gets the handler of the connection.
LEMMA UpdateProxyKept ==
    ASSUME IInv, NEW h \in Handlers, UpdateProxy(h)
    PROVE  IInv'
<1>1. Goes(h, "finish") /\ at[h] = "update" /\ "finish" \in AnswerPlaces
  BY DEF UpdateProxy, AnswerPlaces
<1>2. UNCHANGED <<initialized, flushing, exception, connection, batchRequestInProgress,
                  requests, updateRequestHandler, creator, dropped, waiting, script,
                  call, via, workItems, broken, wire, failures>>
  BY DEF UpdateProxy, handlerVars, fateVars
<1>3. FlagsOK'
  BY <1>1, <1>2, Answers DEF FlagsOK, Goes
<1>4. ~Sent(h) /\ ~initialized[h] /\ (~exception[h] => requests[h] = <<>>)
  BY <1>1 DEF IInv, Control, FlagsOK, QueueSent, Sent
<1>5. /\ delegate' = delegate
         \/ (/\ delegate = <<h, "connect">> /\ delegate' = <<h, "connection">>
             /\ \A c \in Callers : at[c] # "connect")
      /\ delegate' # delegate => ~exception[h]
      /\ ~exception[h] => delegate' # <<h, "connect">>
  <2>1. delegate = <<h, "connect">> => updateRequestHandler[h]
    BY DEF IInv, Control, DelegateOK
  <2>2. <<h, "connection">> # <<h, "connect">>
    OBVIOUS
  <2>3. QED
    BY <2>1, <2>2 DEF UpdateProxy, ProxyFree
<1>6. Control'
  BY <1>1, <1>2, <1>3, <1>4, <1>5, AnswerControl
<1>7. QED
  BY <1>1, <1>2, <1>5, <1>6, AnswerKept, Answers

\* The last section of flushRequests().
LEMMA FinishFlushKept ==
    ASSUME IInv, NEW h \in Handlers, FinishFlush(h)
    PROVE  IInv'
<1>1. Goes(h, "done") /\ at[h] = "finish" /\ "done" \in AnswerPlaces
  BY DEF FinishFlush, AnswerPlaces
<1>2. /\ initialized' = [initialized EXCEPT ![h] = ~exception[h]]
      /\ flushing' = [flushing EXCEPT ![h] = exception[h]]
      /\ waiting' = [waiting EXCEPT ![h] = {}]
  BY DEF FinishFlush, NotifyAll
<1>3. UNCHANGED <<exception, connection, batchRequestInProgress, delegate,
                  requests, updateRequestHandler, creator, dropped, script,
                  call, via, workItems, broken, wire, failures>>
  BY DEF FinishFlush, proxyVars, fateVars
<1>4. exception[h] \in BOOLEAN /\ (initialized'[h] <=> ~exception[h])
  BY <1>2, Answers
<1>5. /\ initialized' \in [Handlers -> BOOLEAN] /\ flushing' \in [Handlers -> BOOLEAN]
      /\ waiting' \in [Handlers -> SUBSET Threads]
      /\ \A g \in Handlers : g # h => initialized'[g] = initialized[g]
  BY <1>2, <1>4, Answers
<1>6. FlagsOK'
  BY <1>1, <1>2, <1>3, <1>4, Answers DEF FlagsOK, Goes
<1>7. /\ ~initialized[h] /\ (Sent(h) <=> ~exception[h])
      /\ ~exception[h] => requests[h] = <<>> /\ delegate # <<h, "connect">>
  BY <1>1 DEF IInv, Control, FlagsOK, QueueSent, DelegateOK, Sent
<1>8. Control'
  BY <1>1, <1>3, <1>4, <1>5, <1>6, <1>7, AnswerControl
<1>9. QED
  BY <1>1, <1>3, <1>5, <1>8, AnswerKept, Answers

\* flushRequests() sends the first request of the queue, fails, or is done with it.
LEMMA SendQueuedKept ==
    ASSUME IInv, NEW h \in Handlers, SendQueued(h)
    PROVE  IInv'
<1>1. /\ at[h] = "send"
      /\ UNCHANGED <<initialized, flushing, connection, batchRequestInProgress, delegate,
                     updateRequestHandler, creator, dropped, waiting, script, call, via,
                     failures>>
  BY DEF SendQueued, SendQueuedLeaving, proxyVars
<1>2. ~Sent(h) /\ ~initialized[h] /\ ~exception[h]
  BY <1>1 DEF IInv, Control, FlagsOK, Sent
<1>3. "update" \in AnswerPlaces /\ "send" \in AnswerPlaces
  BY DEF AnswerPlaces
<1>4. CASE /\ requests[h] # <<>> /\ wire' = Append(wire, Head(requests[h]))
           /\ requests' = [requests EXCEPT ![h] = Tail(@)]
           /\ UNCHANGED <<exception, at, workItems, broken>>
  <2>1. History'
    BY <1>1, <1>2, <1>4, HistorySent DEF IInv, Control
  <2>2. /\ Head(requests[h]) \in Requests /\ Tail(requests[h]) \in Seq(Requests)
        /\ wire \in Seq(Requests)
    BY <1>4 DEF IInv, TypeOK
  <2>3. requests' \in [Handlers -> Seq(Requests)] /\ wire' \in Seq(Requests)
    BY <1>4, <2>2, Answers
  <2>4. TypeOK'
    BY <1>1, <1>4, <2>3 DEF IInv, TypeOK
  <2>5. FlagsOK'
    BY <1>1, <1>4, Answers DEF FlagsOK
  <2>6. Goes(h, "send")
    BY <1>1, <1>4, Answers DEF Goes
  <2>7. \A g \in Handlers : g # h => requests'[g] = requests[g]
    BY <1>4, Answers
  <2>8. Control'
    BY <1>1, <1>2, <1>3, <1>4, <2>5, <2>6, <2>7, AnswerControl
  <2>9. QED
    BY <2>1, <2>4, <2>8 DEF IInv
<1>5. CASE /\ broken' = broken \cup {connection[h]}
           /\ exception' = [exception EXCEPT ![h] = TRUE]
           /\ requests' = [requests EXCEPT ![h] = requests[h]]
           /\ workItems' = [workItems EXCEPT ![h] = @ + 1] /\ Goes(h, "update")
           /\ UNCHANGED wire
  <2>1. requests' = requests /\ exception' \in [Handlers -> BOOLEAN]
    BY <1>5, Answers
  <2>2. workItems' \in [Handlers -> Nat]
    BY <1>5, Answers
  <2>3. exception'[h] /\ \A g \in Handlers : g # h => exception'[g] = exception[g]
    BY <1>5, Answers
  <2>4. connection[h] \in Connections
    BY <1>1, Answers DEF FlagsOK
  <2>5. broken' \subseteq Connections /\ at' \in [Threads -> Places]
    BY <1>5, <2>4 DEF IInv, TypeOK, Goes, Places
  <2>6. TypeOK'
    BY <1>1, <1>5, <2>1, <2>2, <2>5 DEF IInv, TypeOK
  <2>7. FlagsOK'
    BY <1>1, <1>5, <2>1, <2>3, Answers DEF FlagsOK, Goes
  <2>8. Control'
    BY <1>1, <1>2, <1>3, <1>5, <2>1, <2>3, <2>7, AnswerControl
  <2>9. \A c \in Callers : at[c] = "idle" => at'[c] = "idle"
    BY <1>5, CallersAssumption, Answers DEF Goes
  <2>10. History'
    BY <1>1, <1>5, <2>1, <2>3, <2>9, HistorySame DEF IInv, Control, GoneStays, HandlerOf
  <2>11. QED
    BY <2>6, <2>8, <2>10 DEF IInv
<1>6. CASE /\ requests[h] = <<>> /\ Goes(h, "update")
           /\ UNCHANGED <<exception, requests, workItems, broken, wire>>
  <2>1. FlagsOK'
    BY <1>1, <1>6, Answers DEF FlagsOK, Goes
  <2>2. Control'
    BY <1>1, <1>2, <1>3, <1>6, <2>1, AnswerControl
  <2>3. QED
    BY <1>1, <1>3, <1>6, <2>2, AnswerKept, Answers
<1>7. QED
  BY <1>4, <1>5, <1>6 DEF SendQueued, SendQueuedLeaving

\* No thread moves, the proxy may forget its delegate, and queues may be emptied.
LEMMA ResetControl ==
    ASSUME IInv, DelegateStep, dropped \subseteq dropped', delegate' \in {None, delegate},
           UNCHANGED <<initialized, flushing, exception, connection, updateRequestHandler,
                       at, script, call, via>>,
           \A g \in Handlers : requests'[g] \in {requests[g], <<>>}
    PROVE  Control'
<1>1. \A g \in Handlers : /\ (Sent(g)' <=> Sent(g)) /\ (Gone(g) => Gone(g)')
                           /\ (exception[g] \/ g \in dropped' => Gone(g)')
  BY DEF Sent, Gone
<1>2. \A c : Current(c)' = Current(c) /\ Handler(c)' = Handler(c)
  BY DEF Current, Handler, HandlerOf
<1>3. PlacesOK' /\ FlagsOK'
  BY DEF IInv, Control, PlacesOK, FlagsOK
<1>4. ViaOK'
  BY <1>2 DEF IInv, Control, ViaOK
<1>5. DelegateOK'
  <2>1. (\A c \in Callers : at[c] \in {"invoke", "marshal"} => updateRequestHandler[Handler(c)])'
    BY <1>2 DEF IInv, Control, DelegateOK
  <2>2. ASSUME NEW g \in Handlers
        PROVE  /\ delegate' = <<g, "connect">> => updateRequestHandler'[g] /\ ~Sent(g)'
               /\ delegate' = <<g, "connection">> => Sent(g)'
               /\ updateRequestHandler'[g]
                     => Sent(g)' \/ Gone(g)' \/ delegate' = <<g, "connect">>
               /\ requests'[g] # <<>> => updateRequestHandler'[g]
    BY <1>1 DEF IInv, Control, DelegateOK, DelegateStep
  <2>3. QED
    BY <2>1, <2>2 DEF IInv, Control, DelegateOK
<1>6. QueueSent'
  <2>1. ASSUME NEW c \in Callers, at'[c] = "direct"
        PROVE  Sent(Handler(c))'
    BY <1>2, <2>1, InCall DEF IInv, Control, QueueSent, Sent
  <2>2. ASSUME NEW g \in Handlers, Sent(g)' \/ (at'[g] = "update" /\ ~exception'[g])
        PROVE  requests'[g] = <<>>
    BY <1>1, <2>2 DEF IInv, Control, QueueSent
  <2>3. QED
    BY <2>1, <2>2 DEF QueueSent
<1>7. QED
  BY <1>3, <1>4, <1>5, <1>6 DEF Control

\* OutgoingAsync::__finished(), for a request that was sent.
LEMMA RequestFailsKept ==
    ASSUME IInv, NEW r \in Requests, RequestFails(r)
    PROVE  IInv'
<1>1. /\ Reset(via[r])
      /\ UNCHANGED <<initialized, flushing, exception, connection, batchRequestInProgress,
                     requests, updateRequestHandler, at, waiting, script, call, via,
                     workItems, broken, wire, failures>>
  BY DEF RequestFails, handlerVars, threadVars, fateVars
<1>2. /\ DelegateStep /\ dropped \subseteq dropped' /\ dropped' \subseteq Handlers
      /\ delegate' \in {None, delegate} /\ creator' = creator
  BY <1>1, ResetStep
<1>3. Control'
  BY <1>1, <1>2, ResetControl
<1>4. TypeOK'
  BY <1>1, <1>2 DEF IInv, TypeOK
<1>5. History'
  BY <1>1, <1>2, HistorySame DEF IInv, Control, GoneStays, HandlerOf
<1>6. QED
  BY <1>3, <1>4, <1>5 DEF IInv

\* flushRequestsWithException().
LEMMA FlushRequestsWithExceptionKept ==
    ASSUME IInv, NEW h \in Handlers, FlushRequestsWithException(h)
    PROVE  IInv'
<1>1. /\ workItems[h] > 0 /\ workItems' = [workItems EXCEPT ![h] = @ - 1]
      /\ failures' = [r \in Requests |->
                         IF \E i \in DOMAIN requests[h] : requests[h][i] = r
                         THEN failures[r] + 1 ELSE failures[r]]
      /\ requests' = [requests EXCEPT ![h] = <<>>]
      /\ UNCHANGED <<initialized, flushing, exception, connection, batchRequestInProgress,
                     updateRequestHandler, at, waiting, script, call, via, broken, wire>>
  BY DEF FlushRequestsWithException, threadVars
<1>2. /\ DelegateStep /\ dropped \subseteq dropped' /\ dropped' \subseteq Handlers
      /\ delegate' \in {None, delegate} /\ creator' = creator
  <2>1. CASE Reset(<<h, "connect">>)
    BY <1>1, <2>1, ResetStep
  <2>2. CASE UNCHANGED proxyVars
    BY <1>1, <2>2, DelegateSame DEF proxyVars, IInv, TypeOK
  <2>3. QED
    BY <2>1, <2>2 DEF FlushRequestsWithException
<1>3. History'
  BY <1>1, <1>2, HistoryFlushed DEF IInv, Control, GoneStays
<1>4. \A g \in Handlers : requests'[g] \in {requests[g], <<>>}
  BY <1>1, Answers
<1>5. Control'
  BY <1>1, <1>2, <1>4, ResetControl
<1>6. TypeOK'
  <2>1. workItems' \in [Handlers -> Nat] /\ failures' \in [Requests -> Nat]
    BY <1>1 DEF IInv, TypeOK
  <2>2. <<>> \in Seq(Requests)
    OBVIOUS
  <2>3. requests' \in [Handlers -> Seq(Requests)]
    BY <1>1, <2>2, Answers
  <2>4. QED
    BY <1>1, <1>2, <2>1, <2>3 DEF IInv, TypeOK
<1>7. QED
  BY <1>3, <1>5, <1>6 DEF IInv

\* Every step keeps IInv.
LEMMA NextIInv == IInv /\ [Next]_vars => IInv'
<1> SUFFICES ASSUME IInv, [Next]_vars PROVE IInv'
  OBVIOUS
<1>1. ASSUME NEW c \in Callers, Invoke(c) \/ Proceed(c)
      PROVE  IInv'
  BY <1>1, InvokeKept, ConnectKept, SendAsyncRequestKept, SendRequestKept,
     PrepareBatchRequestKept, FinishBatchRequestKept, AbortBatchRequestKept, CallConnectionKept,
     HandleExceptionKept
  DEF Proceed
<1>2. ASSUME NEW h \in Handlers, Establish(h)
      PROVE  IInv'
  BY <1>2, SetConnectionKept, AddedProxyKept, SetExceptionKept, BeginFlushKept, SendQueuedKept,
     UpdateProxyKept, FinishFlushKept
  DEF Establish
<1>3. CASE UNCHANGED vars
  <2>1. UNCHANGED <<initialized, flushing, exception, connection, batchRequestInProgress,
                    requests, updateRequestHandler, at, waiting, script, call, via, delegate,
                    creator, dropped, workItems, broken, wire, failures>>
    BY <1>3 DEF vars, handlerVars, proxyVars, threadVars, fateVars
  <2>2. History'
    BY <2>1, HistorySame DEF IInv, Control, GoneStays, HandlerOf
  <2>3. TypeOK'
    BY <2>1 DEF IInv, TypeOK
  <2>4. Control'
    BY <2>1, DelegateSame, ResetControl
  <2>5. QED
    BY <2>2, <2>3, <2>4 DEF IInv
<1>4. QED
  BY <1>1, <1>2, <1>3, RequestFailsKept, FlushRequestsWithExceptionKept DEF Next

-----------------------------------------------------------------------------
(***************************************************************************)
(* The theorems                                                            *)
(***************************************************************************)

\* The inductive invariant holds in every reachable state.
THEOREM Invariance == Spec => []IInv
<1>1. QED
  BY InitIInv, NextIInv, PTL DEF Spec

\* Every request whose call has returned is in the queue of the handler it was made
\* through, handed to a connection or ended by an exception, and only one of these and
\* once; a request whose call is under way is nowhere.
THEOREM RequestsConserved == Spec => []Conserved
<1>1. IInv => Conserved
  BY OnlyThere DEF IInv, History, Balanced, Conserved
<1>2. QED
  BY <1>1, Invariance, PTL

\* The requests of a caller are handed to connections in the order of its calls, unless
\* the later one was queued in a handler that an exception of another request has made
\* the proxy drop.
THEOREM RequestsInOrder == Spec => []InOrder
<1>1. IInv => InOrder
  <2> SUFFICES ASSUME IInv PROVE InOrder
    OBVIOUS
  <2>1. DOMAIN wire = 1..Len(wire)
    BY DEF IInv, TypeOK
  <2>2. QED
    BY <2>1 DEF IInv, History, QueueInOrder, InOrder
<1>2. QED
  BY <1>1, Invariance, PTL

\* Once the queue of a handler has been sent the proxy does not keep that handler, and its
\* replacement stands for a handler that has sent its queue on a connection.
THEOREM ProxyUpdated == Spec => []HandlerReplaced
<1>1. IInv => HandlerReplaced
  <2> SUFFICES ASSUME IInv, NEW h \in Handlers
               PROVE  /\ initialized[h] => delegate # <<h, "connect">>
                      /\ delegate = <<h, "connection">>
                            => requests[h] = <<>> /\ connection[h] # None
    BY DEF HandlerReplaced
  <2>1. initialized[h] => delegate # <<h, "connect">>
    BY DEF IInv, Control, DelegateOK, Sent
  <2>2. ASSUME delegate = <<h, "connection">>
        PROVE  requests[h] = <<>> /\ connection[h] # None
    <3>1. Sent(h)
      BY <2>2 DEF IInv, Control, DelegateOK
    <3>2. requests[h] = <<>> /\ connection[h] \in Connections
      BY <3>1 DEF IInv, Control, QueueSent, FlagsOK, Sent
    <3>3. QED
      BY <3>2, CallersAssumption
  <2>3. QED
    BY <2>1, <2>2
<1>2. QED
  BY <1>1, Invariance, PTL
=============================================================================
