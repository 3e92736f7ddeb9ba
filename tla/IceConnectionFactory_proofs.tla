-------------------- MODULE IceConnectionFactory_proofs --------------------
(***************************************************************************)
(* Proofs about IceConnectionFactory, for all sets of requests,            *)
(* connectors and connections: the three safety properties that TLC checks *)
(* on the instance of MCIceConnectionFactory.                              *)
(***************************************************************************)
EXTENDS IceConnectionFactory, FiniteSetTheorems, TLAPS

DestroyerPlaces == {"running", "wait", "finish", "finished"}

PlacesOK ==
    /\ at[Destroyer] \in DestroyerPlaces
    /\ \A r \in Requests : at[r] \in Places \ DestroyerPlaces
    /\ \A r \in Sync : at[r] \notin {"count", "pending", "answer", "decrement"}
    /\ \A r \in Async : at[r] # "again"
    /\ destroyed <=> at[Destroyer] # "running"
    /\ \A r \in Requests : at[r] \notin {"decrement", "answered"} => answers[r] = 0

\* Every entry of _pending belongs to one request that connects, and the callbacks in
\* it wait for it.
PendingOK ==
    /\ DOMAIN pending \subseteq Connectors
    /\ \A r \in Requests : at[r] \in {"get", "again", "pending"} \cup Connecting
                              => connectors[r] # {}
    /\ \A r \in Requests : at[r] \in Connecting => connectors[r] \subseteq DOMAIN pending
    /\ \A r, s \in Requests :
          at[r] \in Connecting /\ at[s] \in Connecting /\ r # s
              => connectors[r] \cap connectors[s] = {}
    /\ \A c \in DOMAIN pending : \E r \in Requests : at[r] \in Connecting /\ c \in connectors[r]
    /\ \A c \in DOMAIN pending : \A r \in pending[c] :
          r \in Async /\ at[r] = "pending" /\ c \in connectors[r]
    /\ \A r \in Async : at[r] = "pending" => \E c \in DOMAIN pending : r \in pending[c]

UnderWay == {r \in Async : at[r] \in Counted}
CountOK  == pendingConnectCount = Cardinality(UnderWay)

\* A connection is started by one request, for one of the connectors of that request.
StartsOK ==
    /\ \A r \in Requests : at[r] \in Connecting => iter[r] \subseteq connectors[r]
    /\ \A r \in Requests :
          IF at[r] \in {"starting", "started"}
          THEN /\ conn[r] \in Ids /\ state[conn[r]] # "none"
               /\ connectorOf[conn[r]] \in connectors[r]
          ELSE conn[r] = None
    /\ \A r, s \in Requests : conn[r] # None /\ conn[r] = conn[s] => r = s
    /\ \A i \in Ids : state[i] = "starting"
                         => \E r \in Requests : at[r] = "starting" /\ conn[r] = i

\* The factory knows all connections but those that have finished, which it has from
\* the reaper.
KnownOK ==
    /\ \A i \in Ids : i \notin connections => state[i] \in {"none", "finished"}
    /\ \A i \in connections : state[i] # "none"
    /\ reaper = {i \in connections : state[i] = "finished"}

\* While a request connects, only its own connection can be to one of its connectors.
Live(i) == i \in connections /\ state[i] \in {"starting", "active"}
SharedOK ==
    /\ \A i, j \in connections : Live(i) /\ Live(j) /\ connectorOf[i] = connectorOf[j] => i = j
    /\ \A r \in Requests, i \in connections :
          at[r] \in Connecting /\ Live(i) /\ connectorOf[i] \in connectors[r] => conn[r] = i

QuietOK ==
    at[Destroyer] \in {"finish", "finished"} =>
        /\ DOMAIN pending = {} /\ pendingConnectCount = 0
        /\ connections = IF at[Destroyer] = "finish" THEN toFinish ELSE {}

IInv == /\ TypeOK /\ PlacesOK /\ PendingOK /\ CountOK /\ StartsOK /\ KnownOK /\ SharedOK
        /\ QuietOK

-----------------------------------------------------------------------------
(***************************************************************************)
(* Lemmas                                                                  *)
(***************************************************************************)

\* A request is a callback or a thread.
LEMMA Kinds ==
    /\ \A r \in Requests : r # Destroyer /\ (r \in Async <=> r \notin Sync)
    /\ Async \subseteq Requests /\ Sync \subseteq Requests
    /\ IsFiniteSet(Async)
<1>1. IsFiniteSet(Async)
  BY RequestsAssumption, FS_Subset DEF Requests
<1>2. QED
  BY <1>1, RequestsAssumption DEF Requests

\* The callbacks that are counted are finitely many.
LEMMA CountFinite ==
    /\ IsFiniteSet(UnderWay) /\ Cardinality(UnderWay) \in Nat
    /\ Cardinality(UnderWay) = 0 => \A r \in Async : at[r] \notin Counted
<1>1. UnderWay \subseteq Async
  BY DEF UnderWay
<1>2. IsFiniteSet(UnderWay)
  BY <1>1, Kinds, FS_Subset
<1>3. Cardinality(UnderWay) = 0 => UnderWay = {}
  BY <1>2, FS_EmptySet
<1>4. QED
  BY <1>2, <1>3, FS_CardinalityType DEF UnderWay

\* The count stays when no callback begins or ceases to be counted.
LEMMA CountSame ==
    ASSUME CountOK, pendingConnectCount' = pendingConnectCount,
           \A r \in Async : at'[r] \in Counted <=> at[r] \in Counted
    PROVE  CountOK'
<1>1. UnderWay' = UnderWay
  BY DEF UnderWay
<1>2. QED
  BY <1>1 DEF CountOK

\* Once the destroyer has got past the first section of waitUntilFinished(), no request
\* connects and no callback is counted.
LEMMA Quiet ==
    ASSUME IInv, at[Destroyer] \in {"finish", "finished"}
    PROVE  /\ destroyed /\ DOMAIN pending = {}
           /\ \A r \in Requests : at[r] \notin Connecting
           /\ \A r \in Async : at[r] \notin Counted
<1>1. DOMAIN pending = {} /\ pendingConnectCount = 0
  BY DEF IInv, QuietOK
<1>2. \A r \in Requests : at[r] \notin Connecting
  BY <1>1 DEF IInv, PendingOK
<1>3. \A r \in Async : at[r] \notin Counted
  BY <1>1, CountFinite DEF IInv, CountOK
<1>4. destroyed
  BY DEF IInv, PlacesOK
<1>5. QED
  BY <1>1, <1>2, <1>3, <1>4

\* Connections change at most by being reaped.
Reaped ==
    /\ connections' \subseteq connections /\ UNCHANGED conn
    /\ \A i \in connections' : state'[i] = state[i] /\ connectorOf'[i] = connectorOf[i]
    /\ \A x \in Requests : conn[x] # None =>
          state'[conn[x]] = state[conn[x]] /\ connectorOf'[conn[x]] = connectorOf[conn[x]]
    /\ \A i \in Ids : state'[i] \in {state[i], "none"}

\* As long as no connection changes, none is reaped.
LEMMA NoneReaped == UNCHANGED <<connections, conn, connVars>> => Reaped
BY DEF Reaped, connVars

\* What getConnection() does to the connections when it is entered.
LEMMA ReapIsReaped ==
    ASSUME IInv, NEW r \in Requests, Reap(r), UNCHANGED conn
    PROVE  /\ Reaped /\ KnownOK'
           /\ connections' \subseteq Ids /\ reaper' \subseteq connections'
           /\ state' \in [Ids -> States] /\ connectorOf' \in [Ids -> Connectors \cup {None}]
           /\ byDestroy' \subseteq Ids
<1> DEFINE old  == IF at[r] = "get" THEN reaper ELSE {}
           gone == {i \in old : \A x \in Requests : conn[x] # i}
<1>1. /\ connections' = connections \ old /\ reaper' = reaper \ old
      /\ state' = [i \in Ids |-> IF i \in gone THEN "none" ELSE state[i]]
      /\ connectorOf' = [i \in Ids |-> IF i \in gone THEN None ELSE connectorOf[i]]
      /\ byDestroy' = byDestroy \ gone
  BY DEF Reap
<1>2. /\ gone \subseteq old /\ \A x \in Requests : conn[x] \notin gone
      /\ old \subseteq reaper /\ (old = {} \/ old = reaper)
  OBVIOUS
<1>3. /\ reaper \subseteq connections /\ connections \subseteq Ids /\ byDestroy \subseteq Ids
      /\ state \in [Ids -> States] /\ connectorOf \in [Ids -> Connectors \cup {None}]
      /\ conn \in [Requests -> Ids \cup {None}] /\ "none" \in States
  BY DEF IInv, TypeOK, States
<1> HIDE DEF old, gone
<1>4. \A i \in Ids : /\ state'[i] = IF i \in gone THEN "none" ELSE state[i]
                     /\ connectorOf'[i] = IF i \in gone THEN None ELSE connectorOf[i]
  BY <1>1
<1>5. Reaped
  BY <1>1, <1>2, <1>3, <1>4 DEF Reaped
<1>6. KnownOK'
  <2>1. \A i \in Ids : i \notin connections' => state'[i] \in {"none", "finished"}
    BY <1>1, <1>2, <1>3, <1>4 DEF IInv, KnownOK
  <2>2. \A i \in connections' : state'[i] = state[i] /\ i \in connections
    BY <1>1, <1>2, <1>3, <1>4
  <2>3. reaper' = {i \in connections' : state'[i] = "finished"}
    BY <1>1, <1>2, <2>2 DEF IInv, KnownOK
  <2>4. QED
    BY <2>1, <2>2, <2>3 DEF IInv, KnownOK
<1>7. QED
  BY <1>1, <1>2, <1>3, <1>5, <1>6

\* A request that does not connect moves to a place where it does not either.
LEMMA MoveKept ==
    ASSUME IInv, NEW r \in Requests, NEW p, Goes(r, p), Reaped, UNCHANGED pending,
           at[r] \notin Connecting \cup {"pending"}, p \notin Connecting \cup {"pending"},
           \A x \in Requests \ {r} : connectors'[x] = connectors[x] /\ iter'[x] = iter[x],
           p \in {"get", "again"} => connectors'[r] # {}
    PROVE  PendingOK' /\ StartsOK' /\ SharedOK'
<1>1. /\ \A x \in Requests \ {r} : at'[x] = at[x]
      /\ at'[r] = p
  BY DEF IInv, TypeOK, Goes
<1>2. PendingOK'
  BY <1>1, Kinds DEF IInv, PendingOK
<1>3. StartsOK'
  <2>1. /\ \A x \in Requests : at'[x] \in Connecting => x # r
        /\ \A x \in Requests : at[x] \in {"starting", "started"} => at[x] \in Connecting
        /\ {"starting", "started"} \subseteq Connecting
    BY <1>1 DEF Connecting
  <2>2. \A x \in Requests : at'[x] \in Connecting => iter'[x] \subseteq connectors'[x]
    BY <1>1, <2>1 DEF IInv, StartsOK
  <2>3. \A x \in Requests :
          IF at'[x] \in {"starting", "started"}
          THEN /\ conn'[x] \in Ids /\ state'[conn'[x]] # "none"
               /\ connectorOf'[conn'[x]] \in connectors'[x]
          ELSE conn'[x] = None
    BY <1>1, <2>1, RequestsAssumption DEF IInv, StartsOK, Reaped
  <2>4. \A i \in Ids : state'[i] = "starting"
                           => \E x \in Requests : at'[x] = "starting" /\ conn'[x] = i
    BY <1>1, <2>1 DEF IInv, StartsOK, Reaped
  <2>5. QED
    BY <2>2, <2>3, <2>4 DEF IInv, StartsOK, Reaped
<1>4. SharedOK'
  BY <1>1 DEF IInv, SharedOK, Reaped, Live
<1>5. QED
  BY <1>2, <1>3, <1>4

\* A request that connects goes on with it.
LEMMA StaysConnecting ==
    ASSUME IInv, NEW r \in Requests, NEW p, Goes(r, p), UNCHANGED <<pending, connectors>>,
           at[r] \in Connecting, p \in Connecting
    PROVE  PendingOK'
<1>1. /\ \A x \in Requests \ {r} : at'[x] = at[x]
      /\ at'[r] = p
  BY DEF IInv, TypeOK, Goes
<1>2. p # "pending" /\ at[r] # "pending"
  BY DEF Connecting
<1>3. QED
  BY <1>1, <1>2, Kinds DEF IInv, PendingOK

-----------------------------------------------------------------------------
(***************************************************************************)
(* Steps of a request                                                      *)
(***************************************************************************)

\* What Answer(r, res) keeps.
LEMMA AnswerTypes ==
    ASSUME IInv, NEW r \in Requests, NEW res \in {"connection", "exception"}, Answer(r, res)
    PROVE  \E p \in {"answer", "reply"} :
              /\ Goes(r, p)
              /\ p = "answer" <=> r \in Async /\ at[r] \in Counted
              /\ at' \in [Requests \cup {Destroyer} -> Places]
              /\ result' \in [Requests -> {"connection", "exception", None}]
              /\ UNCHANGED <<connectors, iter, answers, conn>>
BY DEF IInv, TypeOK, Answer, Goes, Places

\* What at' is after Goes(r, p).
LEMMA GoesTo ==
    ASSUME IInv, NEW r \in Requests, NEW p \in Places \ DestroyerPlaces, Goes(r, p)
    PROVE  /\ at' \in [Requests \cup {Destroyer} -> Places]
           /\ at'[r] = p /\ at'[Destroyer] = at[Destroyer]
           /\ \A x \in Requests \ {r} : at'[x] = at[x]
BY Kinds DEF IInv, TypeOK, Goes

\* PlacesOK after a move of a request.
LEMMA PlacesKept ==
    ASSUME IInv, NEW r \in Requests, NEW p \in Places \ DestroyerPlaces, Goes(r, p),
           UNCHANGED destroyed,
           r \in Sync => p \notin {"count", "pending", "answer", "decrement"},
           r \in Async => p # "again",
           \A x \in Requests \ {r} : answers'[x] = answers[x],
           p \notin {"decrement", "answered"} => answers'[r] = 0
    PROVE  PlacesOK'
BY GoesTo, Kinds DEF IInv, PlacesOK

\* create().
LEMMA CreateKept ==
    ASSUME IInv, NEW r \in Requests, Create(r)
    PROVE  IInv'
<1>1. /\ at[r] = "idle"
      /\ UNCHANGED <<factoryVars, connVars, waiting, toFinish, connectors, iter, answers, conn>>
      /\ result' \in [Requests -> {"connection", "exception", None}]
  BY AnswerTypes DEF Create, Runs, IInv, TypeOK
<1>2. PICK p \in {"reply", "count", "resolve"} :
         Goes(r, p) /\ (p = "count" <=> p # "reply" /\ r \in Async)
  BY <1>1, AnswerTypes DEF Create, Counted, Connecting
<1>3. p \in Places \ DestroyerPlaces
  BY DEF Places, DestroyerPlaces
<1>4. TypeOK'
  BY <1>1, <1>2, <1>3, GoesTo DEF IInv, TypeOK, factoryVars, connVars
<1>5. PlacesOK'
  <2>1. answers[r] = 0
    BY <1>1 DEF IInv, PlacesOK
  <2>2. QED
    BY <1>1, <1>2, <1>3, <2>1, PlacesKept, Kinds DEF factoryVars
<1>6. PendingOK' /\ StartsOK' /\ SharedOK'
  BY <1>1, <1>2, MoveKept, NoneReaped DEF factoryVars, connVars, Connecting
<1>7. CountOK'
  <2>1. \A x \in Async : at'[x] \in Counted <=> at[x] \in Counted
    BY <1>1, <1>2, <1>3, GoesTo, Kinds DEF Counted, Connecting
  <2>2. QED
    BY <1>1, <2>1, CountSame DEF IInv, factoryVars
<1>8. KnownOK'
  BY <1>1 DEF IInv, KnownOK, factoryVars, connVars
<1>9. QuietOK'
  BY <1>1, <1>2, <1>3, GoesTo DEF IInv, QuietOK, factoryVars
<1>10. QED
  BY <1>4, <1>5, <1>6, <1>7, <1>8, <1>9 DEF IInv

\* getConnectors(): the callback begins to be counted.
LEMMA GetConnectorsKept ==
    ASSUME IInv, NEW r \in Requests, GetConnectors(r)
    PROVE  IInv'
<1>1. /\ at[r] = "count" /\ r \in Async
      /\ UNCHANGED <<destroyed, connections, reaper, pending, connVars, waiting, toFinish,
                     connectors, iter, answers, conn>>
      /\ result' \in [Requests -> {"connection", "exception", None}]
  BY AnswerTypes, Kinds DEF GetConnectors, Runs, IInv, TypeOK, PlacesOK
<1>2. PICK p \in {"reply", "resolve"} :
         /\ Goes(r, p)
         /\ p = "reply" => pendingConnectCount' = pendingConnectCount
         /\ p = "resolve" => ~destroyed /\ pendingConnectCount' = pendingConnectCount + 1
  BY <1>1, AnswerTypes DEF GetConnectors, Counted, Connecting
<1>3. p \in Places \ DestroyerPlaces
  BY DEF Places, DestroyerPlaces
<1>4. TypeOK'
  BY <1>1, <1>2, <1>3, GoesTo DEF IInv, TypeOK, connVars
<1>5. PlacesOK'
  <2>1. answers[r] = 0
    BY <1>1 DEF IInv, PlacesOK
  <2>2. QED
    BY <1>1, <1>2, <1>3, <2>1, PlacesKept, Kinds
<1>6. PendingOK' /\ StartsOK' /\ SharedOK'
  BY <1>1, <1>2, MoveKept, NoneReaped DEF connVars, Connecting
<1>7. CountOK'
  <2>1. CASE p = "reply"
    <3>1. \A x \in Async : at'[x] \in Counted <=> at[x] \in Counted
      BY <1>1, <1>2, <1>3, <2>1, GoesTo, Kinds DEF Counted, Connecting
    <3>2. QED
      BY <1>2, <2>1, <3>1, CountSame DEF IInv
  <2>2. CASE p = "resolve"
    <3>1. UnderWay' = UnderWay \cup {r} /\ r \notin UnderWay
      BY <1>1, <1>2, <1>3, <2>2, GoesTo, Kinds DEF UnderWay, Counted, Connecting
    <3>2. Cardinality(UnderWay') = Cardinality(UnderWay) + 1
      BY <3>1, CountFinite, FS_AddElement
    <3>3. QED
      BY <1>2, <2>2, <3>2 DEF IInv, CountOK
  <2>3. QED
    BY <1>2, <2>1, <2>2
<1>8. KnownOK'
  BY <1>1 DEF IInv, KnownOK, connVars
<1>9. QuietOK'
  BY <1>1, <1>2, <1>3, GoesTo, Quiet DEF IInv, QuietOK
<1>10. QED
  BY <1>4, <1>5, <1>6, <1>7, <1>8, <1>9 DEF IInv

\* The last endpoint has been resolved.
LEMMA ResolveKept ==
    ASSUME IInv, NEW r \in Requests, Resolve(r)
    PROVE  IInv'
<1>1. /\ at[r] = "resolve"
      /\ UNCHANGED <<factoryVars, connVars, waiting, toFinish, iter, answers, conn>>
      /\ result' \in [Requests -> {"connection", "exception", None}]
  BY AnswerTypes DEF Resolve, Runs, IInv, TypeOK
<1>2. PICK p \in {"answer", "reply", "get"} :
         /\ Goes(r, p)
         /\ r \in Async => p # "reply"
         /\ r \in Sync => p # "answer"
         /\ p = "get" => connectors'[r] # {}
         /\ connectors' \in [Requests -> SUBSET Connectors]
         /\ \A x \in Requests \ {r} : connectors'[x] = connectors[x]
  <2>1. CASE Answer(r, "exception")
    BY <1>1, <2>1, AnswerTypes, Kinds DEF IInv, TypeOK, Counted
  <2>2. CASE \E cs \in Resolutions[r] : connectors' = [connectors EXCEPT ![r] = cs] /\ Goes(r, "get")
    <3>1. PICK cs \in Resolutions[r] : connectors' = [connectors EXCEPT ![r] = cs] /\ Goes(r, "get")
      BY <2>2
    <3>2. cs # {} /\ cs \subseteq Connectors
      BY RequestsAssumption
    <3>3. QED
      BY <3>1, <3>2 DEF IInv, TypeOK
  <2>3. QED
    BY <2>1, <2>2 DEF Resolve
<1>3. p \in Places \ DestroyerPlaces
  BY DEF Places, DestroyerPlaces
<1>4. TypeOK'
  BY <1>1, <1>2, <1>3, GoesTo DEF IInv, TypeOK, factoryVars, connVars
<1>5. PlacesOK'
  <2>1. answers[r] = 0
    BY <1>1 DEF IInv, PlacesOK
  <2>2. QED
    BY <1>1, <1>2, <1>3, <2>1, PlacesKept, Kinds DEF factoryVars
<1>6. PendingOK' /\ StartsOK' /\ SharedOK'
  BY <1>1, <1>2, MoveKept, NoneReaped DEF factoryVars, connVars, Connecting
<1>7. CountOK'
  <2>1. \A x \in Async : at'[x] \in Counted <=> at[x] \in Counted
    BY <1>1, <1>2, <1>3, GoesTo, Kinds DEF Counted, Connecting
  <2>2. QED
    BY <1>1, <2>1, CountSame DEF IInv, factoryVars
<1>8. KnownOK'
  BY <1>1 DEF IInv, KnownOK, factoryVars, connVars
<1>9. QuietOK'
  BY <1>1, <1>2, <1>3, GoesTo DEF IInv, QuietOK, factoryVars
<1>10. QED
  BY <1>4, <1>5, <1>6, <1>7, <1>8, <1>9 DEF IInv

\* The request is answered.
LEMMA ReplyKept ==
    ASSUME IInv, NEW r \in Requests, Reply(r)
    PROVE  IInv'
<1>1. /\ at[r] \in {"reply", "answer"}
      /\ UNCHANGED <<factoryVars, connVars, waiting, toFinish, conn>>
      /\ answers' = [answers EXCEPT ![r] = @ + 1]
      /\ connectors' = [connectors EXCEPT ![r] = {}] /\ iter' = [iter EXCEPT ![r] = {}]
      /\ result' = [result EXCEPT ![r] = None]
  BY DEF Reply, Runs
<1>2. PICK p \in {"decrement", "answered"} : Goes(r, p) /\ (p = "decrement" <=> at[r] = "answer")
  BY <1>1 DEF Reply
<1>3. p \in Places \ DestroyerPlaces
  BY DEF Places, DestroyerPlaces
<1>4. TypeOK'
  <2>1. answers[r] = 0
    BY <1>1 DEF IInv, PlacesOK
  <2>2. answers' \in [Requests -> {0, 1}]
    BY <1>1, <2>1 DEF IInv, TypeOK
  <2>3. /\ connectors' \in [Requests -> SUBSET Connectors]
        /\ iter' \in [Requests -> SUBSET Connectors]
        /\ result' \in [Requests -> {"connection", "exception", None}]
    BY <1>1 DEF IInv, TypeOK
  <2>4. QED
    BY <1>1, <1>2, <1>3, <2>2, <2>3, GoesTo DEF IInv, TypeOK, factoryVars, connVars
<1>5. PlacesOK'
  <2>1. r \in Sync => at[r] # "answer"
    BY DEF IInv, PlacesOK
  <2>2. \A x \in Requests \ {r} : answers'[x] = answers[x]
    BY <1>1 DEF IInv, TypeOK
  <2>3. QED
    BY <1>1, <1>2, <1>3, <2>1, <2>2, PlacesKept DEF factoryVars
<1>6. PendingOK' /\ StartsOK' /\ SharedOK'
  <2>1. \A x \in Requests \ {r} : connectors'[x] = connectors[x] /\ iter'[x] = iter[x]
    BY <1>1 DEF IInv, TypeOK
  <2>2. QED
    BY <1>1, <1>2, <2>1, MoveKept, NoneReaped DEF factoryVars, connVars, Connecting
<1>7. CountOK'
  <2>1. \A x \in Async : at'[x] \in Counted <=> at[x] \in Counted
    BY <1>1, <1>2, <1>3, GoesTo, Kinds DEF Counted, Connecting
  <2>2. QED
    BY <1>1, <2>1, CountSame DEF IInv, factoryVars
<1>8. KnownOK'
  BY <1>1 DEF IInv, KnownOK, factoryVars, connVars
<1>9. QuietOK'
  BY <1>1, <1>2, <1>3, GoesTo DEF IInv, QuietOK, factoryVars
<1>10. QED
  BY <1>4, <1>5, <1>6, <1>7, <1>8, <1>9 DEF IInv

\* decPendingConnectCount(): the callback is no longer counted.
LEMMA DecrementKept ==
    ASSUME IInv, NEW r \in Requests, DecPendingConnectCount(r)
    PROVE  IInv'
<1>1. /\ at[r] = "decrement" /\ r \in Async
      /\ UNCHANGED <<destroyed, connections, reaper, pending, connectors, iter, result, answers,
                     conn, connVars, toFinish>>
      /\ pendingConnectCount' = pendingConnectCount - 1
      /\ waiting' \subseteq waiting
  BY Kinds DEF DecPendingConnectCount, Decrement, Runs, IInv, PlacesOK
<1>2. Goes(r, "answered") /\ "answered" \in Places \ DestroyerPlaces
  BY DEF DecPendingConnectCount, Decrement, Places, DestroyerPlaces
<1>3. UnderWay' = UnderWay \ {r} /\ r \in UnderWay
  BY <1>1, <1>2, GoesTo, Kinds DEF UnderWay, Counted, Connecting
<1>4. Cardinality(UnderWay') = Cardinality(UnderWay) - 1 /\ Cardinality(UnderWay') \in Nat
  BY <1>3, CountFinite, FS_RemoveElement, FS_CardinalityType
<1>5. CountOK' /\ pendingConnectCount' \in Nat
  BY <1>1, <1>4 DEF IInv, CountOK
<1>6. TypeOK'
  BY <1>1, <1>2, <1>5, GoesTo DEF IInv, TypeOK, connVars
<1>7. PlacesOK'
  BY <1>1, <1>2, PlacesKept, Kinds
<1>8. PendingOK' /\ StartsOK' /\ SharedOK'
  BY <1>1, <1>2, MoveKept, NoneReaped DEF connVars, Connecting
<1>9. KnownOK'
  BY <1>1 DEF IInv, KnownOK, connVars
<1>10. QuietOK'
  <2>1. at[Destroyer] \notin {"finish", "finished"}
    BY <1>1, Quiet DEF Counted
  <2>2. QED
    BY <1>2, <2>1, GoesTo DEF QuietOK
<1>11. QED
  BY <1>5, <1>6, <1>7, <1>8, <1>9, <1>10 DEF IInv

\* While no connector of r is pending and none has a connection to use, none has a
\* connection that is live.
LEMMA NoneLive ==
    ASSUME IInv, NEW r \in Requests, ~Usable(connectors[r]),
           connectors[r] \cap DOMAIN pending = {}
    PROVE  \A i \in connections : Live(i) => connectorOf[i] \notin connectors[r]
<1> SUFFICES ASSUME NEW i \in connections, Live(i), connectorOf[i] \in connectors[r]
             PROVE  FALSE
  OBVIOUS
<1>1. state[i] # "active"
  BY DEF Usable
<1>2. state[i] = "starting" /\ i \in Ids
  BY <1>1 DEF Live, IInv, TypeOK
<1>3. PICK x \in Requests : at[x] = "starting" /\ conn[x] = i
  BY <1>2 DEF IInv, StartsOK
<1>4. connectorOf[i] \in connectors[x] /\ at[x] \in Connecting
  BY <1>3 DEF IInv, StartsOK, Connecting
<1>5. connectorOf[i] \in DOMAIN pending
  BY <1>4 DEF IInv, PendingOK
<1>6. QED
  BY <1>5

\* r waits in _pending.
LEMMA JoinKept ==
    ASSUME IInv, NEW r \in Async, r \in Requests, at[r] = "get", Goes(r, "pending"),
           UNCHANGED <<connectors, iter>>, Reaped,
           connectors[r] \cap DOMAIN pending # {},
           pending' = [c \in DOMAIN pending |->
                          IF c \in connectors[r] \cap DOMAIN pending THEN pending[c] \cup {r}
                                                                     ELSE pending[c]]
    PROVE  PendingOK' /\ StartsOK' /\ SharedOK'
<1>1. /\ \A x \in Requests \ {r} : at'[x] = at[x]
      /\ at'[r] = "pending"
  BY DEF IInv, TypeOK, Goes
<1>2. /\ DOMAIN pending' = DOMAIN pending
      /\ \A c \in DOMAIN pending :
            pending'[c] = IF c \in connectors[r] THEN pending[c] \cup {r} ELSE pending[c]
  OBVIOUS
<1>3. \A x \in Requests : at'[x] \in Connecting <=> at[x] \in Connecting
  BY <1>1 DEF Connecting
<1>4. PendingOK'
  BY <1>1, <1>2, <1>3, Kinds DEF IInv, PendingOK
<1>5. \A x \in Requests : at'[x] \in {"starting", "started"} <=> at[x] \in {"starting", "started"}
  BY <1>1
<1>6. \A x \in Requests : at'[x] = "starting" <=> at[x] = "starting"
  BY <1>1
<1>7. StartsOK'
  <2>1. \A x \in Requests : at'[x] \in Connecting => iter'[x] \subseteq connectors'[x]
    BY <1>3 DEF IInv, StartsOK
  <2>2. \A x \in Requests :
          IF at'[x] \in {"starting", "started"}
          THEN /\ conn'[x] \in Ids /\ state'[conn'[x]] # "none"
               /\ connectorOf'[conn'[x]] \in connectors'[x]
          ELSE conn'[x] = None
    BY <1>5, RequestsAssumption DEF IInv, StartsOK, Reaped
  <2>3. \A i \in Ids : state'[i] = "starting"
                           => \E x \in Requests : at'[x] = "starting" /\ conn'[x] = i
    BY <1>6 DEF IInv, StartsOK, Reaped
  <2>4. QED
    BY <2>1, <2>2, <2>3 DEF IInv, StartsOK, Reaped
<1>8. SharedOK'
  BY <1>3 DEF IInv, SharedOK, Reaped, Live
<1>9. QED
  BY <1>4, <1>7, <1>8

\* r begins to connect.
LEMMA BeginKept ==
    ASSUME IInv, NEW r \in Requests, at[r] \in {"get", "again"}, Goes(r, "connect"),
           UNCHANGED connectors, iter' = [iter EXCEPT ![r] = connectors[r]], Reaped,
           ~Usable(connectors[r]), connectors[r] \cap DOMAIN pending = {},
           pending' = [c \in DOMAIN pending \cup connectors[r] |->
                          IF c \in DOMAIN pending THEN pending[c] ELSE {}]
    PROVE  PendingOK' /\ StartsOK' /\ SharedOK'
<1>1. /\ \A x \in Requests \ {r} : at'[x] = at[x]
      /\ at'[r] = "connect"
  BY DEF IInv, TypeOK, Goes
<1>2. \A x \in Requests : at'[x] \in Connecting <=> at[x] \in Connecting \/ x = r
  BY <1>1 DEF Connecting
<1>3. connectors[r] # {} /\ connectors[r] \subseteq Connectors
  BY DEF IInv, TypeOK, PendingOK
<1>4. PendingOK'
  <2>1. \A x \in Requests : at'[x] \in {"get", "again", "pending"} \cup Connecting
                               => connectors'[x] # {}
    BY <1>1, <1>2, <1>3 DEF IInv, PendingOK
  <2>2. \A x \in Requests : at'[x] \in Connecting => connectors'[x] \subseteq DOMAIN pending'
    BY <1>1, <1>2 DEF IInv, PendingOK
  <2>3. \A x, y \in Requests :
          at'[x] \in Connecting /\ at'[y] \in Connecting /\ x # y
              => connectors'[x] \cap connectors'[y] = {}
    BY <1>1, <1>2 DEF IInv, PendingOK
  <2>4. \A c \in DOMAIN pending' :
          \E x \in Requests : at'[x] \in Connecting /\ c \in connectors'[x]
    BY <1>1, <1>2 DEF IInv, PendingOK
  <2>5. \A c \in DOMAIN pending' : \A x \in pending'[c] :
          x \in Async /\ at'[x] = "pending" /\ c \in connectors'[x]
    BY <1>1, Kinds DEF IInv, PendingOK
  <2>6. \A x \in Async : at'[x] = "pending" => \E c \in DOMAIN pending' : x \in pending'[c]
    BY <1>1, Kinds DEF IInv, PendingOK
  <2>7. QED
    BY <1>3, <2>1, <2>2, <2>3, <2>4, <2>5, <2>6 DEF IInv, PendingOK
<1>5. /\ \A x \in Requests : at'[x] \in {"starting", "started"}
                                <=> at[x] \in {"starting", "started"}
      /\ \A x \in Requests : at'[x] = "starting" <=> at[x] = "starting"
  BY <1>1
<1>6. StartsOK'
  <2>1. \A x \in Requests : at'[x] \in Connecting => iter'[x] \subseteq connectors'[x]
    BY <1>2 DEF IInv, TypeOK, StartsOK
  <2>2. \A x \in Requests :
          IF at'[x] \in {"starting", "started"}
          THEN /\ conn'[x] \in Ids /\ state'[conn'[x]] # "none"
               /\ connectorOf'[conn'[x]] \in connectors'[x]
          ELSE conn'[x] = None
    BY <1>5, RequestsAssumption DEF IInv, StartsOK, Reaped
  <2>3. \A i \in Ids : state'[i] = "starting"
                           => \E x \in Requests : at'[x] = "starting" /\ conn'[x] = i
    BY <1>5 DEF IInv, StartsOK, Reaped
  <2>4. QED
    BY <2>1, <2>2, <2>3 DEF IInv, StartsOK, Reaped
<1>7. SharedOK'
  <2>1. \A i \in connections : Live(i) => connectorOf[i] \notin connectors[r]
    BY NoneLive
  <2>2. \A i \in connections' : Live(i)' => i \in connections /\ Live(i)
    BY DEF Reaped, Live
  <2>3. QED
    BY <1>2, <2>1, <2>2 DEF IInv, SharedOK, Reaped
<1>8. QED
  BY <1>4, <1>6, <1>7

\* getConnection().
LEMMA GetConnectionKept ==
    ASSUME IInv, NEW r \in Requests, GetConnection(r)
    PROVE  IInv'
<1> DEFINE mine == connectors[r]
           busy == mine \cap DOMAIN pending
           Parts == /\ Reaped /\ KnownOK'
                    /\ connections' \subseteq Ids /\ reaper' \subseteq connections'
                    /\ state' \in [Ids -> States]
                    /\ connectorOf' \in [Ids -> Connectors \cup {None}] /\ byDestroy' \subseteq Ids
<1>1. /\ at[r] \in {"get", "again"}
      /\ UNCHANGED <<destroyed, pendingConnectCount, toFinish, connectors, answers, conn>>
      /\ result' \in [Requests -> {"connection", "exception", None}]
  BY AnswerTypes DEF GetConnection, Runs, IInv, TypeOK, factoryVars
<1>2. Parts
  <2>1. CASE UNCHANGED <<factoryVars, connVars>>
    BY <1>1, <2>1, NoneReaped DEF IInv, TypeOK, KnownOK, factoryVars, connVars
  <2>2. CASE Reap(r)
    BY <1>1, <2>2, ReapIsReaped
  <2>3. QED
    BY <2>1, <2>2 DEF GetConnection
<1>3. \/ \E res \in {"connection", "exception"} : Answer(r, res) /\ UNCHANGED <<pending, waiting>>
      \/ /\ busy # {} /\ r \in Async /\ ~destroyed
         /\ pending' = [c \in DOMAIN pending |->
                           IF c \in busy THEN pending[c] \cup {r} ELSE pending[c]]
         /\ Goes(r, "pending") /\ UNCHANGED <<iter, waiting>>
      \/ /\ r \in Sync /\ Goes(r, "again") /\ waiting' = waiting \cup {r}
         /\ UNCHANGED <<pending, iter>>
      \/ /\ ~Usable(mine \ busy) /\ busy = {} /\ ~destroyed
         /\ pending' = [c \in DOMAIN pending \cup mine |->
                           IF c \in DOMAIN pending THEN pending[c] ELSE {}]
         /\ Goes(r, "connect") /\ iter' = [iter EXCEPT ![r] = mine] /\ UNCHANGED waiting
  BY DEF GetConnection, Registers, factoryVars
<1>4. PICK p \in {"answer", "reply", "pending", "again", "connect"} :
         /\ Goes(r, p)
         /\ r \in Async => p \notin {"again", "reply"}
         /\ r \in Sync => p \notin {"pending", "answer"}
         /\ p \in {"pending", "connect"} => ~destroyed
  <2>1. r \in Async => at[r] \in Counted
    BY <1>1 DEF IInv, PlacesOK, Counted
  <2>2. \A res \in {"connection", "exception"} : Answer(r, res) =>
          Goes(r, IF r \in Async THEN "answer" ELSE "reply")
    BY <2>1 DEF Answer
  <2> HIDE DEF busy, mine
  <2>3. QED
    BY <1>3, <2>2, Kinds
<1>5. p \in Places \ DestroyerPlaces
  BY DEF Places, DestroyerPlaces
<1>6. TypeOK'
  <2>1. iter' \in [Requests -> SUBSET Connectors] /\ waiting' \subseteq Sync \cup {Destroyer}
    BY <1>3 DEF IInv, TypeOK, Answer
  <2> HIDE DEF mine, busy
  <2>2. QED
    BY <1>1, <1>2, <1>4, <1>5, <2>1, GoesTo DEF IInv, TypeOK
<1>7. PlacesOK'
  <2>1. answers[r] = 0
    BY <1>1 DEF IInv, PlacesOK
  <2> HIDE DEF mine, busy
  <2>2. QED
    BY <1>1, <1>4, <1>5, <2>1, PlacesKept, Kinds
<1>8. PendingOK' /\ StartsOK' /\ SharedOK'
  <2>1. CASE \E res \in {"connection", "exception"} : Answer(r, res) /\ UNCHANGED <<pending, waiting>>
    <3>1. PICK q \in {"answer", "reply"} : Goes(r, q) /\ UNCHANGED <<connectors, iter>>
      BY <2>1, AnswerTypes
    <3>2. at[r] \notin Connecting \cup {"pending"} /\ q \notin Connecting \cup {"pending"}
      BY <1>1 DEF Connecting
    <3>3. QED
      BY <1>2, <2>1, <3>1, <3>2, MoveKept
  <2>2. CASE r \in Async /\ Goes(r, "pending") /\ UNCHANGED iter /\ busy # {}
             /\ pending' = [c \in DOMAIN pending |->
                               IF c \in busy THEN pending[c] \cup {r} ELSE pending[c]]
    <3>1. at[r] = "get"
      BY <1>1, <2>2 DEF IInv, PlacesOK
    <3>2. QED
      BY <1>1, <1>2, <2>2, <3>1, JoinKept
  <2>3. CASE r \in Sync /\ Goes(r, "again") /\ UNCHANGED <<pending, iter>>
    <3>1. connectors'[r] # {}
      BY <1>1 DEF IInv, PendingOK
    <3>2. at[r] \notin Connecting \cup {"pending"} /\ "again" \notin Connecting \cup {"pending"}
      BY <1>1 DEF Connecting
    <3>3. QED
      BY <1>1, <1>2, <2>3, <3>1, <3>2, MoveKept
  <2>4. CASE /\ ~Usable(mine \ busy) /\ busy = {} /\ Goes(r, "connect")
             /\ iter' = [iter EXCEPT ![r] = mine]
             /\ pending' = [c \in DOMAIN pending \cup mine |->
                               IF c \in DOMAIN pending THEN pending[c] ELSE {}]
    <3>1. mine \ busy = mine
      BY <2>4
    <3>2. QED
      BY <1>1, <1>2, <2>4, <3>1, BeginKept
  <2>5. QED
    BY <1>3, <2>1, <2>2, <2>3, <2>4
<1>9. CountOK'
  <2>1. r \in Async => at[r] = "get"
    BY <1>1 DEF IInv, PlacesOK
  <2> HIDE DEF mine, busy
  <2>2. \A x \in Async : at'[x] \in Counted <=> at[x] \in Counted
    BY <1>1, <1>4, <1>5, <2>1, GoesTo, Kinds DEF Counted, Connecting
  <2>3. QED
    BY <1>1, <2>2, CountSame DEF IInv
<1>10. QuietOK'
  <2>1. CASE destroyed
    <3>1. UNCHANGED <<factoryVars, connVars>>
      BY <2>1 DEF GetConnection
    <3> HIDE DEF mine, busy
    <3>2. QED
      BY <1>1, <1>4, <1>5, <3>1, GoesTo DEF IInv, QuietOK, factoryVars
  <2>2. CASE ~destroyed
    <3> HIDE DEF mine, busy
    <3>1. QED
      BY <1>4, <1>5, <2>2, Quiet, GoesTo DEF QuietOK
  <2>3. QED
    BY <2>1, <2>2
<1>11. QED
  BY <1>2, <1>6, <1>7, <1>8, <1>9, <1>10 DEF IInv

\* The steps of a request that connects and goes on with it: nothing changes in _pending.
LEMMA StepTo ==
    ASSUME IInv, NEW r \in Requests, NEW p \in {"connect", "starting", "started", "failed"},
           at[r] \in Connecting, Goes(r, p), ~(p = "starting" /\ destroyed),
           UNCHANGED <<destroyed, pending, pendingConnectCount, connectors, result, answers,
                       waiting, toFinish>>
    PROVE  /\ PlacesOK' /\ PendingOK' /\ CountOK' /\ QuietOK'
           /\ at' \in [Requests \cup {Destroyer} -> Places]
           /\ at'[r] = p /\ \A x \in Requests \ {r} : at'[x] = at[x]
<1>1. /\ p \in Places \ DestroyerPlaces /\ p \in Connecting
      /\ p \notin {"count", "pending", "answer", "decrement", "again", "answered"}
  BY DEF Places, DestroyerPlaces, Connecting
<1>2. answers[r] = 0
  BY DEF IInv, PlacesOK, Connecting
<1>3. PlacesOK'
  BY <1>1, <1>2, PlacesKept
<1>4. PendingOK'
  BY <1>1, StaysConnecting
<1>5. CountOK'
  <2>1. \A x \in Async : at'[x] \in Counted <=> at[x] \in Counted
    BY <1>1, GoesTo, Kinds DEF Counted
  <2>2. QED
    BY <2>1, CountSame DEF IInv
<1>6. QuietOK'
  BY <1>1, Quiet, GoesTo DEF QuietOK
<1>7. QED
  BY <1>1, <1>3, <1>4, <1>5, <1>6, GoesTo

\* createConnection(): the new connection is the only one to its connector, because
\* others that connect do so to other connectors.
LEMMA CreateConnectionKept ==
    ASSUME IInv, NEW r \in Requests, CreateConnection(r)
    PROVE  IInv'
<1> DEFINE free == {i \in Ids \ connections : \A x \in Requests : conn[x] # i}
<1>1. /\ at[r] = "connect" /\ conn[r] = None
      /\ UNCHANGED <<destroyed, reaper, pending, pendingConnectCount, connectors, result, answers,
                     waiting, toFinish>>
  BY DEF CreateConnection, Runs, IInv, StartsOK
<1>2. PICK c \in iter[r] :
         /\ iter' = [iter EXCEPT ![r] = @ \ {c}]
         /\ \/ /\ \E p \in {"connect", "failed"} : Goes(r, p)
               /\ UNCHANGED <<connections, conn, connVars>>
            \/ /\ ~destroyed /\ Goes(r, "starting") /\ UNCHANGED byDestroy
               /\ \E i \in free :
                     /\ connections' = connections \cup {i}
                     /\ conn' = [conn EXCEPT ![r] = i]
                     /\ state' = [state EXCEPT ![i] = "starting"]
                     /\ connectorOf' = [connectorOf EXCEPT ![i] = c]
  BY DEF CreateConnection, NextConnector
<1>3. /\ c \in connectors[r] /\ c \in Connectors
      /\ iter' \in [Requests -> SUBSET Connectors]
      /\ \A x \in Requests : iter'[x] \subseteq iter[x]
  BY <1>1, <1>2 DEF IInv, TypeOK, StartsOK, Connecting
<1>4. at[r] \in Connecting
  BY <1>1 DEF Connecting
<1>5. CASE (\E p \in {"connect", "failed"} : Goes(r, p)) /\ UNCHANGED <<connections, conn, connVars>>
  <2>1. PICK p \in {"connect", "failed"} : Goes(r, p)
    BY <1>5
  <2>2. /\ PlacesOK' /\ PendingOK' /\ CountOK' /\ QuietOK'
        /\ at' \in [Requests \cup {Destroyer} -> Places]
        /\ at'[r] = p /\ \A x \in Requests \ {r} : at'[x] = at[x]
    BY <1>1, <1>4, <2>1, StepTo
  <2>3. TypeOK'
    BY <1>1, <1>3, <1>5, <2>2 DEF IInv, TypeOK, connVars
  <2>4. \A x \in Requests : /\ at'[x] \in Connecting <=> at[x] \in Connecting
                            /\ at'[x] = "starting" <=> at[x] = "starting"
                            /\ at'[x] = "started" <=> at[x] = "started"
    BY <1>1, <2>2 DEF Connecting
  <2>5. StartsOK'
    BY <1>1, <1>3, <1>5, <2>4 DEF IInv, StartsOK, connVars
  <2>6. KnownOK' /\ SharedOK'
    BY <1>1, <1>5, <2>4 DEF IInv, KnownOK, SharedOK, Live, connVars
  <2>7. QED
    BY <2>2, <2>3, <2>5, <2>6 DEF IInv
<1>6. CASE /\ ~destroyed /\ Goes(r, "starting") /\ UNCHANGED byDestroy
           /\ \E i \in free :
                 /\ connections' = connections \cup {i}
                 /\ conn' = [conn EXCEPT ![r] = i]
                 /\ state' = [state EXCEPT ![i] = "starting"]
                 /\ connectorOf' = [connectorOf EXCEPT ![i] = c]
  <2>1. PICK i \in free : /\ connections' = connections \cup {i}
                          /\ conn' = [conn EXCEPT ![r] = i]
                          /\ state' = [state EXCEPT ![i] = "starting"]
                          /\ connectorOf' = [connectorOf EXCEPT ![i] = c]
    BY <1>6
  <2>2. /\ PlacesOK' /\ PendingOK' /\ CountOK' /\ QuietOK'
        /\ at' \in [Requests \cup {Destroyer} -> Places]
        /\ at'[r] = "starting" /\ \A x \in Requests \ {r} : at'[x] = at[x]
    BY <1>1, <1>4, <1>6, StepTo
  <2>3. /\ i \in Ids /\ i \notin connections /\ i # None /\ \A x \in Requests : conn[x] # i
        /\ connections \subseteq Ids /\ reaper \subseteq connections
        /\ conn'[r] = i /\ \A x \in Requests \ {r} : conn'[x] = conn[x]
        /\ state'[i] = "starting" /\ \A j \in Ids \ {i} : state'[j] = state[j]
        /\ connectorOf'[i] = c /\ \A j \in Ids \ {i} : connectorOf'[j] = connectorOf[j]
    BY <2>1, RequestsAssumption DEF IInv, TypeOK
  <2>4. TypeOK'
    <3>1. /\ conn' \in [Requests -> Ids \cup {None}]
          /\ state' \in [Ids -> States] /\ connectorOf' \in [Ids -> Connectors \cup {None}]
      BY <1>3, <2>1, <2>3 DEF IInv, TypeOK, States
    <3>2. QED
      BY <1>1, <1>3, <1>6, <2>1, <2>2, <2>3, <3>1 DEF IInv, TypeOK
  <2>5. \A x \in Requests : /\ at'[x] \in Connecting <=> at[x] \in Connecting
                            /\ x # r => (at'[x] = "starting" <=> at[x] = "starting")
                            /\ x # r => (at'[x] = "started" <=> at[x] = "started")
    BY <1>4, <2>2 DEF Connecting
  <2>6. StartsOK'
    <3>1. \A x \in Requests : at'[x] \in Connecting => iter'[x] \subseteq connectors'[x]
      BY <1>1, <1>3, <2>5 DEF IInv, StartsOK
    <3>2. \A x \in Requests \ {r} :
            IF at'[x] \in {"starting", "started"}
            THEN /\ conn'[x] \in Ids /\ state'[conn'[x]] # "none"
                 /\ connectorOf'[conn'[x]] \in connectors'[x]
            ELSE conn'[x] = None
      BY <1>1, <2>3, <2>5 DEF IInv, StartsOK
    <3>3. \A x, y \in Requests : conn'[x] # None /\ conn'[x] = conn'[y] => x = y
      BY <2>3 DEF IInv, StartsOK
    <3>4. \A j \in Ids : state'[j] = "starting"
                            => \E x \in Requests : at'[x] = "starting" /\ conn'[x] = j
      BY <1>1, <2>2, <2>3, <2>5 DEF IInv, StartsOK
    <3>5. QED
      BY <1>1, <1>3, <2>2, <2>3, <3>1, <3>2, <3>3, <3>4 DEF StartsOK
  <2>7. KnownOK'
    BY <1>1, <2>1, <2>3 DEF IInv, KnownOK
  <2>8. SharedOK'
    <3>1. \A j \in connections : Live(j) => connectorOf[j] \notin connectors[r]
      BY <1>1, <1>4, <2>3, RequestsAssumption DEF IInv, SharedOK
    <3>2. \A j \in connections : Live(j)' <=> Live(j)
      BY <2>1, <2>3 DEF Live
    <3>3. \A x \in Requests \ {r} : at[x] \in Connecting => c \notin connectors[x]
      BY <1>3, <1>4 DEF IInv, PendingOK
    <3>4. \A j, k \in connections' :
             Live(j)' /\ Live(k)' /\ connectorOf'[j] = connectorOf'[k] => j = k
      BY <1>3, <2>1, <2>3, <3>1, <3>2 DEF IInv, SharedOK
    <3>5. \A x \in Requests, j \in connections' :
             at'[x] \in Connecting /\ Live(j)' /\ connectorOf'[j] \in connectors'[x]
                => conn'[x] = j
      BY <1>1, <2>1, <2>3, <2>5, <3>1, <3>2, <3>3 DEF IInv, SharedOK
    <3>6. QED
      BY <3>4, <3>5 DEF SharedOK
  <2>9. QED
    BY <2>2, <2>4, <2>6, <2>7, <2>8 DEF IInv
<1>7. QED
  BY <1>2, <1>5, <1>6

\* The connection of r has been validated.
LEMMA StartedKept ==
    ASSUME IInv, NEW r \in Requests, Started(r)
    PROVE  IInv'
<1>1. /\ at[r] = "starting" /\ state[conn[r]] = "starting"
      /\ state' = [state EXCEPT ![conn[r]] = "active"] /\ Goes(r, "started")
      /\ UNCHANGED <<factoryVars, connectors, iter, result, answers, conn, connectorOf, byDestroy,
                     waiting, toFinish>>
  BY DEF Started, Runs
<1>2. /\ PlacesOK' /\ PendingOK' /\ CountOK' /\ QuietOK'
      /\ at' \in [Requests \cup {Destroyer} -> Places]
      /\ at'[r] = "started" /\ \A x \in Requests \ {r} : at'[x] = at[x]
  BY <1>1, StepTo DEF factoryVars, Connecting
<1>3. /\ conn[r] \in Ids
      /\ state'[conn[r]] = "active" /\ \A i \in Ids \ {conn[r]} : state'[i] = state[i]
  BY <1>1 DEF IInv, TypeOK, StartsOK
<1>4. TypeOK'
  <2>1. state' \in [Ids -> States]
    BY <1>1 DEF IInv, TypeOK, States
  <2>2. QED
    BY <1>1, <1>2, <2>1 DEF IInv, TypeOK, factoryVars
<1>5. \A x \in Requests :
         /\ at'[x] \in Connecting <=> at[x] \in Connecting
         /\ at'[x] \in {"starting", "started"} <=> at[x] \in {"starting", "started"}
         /\ x # r => (at'[x] = "starting" <=> at[x] = "starting")
  BY <1>1, <1>2 DEF Connecting
<1>6. StartsOK'
  <2>1. \A x \in Requests : at'[x] \in Connecting => iter'[x] \subseteq connectors'[x]
    BY <1>1, <1>5 DEF IInv, StartsOK
  <2>2. \A x \in Requests :
          IF at'[x] \in {"starting", "started"}
          THEN /\ conn'[x] \in Ids /\ state'[conn'[x]] # "none"
               /\ connectorOf'[conn'[x]] \in connectors'[x]
          ELSE conn'[x] = None
    BY <1>1, <1>3, <1>5 DEF IInv, StartsOK
  <2>3. \A i \in Ids : state'[i] = "starting"
                          => \E x \in Requests : at'[x] = "starting" /\ conn'[x] = i
    BY <1>1, <1>3, <1>5 DEF IInv, StartsOK
  <2>4. QED
    BY <1>1, <2>1, <2>2, <2>3 DEF IInv, StartsOK
<1>7. KnownOK'
  BY <1>1, <1>3 DEF IInv, TypeOK, KnownOK, factoryVars
<1>8. SharedOK'
  <2>1. \A i \in Ids : Live(i)' <=> Live(i)
    BY <1>1, <1>3 DEF Live, factoryVars
  <2>2. QED
    BY <1>1, <1>5, <2>1 DEF IInv, TypeOK, SharedOK, factoryVars
<1>9. QED
  BY <1>2, <1>4, <1>6, <1>7, <1>8 DEF IInv

\* It has not been: r gives it up.
LEMMA StartFailedKept ==
    ASSUME IInv, NEW r \in Requests, StartFailed(r)
    PROVE  IInv'
<1>1. /\ at[r] \in {"starting", "started"} /\ state[conn[r]] \in {"closed", "finished"}
      /\ conn' = [conn EXCEPT ![r] = None]
      /\ UNCHANGED <<factoryVars, connectors, iter, result, answers, connVars, waiting, toFinish>>
  BY DEF StartFailed, Runs
<1>2. PICK p \in {"connect", "failed"} : Goes(r, p)
  BY DEF StartFailed, NextConnector
<1>3. /\ PlacesOK' /\ PendingOK' /\ CountOK' /\ QuietOK'
      /\ at' \in [Requests \cup {Destroyer} -> Places]
      /\ at'[r] = p /\ \A x \in Requests \ {r} : at'[x] = at[x]
  BY <1>1, <1>2, StepTo DEF factoryVars, Connecting
<1>4. /\ conn' \in [Requests -> Ids \cup {None}]
      /\ conn'[r] = None /\ \A x \in Requests \ {r} : conn'[x] = conn[x]
  BY <1>1 DEF IInv, TypeOK
<1>5. TypeOK'
  BY <1>1, <1>3, <1>4 DEF IInv, TypeOK, factoryVars, connVars
<1>6. \A x \in Requests : /\ at'[x] \in Connecting <=> at[x] \in Connecting
                          /\ x # r => at'[x] = at[x]
                          /\ at'[r] \notin {"starting", "started"}
  BY <1>1, <1>3 DEF Connecting
<1>7. StartsOK'
  <2>1. \A x \in Requests : at'[x] \in Connecting => iter'[x] \subseteq connectors'[x]
    BY <1>1, <1>6 DEF IInv, StartsOK
  <2>2. \A x \in Requests :
          IF at'[x] \in {"starting", "started"}
          THEN /\ conn'[x] \in Ids /\ state'[conn'[x]] # "none"
               /\ connectorOf'[conn'[x]] \in connectors'[x]
          ELSE conn'[x] = None
    BY <1>1, <1>4, <1>6 DEF IInv, StartsOK, connVars
  <2>3. \A x, y \in Requests : conn'[x] # None /\ conn'[x] = conn'[y] => x = y
    BY <1>4 DEF IInv, StartsOK
  <2>4. \A i \in Ids : state'[i] = "starting"
                          => \E x \in Requests : at'[x] = "starting" /\ conn'[x] = i
    BY <1>1, <1>4, <1>6 DEF IInv, StartsOK, connVars
  <2>5. QED
    BY <2>1, <2>2, <2>3, <2>4 DEF StartsOK
<1>8. KnownOK'
  BY <1>1 DEF IInv, KnownOK, factoryVars, connVars
<1>9. SharedOK'
  <2>1. ~Live(conn[r])
    BY <1>1 DEF Live
  <2>2. QED
    BY <1>1, <1>4, <1>6, <2>1 DEF IInv, SharedOK, Live, factoryVars, connVars
<1>10. QED
  BY <1>3, <1>5, <1>7, <1>8, <1>9 DEF IInv

\* finishGetConnection() of r: all those that wait for a connector of r are answered or
\* try again.
LEMMA FinishKept ==
    ASSUME IInv, NEW r \in Requests, NEW answered, NEW retry, NEW removed,
           NEW res \in {"connection", "exception"},
           Finish(r, answered, retry, res),
           at[r] \in {"started", "failed"}, r \in answered,
           (answered \cup retry) \ {r} = WaitingFor(connectors[r]) \ {r},
           answered \cap retry = {},
           DOMAIN pending' = DOMAIN pending \ connectors[r],
           \A c \in DOMAIN pending' : pending'[c] = pending[c] \ removed,
           conn' = [conn EXCEPT ![r] = None], ~(\E i \in Ids : state[i] = "starting" /\ conn[r] = i),
           connectors' \in [Requests -> SUBSET Connectors],
           \A w \in Requests \ retry : w \in WaitingFor(connectors[r])
                                          \/ connectors'[w] = connectors[w],
           \A w \in retry : connectors'[w] # {} /\ connectors'[w] \subseteq connectors[w],
           removed \subseteq answered \cup retry,
           \A c \in DOMAIN pending \ connectors[r] :
              pending[c] \cap (answered \cup retry) \subseteq removed
    PROVE  IInv'
<1> DEFINE others == WaitingFor(connectors[r])
<1>1. \A w \in others : w \in Async /\ w \in Requests /\ at[w] = "pending" /\ w # r
  BY Kinds DEF IInv, PendingOK, WaitingFor
<1>2. at[r] \in Connecting /\ answers[r] = 0
  BY DEF Connecting, IInv, PlacesOK
<1>3. r \notin retry /\ answered = (others \ retry) \cup {r} /\ retry \subseteq others
  BY <1>1
<1> HIDE DEF others
<1>4. \A t \in Requests \cup {Destroyer} :
         at'[t] = IF t \in answered THEN IF t \in Async THEN "answer" ELSE "reply"
                  ELSE IF t \in retry THEN "get" ELSE at[t]
  BY <1>3 DEF Finish, IInv, TypeOK
<1>5. /\ \A w \in others : at'[w] = IF w \in retry THEN "get" ELSE "answer"
      /\ at'[r] = IF r \in Async THEN "answer" ELSE "reply"
      /\ \A x \in (Requests \cup {Destroyer}) \ (others \cup {r}) : at'[x] = at[x]
      /\ at'[Destroyer] = at[Destroyer]
  BY <1>1, <1>3, <1>4, Kinds
<1>6. /\ UNCHANGED <<destroyed, connections, reaper, pendingConnectCount, iter, answers, connVars,
                     toFinish>>
      /\ waiting' = {}
      /\ result' \in [Requests -> {"connection", "exception", None}]
  BY DEF Finish, NotifyAll, IInv, TypeOK
<1>7. /\ at' \in [Requests \cup {Destroyer} -> Places]
      /\ \A x \in Requests : at'[x] \in Places \ DestroyerPlaces
  <2>1. {"answer", "reply", "get"} \subseteq Places \ DestroyerPlaces
    BY DEF Places, DestroyerPlaces
  <2>2. \A t \in Requests \cup {Destroyer} : at'[t] \in Places
    BY <1>4, <2>1 DEF IInv, TypeOK
  <2>3. at' = [t \in Requests \cup {Destroyer} |-> at'[t]]
    BY DEF Finish, IInv, TypeOK
  <2>4. at' \in [Requests \cup {Destroyer} -> Places]
    BY <2>2, <2>3
  <2>5. \A x \in Requests : at'[x] \in Places \ DestroyerPlaces
    BY <1>4, <2>1 DEF IInv, PlacesOK
  <2>6. QED
    BY <2>4, <2>5
<1>8. /\ conn' \in [Requests -> Ids \cup {None}]
      /\ conn'[r] = None /\ \A x \in Requests \ {r} : conn'[x] = conn[x]
  BY DEF IInv, TypeOK
<1>9. TypeOK'
  BY <1>6, <1>7, <1>8 DEF IInv, TypeOK, connVars
<1>10. PlacesOK'
  <2>1. \A x \in Requests : at'[x] \notin {"decrement", "answered"} => answers'[x] = 0
    BY <1>1, <1>2, <1>5, <1>6 DEF IInv, PlacesOK
  <2>2. \A x \in Sync : at'[x] \notin {"count", "pending", "answer", "decrement"}
    BY <1>1, <1>5, Kinds DEF IInv, PlacesOK
  <2>3. \A x \in Async : at'[x] # "again"
    BY <1>1, <1>5, Kinds DEF IInv, PlacesOK
  <2>4. QED
    BY <1>5, <1>6, <1>7, <2>1, <2>2, <2>3 DEF IInv, PlacesOK
<1>11. \A x \in Requests : /\ at'[x] \in Connecting <=> at[x] \in Connecting /\ x # r
                           /\ at'[x] \in Connecting =>
                                 x \notin others /\ x # r /\ at'[x] = at[x] /\ connectors'[x] = connectors[x]
  <2>1. {"answer", "reply", "get", "pending"} \cap Connecting = {}
    BY DEF Connecting
  <2>2. QED
    BY <1>1, <1>3, <1>5, <2>1 DEF others
<1>12. PendingOK'
  <2>1. /\ DOMAIN pending' = DOMAIN pending \ connectors[r]
        /\ \A c \in DOMAIN pending' : pending'[c] = pending[c] \ removed
    OBVIOUS
  <2>2. removed \subseteq others \cup {r}
    BY <1>3
  <2>3. \A w \in Requests : at'[w] = "pending" => /\ at[w] = "pending" /\ w \notin others
                                                  /\ connectors'[w] = connectors[w]
    BY <1>3, <1>5 DEF others
  <2>4. \A x \in Requests : at'[x] \in {"get", "again", "pending"} \cup Connecting
                               => connectors'[x] # {}
    BY <1>3, <1>5, <1>11, <2>3 DEF IInv, PendingOK, others
  <2>5. \A x \in Requests : at'[x] \in Connecting => connectors'[x] \subseteq DOMAIN pending'
    BY <1>2, <1>11, <2>1 DEF IInv, PendingOK
  <2>6. \A x, y \in Requests :
          at'[x] \in Connecting /\ at'[y] \in Connecting /\ x # y
              => connectors'[x] \cap connectors'[y] = {}
    BY <1>11 DEF IInv, PendingOK
  <2>7. \A c \in DOMAIN pending' :
          \E x \in Requests : at'[x] \in Connecting /\ c \in connectors'[x]
    BY <1>11, <2>1 DEF IInv, PendingOK
  <2>8. \A c \in DOMAIN pending' : \A x \in pending'[c] :
          x \in Async /\ at'[x] = "pending" /\ c \in connectors'[x]
    <3> SUFFICES ASSUME NEW c \in DOMAIN pending', NEW x \in pending'[c]
                 PROVE  x \in Async /\ at'[x] = "pending" /\ c \in connectors'[x]
      OBVIOUS
    <3>1. x \in Async /\ x \in Requests /\ at[x] = "pending" /\ c \in connectors[x] /\ x # r
      BY <1>2, <2>1, Kinds DEF IInv, PendingOK, Connecting
    <3>2. x \notin answered \cup retry
      BY <2>1
    <3>3. at'[x] = at[x] /\ connectors'[x] = connectors[x]
      BY <1>3, <1>5, <3>1, <3>2 DEF others
    <3>4. QED
      BY <3>1, <3>3
  <2>9. \A w \in Async : at'[w] = "pending" => \E c \in DOMAIN pending' : w \in pending'[c]
    <3> SUFFICES ASSUME NEW w \in Async, at'[w] = "pending"
                 PROVE  \E c \in DOMAIN pending' : w \in pending'[c]
      OBVIOUS
    <3>1. at[w] = "pending" /\ w \notin others /\ w # r
      BY <1>5, <2>3, Kinds
    <3>2. PICK c \in DOMAIN pending : w \in pending[c]
      BY <3>1 DEF IInv, PendingOK
    <3>3. c \notin connectors[r]
      BY <3>1, <3>2 DEF others, WaitingFor
    <3>4. QED
      BY <2>1, <2>2, <3>1, <3>2, <3>3
  <2>10. QED
    BY <2>1, <2>4, <2>5, <2>6, <2>7, <2>8, <2>9 DEF IInv, PendingOK
<1>13. CountOK'
  <2>1. \A x \in Async : at'[x] \in Counted <=> at[x] \in Counted
    BY <1>1, <1>2, <1>5, Kinds DEF Counted
  <2>2. QED
    BY <1>6, <2>1, CountSame DEF IInv
<1>14. StartsOK'
  <2>1. \A x \in Requests : at'[x] \in {"starting", "started"} => x # r /\ at'[x] \in Connecting
    BY <1>5 DEF Connecting
  <2>2. \A x \in Requests :
          IF at'[x] \in {"starting", "started"}
          THEN /\ conn'[x] \in Ids /\ state'[conn'[x]] # "none"
               /\ connectorOf'[conn'[x]] \in connectors'[x]
          ELSE conn'[x] = None
    <3> SUFFICES ASSUME NEW x \in Requests
                 PROVE  IF at'[x] \in {"starting", "started"}
                        THEN /\ conn'[x] \in Ids /\ state'[conn'[x]] # "none"
                             /\ connectorOf'[conn'[x]] \in connectors'[x]
                        ELSE conn'[x] = None
      OBVIOUS
    <3>1. CASE x = r
      BY <1>5, <1>8, <3>1
    <3>2. CASE x \in others
      BY <1>1, <1>5, <1>8, <3>2 DEF IInv, StartsOK
    <3>3. CASE x # r /\ x \notin others
      BY <1>3, <1>5, <1>6, <1>8, <1>11, <2>1, <3>3 DEF IInv, StartsOK, connVars, others
    <3>4. QED
      BY <3>1, <3>2, <3>3
  <2>3. \A x \in Requests : at'[x] \in Connecting => iter'[x] \subseteq connectors'[x]
    BY <1>6, <1>11 DEF IInv, StartsOK
  <2>4. \A x, y \in Requests : conn'[x] # None /\ conn'[x] = conn'[y] => x = y
    BY <1>8 DEF IInv, StartsOK
  <2>5. \A i \in Ids : state'[i] = "starting"
                          => \E x \in Requests : at'[x] = "starting" /\ conn'[x] = i
    <3> SUFFICES ASSUME NEW i \in Ids, state[i] = "starting"
                 PROVE  \E x \in Requests : at'[x] = "starting" /\ conn'[x] = i
      BY <1>6 DEF connVars
    <3>1. PICK x \in Requests : at[x] = "starting" /\ conn[x] = i
      BY DEF IInv, StartsOK
    <3>2. x # r /\ x \notin others
      BY <1>1, <3>1
    <3>3. QED
      BY <1>5, <1>8, <3>1, <3>2
  <2>6. QED
    BY <2>2, <2>3, <2>4, <2>5 DEF StartsOK
<1>15. KnownOK'
  BY <1>6 DEF IInv, KnownOK, connVars
<1>16. SharedOK'
  BY <1>6, <1>8, <1>11 DEF IInv, SharedOK, Live, connVars
<1>17. QuietOK'
  BY <1>2, <1>5, Quiet DEF QuietOK
<1>18. QED
  BY <1>9, <1>10, <1>12, <1>13, <1>14, <1>15, <1>16, <1>17 DEF IInv

\* finishGetConnection() with a connection: those who wait leave all entries.
LEMMA FinishConnectedKept ==
    ASSUME IInv, NEW r \in Requests, FinishConnected(r)
    PROVE  IInv'
<1> DEFINE others == WaitingFor(connectors[r])
           share  == {w \in others : connectorOf[conn[r]] \in connectors[w]}
           D == others
           A == share \cup {r}
           R == others \ share
<1>1. /\ at[r] = "started" /\ UNCHANGED connectors
      /\ pending' = [c \in DOMAIN pending \ connectors[r] |-> pending[c] \ D]
      /\ Finish(r, A, R, "connection")
      /\ conn' = [conn EXCEPT ![r] = None]
  BY DEF FinishConnected, Runs
<1>2. \A w \in others : w \in Requests /\ at[w] = "pending" /\ w # r /\ connectors[w] # {}
  BY <1>1, Kinds DEF IInv, PendingOK, WaitingFor
<1>3. ~(\E i \in Ids : state[i] = "starting" /\ conn[r] = i)
  <2> SUFFICES ASSUME NEW i \in Ids, state[i] = "starting", conn[r] = i
               PROVE  FALSE
    OBVIOUS
  <2>1. PICK x \in Requests : at[x] = "starting" /\ conn[x] = i
    BY DEF IInv, StartsOK
  <2>2. x = r
    BY <2>1, RequestsAssumption DEF IInv, StartsOK
  <2>3. QED
    BY <1>1, <2>1, <2>2
<1>4. /\ (A \cup R) \ {r} = others \ {r}
      /\ A \cap R = {}
      /\ D \subseteq A \cup R
  BY <1>2
<1>5. \A c \in DOMAIN pending \ connectors[r] :
         pending[c] \cap (A \cup R) \subseteq D
  <2>1. \A c \in DOMAIN pending : r \notin pending[c]
    BY <1>1 DEF IInv, PendingOK
  <2>2. QED
    BY <2>1
<1>6. connectors' \in [Requests -> SUBSET Connectors]
  BY <1>1 DEF IInv, TypeOK
<1>7. \A w \in R : connectors'[w] # {} /\ connectors'[w] \subseteq connectors[w]
  BY <1>1, <1>2
<1>8. \A w \in Requests \ R : w \in others \/ connectors'[w] = connectors[w]
  BY <1>1
<1> HIDE DEF A, R, D, share
<1>9. /\ r \in A /\ at[r] \in {"started", "failed"} /\ Finish(r, A, R, "connection")
      /\ DOMAIN pending' = DOMAIN pending \ connectors[r]
      /\ \A c \in DOMAIN pending' : pending'[c] = pending[c] \ D
      /\ conn' = [conn EXCEPT ![r] = None]
  BY <1>1 DEF A
<1>10. QED
  BY <1>3, <1>4, <1>5, <1>6, <1>7, <1>8, <1>9, FinishKept

\* finishGetConnection() with an exception: those that are answered have no entry left,
\* because they wait for connectors of r only.
LEMMA FinishFailedKept ==
    ASSUME IInv, NEW r \in Requests, FinishFailed(r)
    PROVE  IInv'
<1> DEFINE others == WaitingFor(connectors[r])
           A == (others \ Retry(r)) \cup {r}
           R == Retry(r)
<1>1. /\ at[r] = "failed" /\ UNCHANGED conn
      /\ connectors' = [w \in Requests |-> IF w \in others THEN Left(w, r) ELSE connectors[w]]
      /\ pending' = [c \in DOMAIN pending \ connectors[r] |-> pending[c] \ R]
      /\ Finish(r, A, R, "exception")
  BY DEF FinishFailed, FinishRemoving, Runs
<1>2. /\ \A w \in others : w \in Requests /\ at[w] = "pending" /\ w # r
      /\ Retry(r) \subseteq others
      /\ \A w \in Retry(r) : Left(w, r) # {}
      /\ \A w \in others \ Retry(r) : Left(w, r) = {}
  BY <1>1, Kinds DEF IInv, PendingOK, WaitingFor, Retry
<1>3. conn[r] = None
  BY <1>1 DEF IInv, StartsOK
<1>4. conn' = [conn EXCEPT ![r] = None] /\ ~(\E i \in Ids : state[i] = "starting" /\ conn[r] = i)
  BY <1>1, <1>3, RequestsAssumption DEF IInv, TypeOK
<1>5. /\ (A \cup R) \ {r} = others \ {r}
      /\ A \cap R = {}
      /\ R \subseteq A \cup R
  BY <1>2
<1>6. \A c \in DOMAIN pending \ connectors[r] :
         pending[c] \cap (A \cup R) \subseteq R
  <2> SUFFICES ASSUME NEW c \in DOMAIN pending \ connectors[r],
                      NEW w \in pending[c], w = r \/ w \in others \ Retry(r)
               PROVE  FALSE
    OBVIOUS
  <2>1. at[w] = "pending" /\ c \in connectors[w]
    BY DEF IInv, PendingOK
  <2>2. w \in others \ Retry(r)
    BY <1>1, <2>1
  <2>3. connectors[w] \subseteq connectors[r]
    BY <1>2, <2>2 DEF Left
  <2>4. QED
    BY <2>1, <2>3
<1>7. connectors' \in [Requests -> SUBSET Connectors]
  BY <1>1 DEF IInv, TypeOK, Left
<1>8. \A w \in R : connectors'[w] # {} /\ connectors'[w] \subseteq connectors[w]
  <2>1. \A w \in Retry(r) : connectors'[w] = Left(w, r)
    BY <1>1, <1>2
  <2>2. QED
    BY <1>2, <2>1 DEF Left
<1>9. \A w \in Requests \ R : w \in others \/ connectors'[w] = connectors[w]
  BY <1>1
<1> HIDE DEF A, R
<1>10. /\ r \in A
       /\ DOMAIN pending' = DOMAIN pending \ connectors[r]
       /\ \A c \in DOMAIN pending' : pending'[c] = pending[c] \ R
  BY <1>1 DEF A
<1>11. QED
  BY <1>1, <1>4, <1>5, <1>6, <1>7, <1>8, <1>9, <1>10, FinishKept

-----------------------------------------------------------------------------
(***************************************************************************)
(* Steps of connections and of the destroyer                               *)
(***************************************************************************)

\* A connection is lost or closed.
LEMMA CloseKept ==
    ASSUME IInv, NEW i \in Ids, Close(i)
    PROVE  IInv'
<1>1. /\ state[i] \in {"starting", "active"} /\ state' = [state EXCEPT ![i] = "closed"]
      /\ UNCHANGED <<factoryVars, requestVars, connectorOf, byDestroy, waiting, toFinish>>
  BY DEF Close
<1>2. /\ state' \in [Ids -> States] /\ state'[i] = "closed"
      /\ \A j \in Ids \ {i} : state'[j] = state[j]
      /\ i \in connections
  BY <1>1 DEF IInv, TypeOK, States, KnownOK
<1>3. TypeOK'
  BY <1>1, <1>2 DEF IInv, TypeOK, factoryVars, requestVars
<1>4. PlacesOK' /\ PendingOK' /\ QuietOK'
  BY <1>1 DEF IInv, PlacesOK, PendingOK, QuietOK, factoryVars, requestVars
<1>5. CountOK'
  BY <1>1, CountSame DEF IInv, factoryVars, requestVars
<1>6. StartsOK'
  BY <1>1, <1>2 DEF IInv, StartsOK, requestVars
<1>7. KnownOK'
  BY <1>1, <1>2 DEF IInv, TypeOK, KnownOK, factoryVars
<1>8. SharedOK'
  BY <1>1, <1>2 DEF IInv, TypeOK, SharedOK, Live, factoryVars, requestVars
<1>9. QED
  BY <1>3, <1>4, <1>5, <1>6, <1>7, <1>8 DEF IInv

\* The reaper gets a connection.
LEMMA FinishConnectionKept ==
    ASSUME IInv, NEW i \in Ids, FinishConnection(i)
    PROVE  IInv'
<1>1. /\ state[i] = "closed" /\ state' = [state EXCEPT ![i] = "finished"]
      /\ reaper' = reaper \cup {i}
      /\ UNCHANGED <<destroyed, connections, pending, pendingConnectCount, requestVars,
                     connectorOf, byDestroy, waiting, toFinish>>
  BY DEF FinishConnection
<1>2. /\ state' \in [Ids -> States] /\ state'[i] = "finished"
      /\ \A j \in Ids \ {i} : state'[j] = state[j]
      /\ i \in connections
  BY <1>1 DEF IInv, TypeOK, States, KnownOK
<1>3. TypeOK'
  BY <1>1, <1>2 DEF IInv, TypeOK, requestVars
<1>4. PlacesOK' /\ PendingOK' /\ QuietOK'
  BY <1>1 DEF IInv, PlacesOK, PendingOK, QuietOK, requestVars
<1>5. CountOK'
  BY <1>1, CountSame DEF IInv, requestVars
<1>6. StartsOK'
  BY <1>1, <1>2 DEF IInv, StartsOK, requestVars
<1>7. KnownOK'
  BY <1>1, <1>2 DEF IInv, TypeOK, KnownOK
<1>8. SharedOK'
  BY <1>1, <1>2 DEF IInv, TypeOK, SharedOK, Live, requestVars
<1>9. QED
  BY <1>3, <1>4, <1>5, <1>6, <1>7, <1>8 DEF IInv

\* What at' is when the destroyer goes to p.
LEMMA DestroyerGoes ==
    ASSUME IInv, NEW p \in DestroyerPlaces, Goes(Destroyer, p)
    PROVE  /\ at' \in [Requests \cup {Destroyer} -> Places]
           /\ at'[Destroyer] = p /\ \A r \in Requests : at'[r] = at[r]
BY Kinds DEF IInv, TypeOK, Goes, Places, DestroyerPlaces

\* The destroyer changes no request.
LEMMA RequestsSame ==
    ASSUME IInv, \A r \in Requests : at'[r] = at[r],
           UNCHANGED <<pending, connectors, pendingConnectCount>>
    PROVE  PendingOK' /\ CountOK'
<1>1. PendingOK'
  BY Kinds DEF IInv, PendingOK
<1>2. CountOK'
  BY Kinds, CountSame DEF IInv
<1>3. QED
  BY <1>1, <1>2

\* destroy().
LEMMA DestroyKept ==
    ASSUME IInv, Destroy
    PROVE  IInv'
<1> DEFINE live == {i \in connections : state[i] \in {"starting", "active"}}
<1>1. /\ at[Destroyer] = "running" /\ destroyed' = TRUE
      /\ state' = [i \in Ids |-> IF i \in live THEN "closed" ELSE state[i]]
      /\ byDestroy' = byDestroy \cup live /\ waiting' = {} /\ Goes(Destroyer, "wait")
      /\ UNCHANGED <<connections, reaper, pending, pendingConnectCount, connectors, iter, result,
                     answers, conn, connectorOf, toFinish>>
  BY DEF Destroy, Runs, NotifyAll
<1>2. /\ at' \in [Requests \cup {Destroyer} -> Places]
      /\ at'[Destroyer] = "wait" /\ \A r \in Requests : at'[r] = at[r]
  BY <1>1, DestroyerGoes DEF DestroyerPlaces
<1>3. /\ \A i \in Ids : state'[i] = IF i \in live THEN "closed" ELSE state[i]
      /\ state' \in [Ids -> States] /\ live \subseteq Ids
  BY <1>1 DEF IInv, TypeOK, States
<1>4. TypeOK'
  BY <1>1, <1>2, <1>3 DEF IInv, TypeOK
<1>5. PlacesOK'
  BY <1>1, <1>2, Kinds DEF IInv, PlacesOK, DestroyerPlaces
<1>6. PendingOK' /\ CountOK'
  BY <1>1, <1>2, RequestsSame
<1>7. StartsOK'
  BY <1>1, <1>2, <1>3 DEF IInv, StartsOK
<1>8. KnownOK'
  BY <1>1, <1>3 DEF IInv, TypeOK, KnownOK
<1>9. SharedOK'
  BY <1>1, <1>2, <1>3 DEF IInv, TypeOK, SharedOK, Live
<1>10. QuietOK'
  BY <1>2 DEF QuietOK
<1>11. QED
  BY <1>4, <1>5, <1>6, <1>7, <1>8, <1>9, <1>10 DEF IInv

\* The first section of waitUntilFinished().
LEMMA WaitUntilFinishedKept ==
    ASSUME IInv, WaitUntilFinished
    PROVE  IInv'
<1>1. /\ at[Destroyer] = "wait"
      /\ UNCHANGED <<factoryVars, connectors, iter, result, answers, conn, connVars>>
      /\ waiting' \subseteq waiting \cup {Destroyer}
      /\ \/ UNCHANGED <<at, toFinish>>
         \/ /\ DOMAIN pending = {} /\ ~(pendingConnectCount > 0)
            /\ toFinish' = connections /\ Goes(Destroyer, "finish")
  BY DEF WaitUntilFinished, WaitWhile, Runs
<1>2. /\ at' \in [Requests \cup {Destroyer} -> Places]
      /\ at'[Destroyer] \in {"wait", "finish"} /\ \A r \in Requests : at'[r] = at[r]
      /\ at'[Destroyer] = "finish"
            => DOMAIN pending = {} /\ ~(pendingConnectCount > 0) /\ toFinish' = connections
  BY <1>1, DestroyerGoes DEF IInv, TypeOK, DestroyerPlaces
<1>3. toFinish' \subseteq Ids
  BY <1>1 DEF IInv, TypeOK
<1>4. TypeOK'
  BY <1>1, <1>2, <1>3 DEF IInv, TypeOK, factoryVars, connVars
<1>5. PlacesOK'
  BY <1>1, <1>2, Kinds DEF IInv, PlacesOK, DestroyerPlaces, factoryVars
<1>6. PendingOK' /\ CountOK'
  BY <1>1, <1>2, RequestsSame DEF factoryVars
<1>7. StartsOK' /\ KnownOK' /\ SharedOK'
  BY <1>1, <1>2 DEF IInv, StartsOK, KnownOK, SharedOK, Live, factoryVars, connVars
<1>8. QuietOK'
  <2>1. ~(pendingConnectCount > 0) => pendingConnectCount = 0
    BY DEF IInv, TypeOK
  <2>2. QED
    BY <1>1, <1>2, <2>1 DEF QuietOK, factoryVars
<1>9. QED
  BY <1>4, <1>5, <1>6, <1>7, <1>8 DEF IInv

\* The last section of waitUntilFinished().
LEMMA FinishedKept ==
    ASSUME IInv, Finished
    PROVE  IInv'
<1>1. /\ at[Destroyer] = "finish" /\ \A i \in toFinish : state[i] = "finished"
      /\ connections' = {} /\ reaper' = {} /\ Goes(Destroyer, "finished")
      /\ UNCHANGED <<destroyed, pending, pendingConnectCount, connectors, iter, result, answers,
                     conn, connVars, waiting, toFinish>>
  BY DEF Finished, Runs
<1>2. /\ at' \in [Requests \cup {Destroyer} -> Places]
      /\ at'[Destroyer] = "finished" /\ \A r \in Requests : at'[r] = at[r]
  BY <1>1, DestroyerGoes DEF DestroyerPlaces
<1>3. TypeOK'
  BY <1>1, <1>2 DEF IInv, TypeOK, connVars
<1>4. PlacesOK'
  BY <1>1, <1>2, Kinds DEF IInv, PlacesOK, DestroyerPlaces
<1>5. PendingOK' /\ CountOK'
  BY <1>1, <1>2, RequestsSame
<1>6. StartsOK'
  BY <1>1, <1>2 DEF IInv, StartsOK, connVars
<1>7. KnownOK'
  BY <1>1 DEF IInv, QuietOK, KnownOK, connVars
<1>8. SharedOK'
  BY <1>1 DEF SharedOK
<1>9. QuietOK'
  BY <1>1, <1>2 DEF IInv, QuietOK
<1>10. QED
  BY <1>3, <1>4, <1>5, <1>6, <1>7, <1>8, <1>9 DEF IInv

-----------------------------------------------------------------------------
(***************************************************************************)
(* Theorems                                                                *)
(***************************************************************************)

\* IInv holds initially.
LEMMA InitIInv == Init => IInv
<1> SUFFICES ASSUME Init PROVE IInv
  OBVIOUS
<1>1. /\ at[Destroyer] = "running" /\ \A r \in Requests : at[r] = "idle"
      /\ DOMAIN pending = {}
  BY Kinds DEF Init
<1>2. TypeOK
  BY Kinds DEF Init, TypeOK, Places, States
<1>3. PlacesOK
  BY <1>1, Kinds DEF Init, PlacesOK, Places, DestroyerPlaces
<1>4. PendingOK
  BY <1>1, Kinds DEF PendingOK, Connecting
<1>5. CountOK
  <2>1. UnderWay = {}
    BY <1>1, Kinds DEF UnderWay, Counted, Connecting
  <2>2. QED
    BY <2>1, FS_EmptySet DEF Init, CountOK
<1>6. StartsOK /\ KnownOK /\ SharedOK
  BY <1>1 DEF Init, StartsOK, KnownOK, SharedOK, Connecting
<1>7. QuietOK
  BY <1>1 DEF QuietOK
<1>8. QED
  BY <1>2, <1>3, <1>4, <1>5, <1>6, <1>7 DEF IInv

\* Every step keeps IInv.
LEMMA NextIInv == IInv /\ [Next]_vars => IInv'
<1> SUFFICES ASSUME IInv, [Next]_vars PROVE IInv'
  OBVIOUS
<1>1. ASSUME NEW r \in Requests, Create(r) \/ Proceed(r) PROVE IInv'
  BY <1>1, CreateKept, GetConnectorsKept, ResolveKept, GetConnectionKept, CreateConnectionKept,
     StartedKept, StartFailedKept, FinishConnectedKept, FinishFailedKept, ReplyKept, DecrementKept
     DEF Proceed
<1>2. ASSUME NEW i \in Ids, Close(i) \/ FinishConnection(i) PROVE IInv'
  BY <1>2, CloseKept, FinishConnectionKept
<1>3. CASE Destroy \/ EndDestroy
  BY <1>3, DestroyKept, WaitUntilFinishedKept, FinishedKept DEF EndDestroy
<1>4. CASE UNCHANGED vars
  <2>1. UNCHANGED <<destroyed, connections, reaper, pending, pendingConnectCount, connectors, iter,
                    at, result, answers, conn, state, connectorOf, byDestroy, waiting, toFinish>>
    BY <1>4 DEF vars, factoryVars, requestVars, connVars
  <2>2. TypeOK' /\ PlacesOK' /\ QuietOK'
    BY <2>1 DEF IInv, TypeOK, PlacesOK, QuietOK
  <2>3. PendingOK' /\ CountOK'
    BY <2>1, RequestsSame
  <2>4. StartsOK' /\ KnownOK' /\ SharedOK'
    BY <2>1 DEF IInv, StartsOK, KnownOK, SharedOK, Live
  <2>5. QED
    BY <2>2, <2>3, <2>4 DEF IInv
<1>5. QED
  BY <1>1, <1>2, <1>3, <1>4 DEF Next

\* IInv holds in every reachable state.
THEOREM Invariance == Spec => []IInv
<1>1. QED
  BY InitIInv, NextIInv, PTL DEF Spec

\* A connector is registered in _pending by the one request that connects to it.
LEMMA OneRegistrant ==
    ASSUME IInv, NEW c \in Connectors
    PROVE  Cardinality({r \in Requests : at[r] \in Connecting /\ c \in connectors[r]})
               = IF c \in DOMAIN pending THEN 1 ELSE 0
<1> DEFINE S == {r \in Requests : at[r] \in Connecting /\ c \in connectors[r]}
<1>1. CASE c \in DOMAIN pending
  <2>1. PICK r \in Requests : at[r] \in Connecting /\ c \in connectors[r]
    BY <1>1 DEF IInv, PendingOK
  <2>2. S = {r}
    BY <2>1 DEF IInv, PendingOK
  <2>3. QED
    BY <1>1, <2>2, FS_Singleton
<1>2. CASE c \notin DOMAIN pending
  <2>1. S = {}
    BY <1>2 DEF IInv, PendingOK
  <2>2. QED
    BY <1>2, <2>1, FS_EmptySet
<1>3. QED
  BY <1>1, <1>2

\* _pending says who connects to what and who waits for it, and the counter is exact
\* (getConnection(), addToPending(), removeFromPending(), finishGetConnection()).
THEOREM PendingConsistent == Spec => []Consistent
<1>1. IInv => Consistent
  <2> SUFFICES ASSUME IInv PROVE Consistent
    OBVIOUS
  <2>1. TypeOK
    BY DEF IInv
  <2>2. \A c \in Connectors :
          Cardinality({r \in Requests : at[r] \in Connecting /\ c \in connectors[r]})
              = IF c \in DOMAIN pending THEN 1 ELSE 0
    BY OneRegistrant
  <2>3. \A c \in DOMAIN pending :
          pending[c] \subseteq {r \in Async : at[r] = "pending" /\ c \in connectors[r]}
    BY DEF IInv, PendingOK
  <2>4. \A r \in Async : at[r] = "pending" => \E c \in DOMAIN pending : r \in pending[c]
    BY DEF IInv, PendingOK
  <2>5. pendingConnectCount = Cardinality({r \in Async : at[r] \in Counted})
    BY DEF IInv, CountOK, UnderWay
  <2>6. QED
    BY <2>1, <2>2, <2>3, <2>4, <2>5 DEF Consistent
<1>2. QED
  BY <1>1, Invariance, PTL

\* Two connections to one connector are never live at once (getConnection()).
THEOREM ConnectionsShared == Spec => []OneConnection
<1>1. IInv => OneConnection
  BY DEF IInv, SharedOK, Live, OneConnection
<1>2. QED
  BY <1>1, Invariance, PTL

\* After its first section waitUntilFinished() has all connections, and no callback is
\* under way.
THEOREM QuietWhenFinishing == Spec => []QuietOnceFinishing
<1>1. IInv => QuietOnceFinishing
  <2> SUFFICES ASSUME IInv, at[Destroyer] \in {"finish", "finished"}
               PROVE  /\ \A r \in Async : at[r] \notin Counted
                      /\ \A r \in Sync : at[r] \notin Connecting
                      /\ at[Destroyer] = "finish" => connections = toFinish
                      /\ (\A i \in toFinish : state[i] = "finished") => reaper = connections
    BY DEF QuietOnceFinishing
  <2>1. /\ \A r \in Async : at[r] \notin Counted
        /\ \A r \in Sync : at[r] \notin Connecting
    BY Quiet, Kinds
  <2>2. at[Destroyer] = "finish" => connections = toFinish
    BY DEF IInv, QuietOK
  <2>3. (\A i \in toFinish : state[i] = "finished") => reaper = connections
    BY DEF IInv, QuietOK, KnownOK
  <2>4. QED
    BY <2>1, <2>2, <2>3
<1>2. QED
  BY <1>1, Invariance, PTL
=============================================================================
