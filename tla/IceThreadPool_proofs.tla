------------------------ MODULE IceThreadPool_proofs ------------------------
(***************************************************************************)
(* Proofs about IceThreadPool, for all sets of handlers and threads and    *)
(* all configurations of the pool: the four invariants that TLC checks on  *)
(* the instance of MCIceThreadPool.                                        *)
(***************************************************************************)
EXTENDS IceThreadPool, FiniteSetTheorems, TLAPS

Selecting == {"select", "timedout", "selected"}

\* The pool will call message() of s, or is about to do so.
Listed(s) == \/ \E i \in 1..Len(handlers) : handlers[i] = s
             \/ \E t \in Threads : \E i \in 1..Len(batch[t]) : batch[t][i] = s
             \/ \E t \in Threads : pc[t] = "message" /\ current[t] = s

\* The threads that have not ended are the pool's.  A pool of one thread does not
\* count I/O, and its thread never waits.
ThreadsOK ==
    /\ \A t \in Threads : pc[t] # "ended" => t \in threads
    /\ leaders \subseteq threads
    /\ Cardinality(Unjoined) <= MaxUnjoined
    /\ ~Many => /\ \E x \in Threads : threads = {x}
                /\ inUseIO = 0
                /\ \A t \in Threads : pc[t] # "waiting"

\* There is a leader unless a follower may become one.  It selects or does I/O, and
\* who selects has nothing left to share out.
LeadersOK ==
    /\ promote => leaders = {}
    /\ ~promote => \E t \in Threads : leaders = {t}
    /\ \A t \in Threads : pc[t] \in Selecting => t \in leaders
    /\ Many => \A t \in leaders : pc[t] \in Selecting \cup IO
    /\ \A t \in Threads : pc[t] \in Selecting => handlers = <<>>
    /\ \A t, u \in Threads : pc[t] \in Selecting => pc[u] \notin IO

\* The counters; destroyed threads stay in inUse.
CountsOK ==
    Many => /\ inUseIO = Cardinality(At(IO)) /\ inUseIO <= pool.sizeIO
            /\ Cardinality(At({"upcall"})) <= inUse
            /\ ~destroyed => inUse = Cardinality(At({"upcall"}))

\* A handler is at one place only: in the list, in a batch, or served.
ListsOK ==
    /\ \A i, j \in 1..Len(handlers) : handlers[i] = handlers[j] => i = j
    /\ \A t \in Threads : \A i, j \in 1..Len(batch[t]) : batch[t][i] = batch[t][j] => i = j
    /\ \A t \in Threads : batch[t] # <<>> => pc[t] = "selected"
    /\ \A t \in Threads : pc[t] \in IO \cup {"upcall"} => current[t] \in Sources
    /\ \A t \in Threads : pc[t] = "execute" => current[t] = WorkQueue
    /\ \A t \in Threads : pc[t] \in IO => \A i \in 1..Len(handlers) : handlers[i] # current[t]
    /\ \A t, u \in Threads : pc[t] \in IO /\ pc[u] \in IO /\ current[t] = current[u] => t = u

\* Until destroy() there is a byte in the pipe if there are items, and the work queue
\* is served only then.
QueueOK ==
    ~destroyed => /\ pipe = IF workItems = <<>> THEN 0 ELSE 1
                  /\ Listed(WorkQueue) => workItems # <<>>

\* The pool grows before all of its threads are in use.
RoomOK == Many /\ ~destroyed /\ inUse < pool.sizeMax => inUse < Cardinality(threads)

\* A handler that has closed is not in the selector any more.  Its item is the next one
\* only when the pool has forgotten the handler.
FinishOK ==
    \A h \in Handlers :
        /\ closed[h] # "open" => h \notin registered
        /\ \A i \in 1..Len(workItems) : workItems[i] = <<"finished", h>> => closed[h] # "open"
        /\ \A t \in Threads : item[t] = <<"finished", h>> => closed[h] # "open" /\ ~Listed(h)
        /\ Listed(WorkQueue) /\ workItems # <<>> /\ Head(workItems) = <<"finished", h>>
              => ~Listed(h)
        /\ closed[h] = "finished" => ~Listed(h)

\* With Serialize a handler in an upcall is disabled, and a disabled one is nowhere else.
SerialOK ==
    Many /\ pool.serialize /\ ~destroyed =>
        /\ \A t \in Threads : pc[t] = "upcall" => current[t] \in disabled
        /\ \A t, u \in Threads :
              pc[t] = "upcall" /\ pc[u] = "upcall" /\ current[t] = current[u] => t = u
        /\ \A s \in disabled : ~Listed(s) /\ \A t \in Threads : pc[t] \in IO => current[t] # s

Control == ThreadsOK /\ LeadersOK /\ CountsOK /\ RoomOK
IInv    == TypeOK /\ Control /\ ListsOK /\ QueueOK /\ FinishOK /\ SerialOK

-----------------------------------------------------------------------------
(***************************************************************************)
(* Sets of threads and sequences                                           *)
(***************************************************************************)

\* There are finitely many threads.
LEMMA ThreadsFinite ==
    ASSUME TypeOK
    PROVE  IsFiniteSet(Threads)
BY PoolsAssumption DEF TypeOK

\* The configuration of the pool is valid.
LEMMA PoolValid ==
    ASSUME TypeOK
    PROVE  /\ pool.size \in Nat \ {0} /\ pool.sizeMax \in Nat /\ pool.sizeMax >= pool.size
           /\ pool.sizeIO \in Nat /\ pool.sizeIO >= 1 /\ pool.sizeIO <= pool.sizeMax
           /\ Cardinality(Threads) >= pool.sizeMax + MaxUnjoined
           /\ MaxUnjoined \in Nat
BY PoolsAssumption, NamesAssumption DEF TypeOK

\* The number of threads in a set of them.
LEMMA Counted ==
    ASSUME IsFiniteSet(Threads), NEW T \in SUBSET Threads
    PROVE  IsFiniteSet(T) /\ Cardinality(T) \in Nat
BY FS_Subset, FS_CardinalityType

\* Every set of threads has a part of each smaller size.
LEMMA PartOfSize ==
    ASSUME IsFiniteSet(Threads), NEW n \in Nat, n <= Cardinality(Threads)
    PROVE  \E T \in SUBSET Threads : Cardinality(T) = n
<1> DEFINE N == Cardinality(Threads)
<1>1. N \in Nat /\ ExistsBijection(1..N, Threads)
  BY FS_CardinalityType
<1>2. PICK f \in Bijection(1..N, Threads) : TRUE
  BY <1>1 DEF ExistsBijection
<1> DEFINE T == {f[i] : i \in 1..n}
           g == [i \in 1..n |-> f[i]]
<1>3. f \in [1..N -> Threads] /\ \A i, j \in 1..N : f[i] = f[j] => i = j
  BY <1>2 DEF Bijection, Injection, Surjection, IsInjective
<1>4. T \in SUBSET Threads
  BY <1>1, <1>3
<1>5. g \in [1..n -> T] /\ \A i, j \in 1..n : g[i] = g[j] => i = j
  BY <1>1, <1>3
<1>6. \A x \in T : \E i \in 1..n : g[i] = x
  OBVIOUS
<1>7. g \in Bijection(1..n, T)
  BY <1>5, <1>6 DEF Bijection, Injection, Surjection, IsInjective
<1>8. IsFiniteSet(1..n) /\ Cardinality(1..n) = n
  BY FS_Interval
<1>9. Cardinality(T) = n
  BY <1>7, <1>8, FS_Bijection DEF ExistsBijection
<1> QED
  BY <1>4, <1>9

\* A sequence that holds each element of a finite set once.
LEMMA OrderOnce ==
    ASSUME NEW S, IsFiniteSet(S), NEW s \in Orders(S)
    PROVE  /\ s \in Seq(S)
           /\ \A i, j \in 1..Len(s) : s[i] = s[j] => i = j
<1>1. Cardinality(S) \in Nat
  BY FS_CardinalityType
<1>2. s \in [1..Cardinality(S) -> S] /\ \A x \in S : \E i \in DOMAIN s : s[i] = x
  BY DEF Orders
<1>3. IsFiniteSet(1..Cardinality(S)) /\ Cardinality(1..Cardinality(S)) = Cardinality(S)
  BY <1>1, FS_Interval
<1>4. s \in Surjection(1..Cardinality(S), S)
  BY <1>2 DEF Surjection
<1>5. s \in Injection(1..Cardinality(S), S)
  BY <1>3, <1>4, FS_SurjSameCardinalityImpliesInj
<1>6. s \in Seq(S) /\ Len(s) = Cardinality(S)
  BY <1>1, <1>2
<1> QED
  BY <1>2, <1>5, <1>6 DEF Injection, IsInjective

\* The first element and the rest.
LEMMA HeadAndTail ==
    ASSUME NEW S, NEW s \in Seq(S), s # <<>>
    PROVE  /\ Head(s) = s[1] /\ s[1] \in S /\ Len(s) \in Nat \ {0}
           /\ Tail(s) \in Seq(S) /\ Len(Tail(s)) = Len(s) - 1
           /\ \A i \in 1..Len(Tail(s)) : Tail(s)[i] = s[i + 1]
OBVIOUS

\* A notification wakes waiting threads only.
LEMMA Notified ==
    ASSUME NEW p \in [Threads -> Places], NEW when \in BOOLEAN, NEW q \in Notify(p, when)
    PROVE  /\ q \in [Threads -> Places]
           /\ \A u \in Threads : q[u] = p[u] \/ (p[u] = "waiting" /\ q[u] = "notified")
BY DEF Notify, Places

-----------------------------------------------------------------------------
(***************************************************************************)
(* What a thread does after message() or select(): it waits, serves the    *)
(* next handler, yields the leadership or selects.                         *)
(***************************************************************************)

\* The rest of the pool's threads go on, or are woken.
Others(t) == \A u \in Threads \ {t} :
                 /\ current'[u] = current[u]
                 /\ pc'[u] = pc[u] \/ (pc[u] = "waiting" /\ pc'[u] = "notified")

Waits(t, io) ==
    /\ pc'[t] = "waiting" /\ t \notin leaders /\ Blocked(io)
    /\ handlers' = handlers /\ inUseIO' = io /\ promote' = promote /\ leaders' = leaders
Serves(t, io, hs) ==
    /\ hs # <<>> /\ pc'[t] = "message" /\ current'[t] = Head(hs) /\ handlers' = Tail(hs)
    /\ inUseIO' = IF Many THEN io + 1 ELSE io
    /\ promote' => Many
    /\ leaders' = IF promote' THEN leaders \ {t} ELSE leaders \cup {t}
Yields(t, io) ==
    /\ io > 0 /\ pc'[t] = "follow" /\ handlers' = <<>> /\ inUseIO' = io
    /\ promote' /\ leaders' = leaders \ {t}
Selects(t, io) ==
    /\ io = 0 /\ pc'[t] = "select" /\ handlers' = <<>> /\ inUseIO' = 0
    /\ ~promote' /\ leaders' = leaders \cup {t}

PoolTyped == /\ pc \in [Threads -> Places] /\ current \in [Threads -> Sources \cup {None}]
             /\ handlers \in Seq(Sources) /\ promote \in BOOLEAN /\ leaders \subseteq Threads
             /\ inUseIO \in Nat

\* The end of the section that all kinds of steps share.
LEMMA NextServed ==
    ASSUME TypeOK, NEW t \in Threads, NEW io \in Nat, NEW hs \in Seq(Sources),
           NextHandler(t, io, hs)
    PROVE  /\ PoolTyped' /\ Others(t)
           /\ Serves(t, io, hs) \/ Yields(t, io) \/ Selects(t, io)
<1> DEFINE n     == IF Many THEN io + 1 ELSE io
           gives == Many /\ Len(hs) > 1 /\ n < pool.sizeIO
<1>1. CASE /\ hs # <<>>
           /\ current' = [current EXCEPT ![t] = Head(hs)]
           /\ handlers' = Tail(hs)
           /\ inUseIO' = n
           /\ promote' = gives
           /\ leaders' = IF gives THEN leaders \ {t} ELSE leaders \cup {t}
           /\ pc' \in Notify([pc EXCEPT ![t] = "message"], gives)
  <2>1. [pc EXCEPT ![t] = "message"] \in [Threads -> Places]
    BY DEF TypeOK, Places
  <2>2. /\ pc' \in [Threads -> Places]
        /\ \A u \in Threads : \/ pc'[u] = [pc EXCEPT ![t] = "message"][u]
                              \/ /\ [pc EXCEPT ![t] = "message"][u] = "waiting"
                                 /\ pc'[u] = "notified"
    BY <1>1, <2>1, Notified
  <2>3. pc'[t] = "message"
    BY <2>2 DEF TypeOK
  <2>4. Others(t)
    BY <1>1, <2>2 DEF Others, TypeOK
  <2>5. Head(hs) \in Sources /\ Tail(hs) \in Seq(Sources)
    BY <1>1, HeadAndTail
  <2>6. PoolTyped'
    <3>1. promote' \in BOOLEAN /\ leaders' \subseteq Threads
      BY <1>1 DEF TypeOK
    <3>2. inUseIO' \in Nat /\ handlers' \in Seq(Sources)
      BY <1>1, <2>5
    <3>3. current' \in [Threads -> Sources \cup {None}]
      BY <1>1, <2>5 DEF TypeOK
    <3>4. QED
      BY <2>2, <3>1, <3>2, <3>3 DEF PoolTyped
  <2>7. Serves(t, io, hs)
    BY <1>1, <2>3 DEF Serves, TypeOK
  <2>8. QED
    BY <2>4, <2>6, <2>7
<1>2. CASE /\ hs = <<>> /\ io > 0
           /\ promote' = TRUE /\ leaders' = leaders \ {t}
           /\ pc' = [pc EXCEPT ![t] = "follow"]
           /\ current' = [current EXCEPT ![t] = None]
           /\ handlers' = hs /\ inUseIO' = io
  BY <1>2 DEF TypeOK, PoolTyped, Others, Yields, Places
<1>3. CASE /\ hs = <<>> /\ io = 0
           /\ promote' = FALSE /\ leaders' = leaders \cup {t}
           /\ pc' = [pc EXCEPT ![t] = "select"]
           /\ current' = [current EXCEPT ![t] = None]
           /\ handlers' = hs /\ inUseIO' = io
  BY <1>3 DEF TypeOK, PoolTyped, Others, Selects, Places
<1>4. QED
  BY <1>1, <1>2, <1>3 DEF NextHandler

\* The same for a thread that may have to wait.
LEMMA Continued ==
    ASSUME TypeOK, NEW t \in Threads, NEW io \in Nat, Continue(t, io)
    PROVE  /\ PoolTyped' /\ Others(t)
           /\ \/ Waits(t, io)
              \/ /\ t \in leaders \/ ~Blocked(io)
                 /\ Serves(t, io, handlers) \/ Yields(t, io) \/ Selects(t, io)
<1>1. CASE t \notin leaders /\ Blocked(io)
  <2>1. /\ pc' = [pc EXCEPT ![t] = "waiting"] /\ current' = [current EXCEPT ![t] = None]
        /\ inUseIO' = io /\ UNCHANGED <<handlers, promote, leaders>>
    BY <1>1 DEF Continue
  <2>2. QED
    BY <1>1, <2>1 DEF TypeOK, PoolTyped, Others, Waits, Places
<1>2. CASE t \in leaders \/ ~Blocked(io)
  <2>1. NextHandler(t, io, handlers)
    BY <1>2 DEF Continue
  <2>2. handlers \in Seq(Sources)
    BY DEF TypeOK
  <2>3. QED
    BY <1>2, <2>1, <2>2, NextServed
<1>3. QED
  BY <1>1, <1>2

\* A step of t that ends so: io of the other threads do I/O, and hs are the handlers left.
Turn(t, io, hs) ==
    /\ pc[t] \notin {"ended", "waiting"}
    /\ Others(t)
    /\ io = IF Many THEN Cardinality(At(IO) \ {t}) ELSE 0
    /\ Many => io <= pool.sizeIO
    /\ \/ /\ Waits(t, io)
          /\ hs = handlers
       \/ /\ Serves(t, io, hs) \/ Yields(t, io) \/ Selects(t, io)
          /\ leaders \subseteq {t}
          /\ Many => io < pool.sizeIO
    /\ \/ /\ hs = handlers /\ batch' = batch /\ pc[t] \notin Selecting
       \/ /\ hs = batch[t] /\ batch' = [batch EXCEPT ![t] = <<>>] /\ pc[t] = "selected"
    /\ inUse' = IF Many /\ pc[t] = "upcall" THEN inUse - 1 ELSE inUse
    /\ UNCHANGED <<pool, destroyed, threads>>


\* Threads in I/O besides t.
LEMMA OthersCounted ==
    ASSUME TypeOK, CountsOK, Many, NEW t \in Threads
    PROVE  /\ Cardinality(At(IO) \ {t}) \in Nat
           /\ Cardinality(At(IO) \ {t}) = IF pc[t] \in IO THEN inUseIO - 1 ELSE inUseIO
           /\ pc[t] \in IO => inUseIO >= 1
           /\ Cardinality(At({"upcall"}) \ {t}) \in Nat
           /\ Cardinality(At({"upcall"}) \ {t})
                = IF pc[t] = "upcall" THEN Cardinality(At({"upcall"})) - 1
                                      ELSE Cardinality(At({"upcall"}))
           /\ Cardinality(At({"upcall"})) \in Nat
           /\ pc[t] = "upcall" => inUse >= 1
<1>1. IsFiniteSet(Threads)
  BY ThreadsFinite
<1>2. /\ At(IO) \in SUBSET Threads /\ At({"upcall"}) \in SUBSET Threads
      /\ t \in At(IO) <=> pc[t] \in IO
      /\ t \in At({"upcall"}) <=> pc[t] = "upcall"
  BY DEF At
<1>3. /\ IsFiniteSet(At(IO)) /\ Cardinality(At(IO)) \in Nat
      /\ IsFiniteSet(At({"upcall"})) /\ Cardinality(At({"upcall"})) \in Nat
  BY <1>1, <1>2, Counted
<1>4. /\ Cardinality(At(IO) \ {t}) \in Nat
      /\ Cardinality(At({"upcall"}) \ {t}) \in Nat
  BY <1>1, <1>2, Counted
<1>5. Cardinality(At(IO) \ {t}) = IF t \in At(IO) THEN Cardinality(At(IO)) - 1
                                                  ELSE Cardinality(At(IO))
  BY <1>3, FS_RemoveElement
<1>6. Cardinality(At({"upcall"}) \ {t})
        = IF t \in At({"upcall"}) THEN Cardinality(At({"upcall"})) - 1
                                  ELSE Cardinality(At({"upcall"}))
  BY <1>3, FS_RemoveElement
<1>7. inUseIO = Cardinality(At(IO)) /\ Cardinality(At({"upcall"})) <= inUse /\ inUse \in Nat
  BY DEF CountsOK, TypeOK
<1>8. QED
  BY <1>2, <1>3, <1>4, <1>5, <1>6, <1>7

\* A thread that continues takes a turn.
LEMMA ContinueTurns ==
    ASSUME TypeOK, Control, NEW t \in Threads, NEW io \in Nat, Continue(t, io),
           pc[t] \notin {"ended", "waiting"} \cup Selecting,
           io = IF Many THEN Cardinality(At(IO) \ {t}) ELSE 0,
           Many => io <= pool.sizeIO,
           Many /\ t \in leaders => io < pool.sizeIO,
           inUse' = IF Many /\ pc[t] = "upcall" THEN inUse - 1 ELSE inUse,
           UNCHANGED <<batch, pool, destroyed, threads>>
    PROVE  Turn(t, io, handlers) /\ PoolTyped'
<1>1. /\ PoolTyped' /\ Others(t)
      /\ \/ Waits(t, io)
         \/ /\ t \in leaders \/ ~Blocked(io)
            /\ Serves(t, io, handlers) \/ Yields(t, io) \/ Selects(t, io)
  BY Continued
<1>2. ASSUME t \in leaders \/ ~Blocked(io)
      PROVE  leaders \subseteq {t} /\ (Many => io < pool.sizeIO)
  <2>1. pool.sizeIO \in Nat
    BY PoolValid
  <2>2. CASE t \in leaders
    BY <2>2 DEF Control, LeadersOK, TypeOK
  <2>3. CASE ~Blocked(io)
    BY <2>1, <2>3 DEF Control, LeadersOK, TypeOK, Blocked
  <2>4. QED
    BY <1>2, <2>2, <2>3
<1>3. \/ Waits(t, io)
      \/ /\ Serves(t, io, handlers) \/ Yields(t, io) \/ Selects(t, io)
         /\ leaders \subseteq {t}
         /\ Many => io < pool.sizeIO
  BY <1>1, <1>2
<1>4. QED
  BY <1>1, <1>3 DEF Turn

\* run() of a thread that follows.
LEMMA FollowTurns ==
    ASSUME TypeOK, Control, NEW t \in Threads, Follow(t)
    PROVE  Turn(t, inUseIO, handlers) /\ PoolTyped'
<1>1. /\ pc[t] \in {"follow", "notified"} /\ Continue(t, inUseIO)
      /\ UNCHANGED <<pool, destroyed, inUse, threads, batch>>
  BY DEF Follow
<1>2. pc[t] \notin {"ended", "waiting", "upcall"} \cup Selecting /\ pc[t] \notin IO
  BY <1>1 DEF Selecting, IO
<1>3. inUseIO = IF Many THEN Cardinality(At(IO) \ {t}) ELSE 0
  BY <1>2, OthersCounted DEF Control, ThreadsOK
<1>4. (Many => inUseIO <= pool.sizeIO) /\ (Many => t \notin leaders)
  BY <1>2 DEF Control, CountsOK, LeadersOK
<1>5. inUseIO \in Nat
  BY DEF TypeOK
<1>6. QED
  BY <1>1, <1>2, <1>3, <1>4, <1>5, ContinueTurns

\* message() has returned and its thread has done I/O.
LEMMA ReturnTurns ==
    ASSUME TypeOK, Control, NEW t \in Threads, pc[t] \in IO, ReturnFromIO(t),
           UNCHANGED <<batch, pool, destroyed>>
    PROVE  Turn(t, IF Many THEN inUseIO - 1 ELSE inUseIO, handlers) /\ PoolTyped'
<1> DEFINE io == IF Many THEN inUseIO - 1 ELSE inUseIO
<1>1. Continue(t, io) /\ UNCHANGED <<inUse, threads>>
  BY DEF ReturnFromIO
<1>2. pc[t] \notin {"ended", "waiting", "upcall"} \cup Selecting
  BY DEF Selecting, IO
<1>3. io = IF Many THEN Cardinality(At(IO) \ {t}) ELSE 0
  BY OthersCounted DEF Control, ThreadsOK
<1>4. Many => io < pool.sizeIO
  BY PoolValid DEF Control, CountsOK, TypeOK
<1>5. io \in Nat
  BY OthersCounted DEF TypeOK, Control
<1>6. Many => io <= pool.sizeIO
  BY <1>4, <1>5, PoolValid
<1>7. QED
  BY <1>1, <1>2, <1>3, <1>4, <1>5, <1>6, ContinueTurns

\* An upcall has returned.
LEMMA UpcallTurns ==
    ASSUME TypeOK, Control, NEW t \in Threads, UpcallReturns(t)
    PROVE  Turn(t, inUseIO, handlers) /\ PoolTyped'
<1>1. /\ pc[t] = "upcall" /\ Continue(t, inUseIO)
      /\ inUse' = IF Many THEN inUse - 1 ELSE inUse
      /\ UNCHANGED <<pool, destroyed, threads, batch>>
  BY DEF UpcallReturns
<1>2. pc[t] \notin {"ended", "waiting"} \cup Selecting /\ pc[t] \notin IO
  BY <1>1 DEF Selecting, IO
<1>3. inUseIO = IF Many THEN Cardinality(At(IO) \ {t}) ELSE 0
  BY <1>2, OthersCounted DEF Control, ThreadsOK
<1>4. (Many => inUseIO <= pool.sizeIO) /\ (Many => t \notin leaders)
  BY <1>1, <1>2 DEF Control, CountsOK, LeadersOK
<1>5. inUseIO \in Nat
  BY DEF TypeOK
<1>6. QED
  BY <1>1, <1>2, <1>3, <1>4, <1>5, ContinueTurns

\* select() has returned: nobody else does I/O.
LEMMA FinishSelectTurns ==
    ASSUME TypeOK, Control, NEW t \in Threads, FinishSelect(t)
    PROVE  Turn(t, inUseIO, batch[t]) /\ PoolTyped'
<1>1. /\ pc[t] = "selected" /\ NextHandler(t, inUseIO, batch[t])
      /\ batch' = [batch EXCEPT ![t] = <<>>]
      /\ UNCHANGED <<pool, destroyed, inUse, threads>>
  BY DEF FinishSelect
<1>2. batch[t] \in Seq(Sources) /\ inUseIO \in Nat
  BY DEF TypeOK
<1>3. /\ PoolTyped' /\ Others(t)
      /\ Serves(t, inUseIO, batch[t]) \/ Yields(t, inUseIO) \/ Selects(t, inUseIO)
  BY <1>1, <1>2, NextServed
<1>4. t \in leaders /\ leaders \subseteq {t} /\ \A u \in Threads : pc[u] \notin IO
  BY <1>1 DEF Control, LeadersOK, Selecting, TypeOK
<1>5. inUseIO = IF Many THEN Cardinality(At(IO) \ {t}) ELSE 0
  BY <1>4, OthersCounted DEF Control, ThreadsOK
<1>6. inUseIO = 0
  <2>1. At(IO) = {}
    BY <1>4 DEF At
  <2>2. QED
    BY <2>1, FS_EmptySet DEF Control, CountsOK, ThreadsOK
<1>7. pool.sizeIO \in Nat /\ pool.sizeIO >= 1
  BY PoolValid
<1>8. pc[t] \notin {"ended", "waiting", "upcall"}
  BY <1>1
<1>9. QED
  BY <1>1, <1>3, <1>4, <1>5, <1>6, <1>7, <1>8 DEF Turn


-----------------------------------------------------------------------------
(***************************************************************************)
(* What a turn preserves                                                   *)
(***************************************************************************)

\* Where the thread of a turn goes, and that the places of the others do not change as
\* far as the pool's invariants tell them apart.
LEMMA TurnPlaces ==
    ASSUME TypeOK, NEW t \in Threads, NEW io, NEW hs, Turn(t, io, hs)
    PROVE  /\ pc'[t] \in {"waiting", "message", "follow", "select"}
           /\ \A u \in Threads \ {t} :
                 /\ current'[u] = current[u]
                 /\ pc'[u] = "ended" <=> pc[u] = "ended"
                 /\ pc'[u] = "waiting" => pc[u] = "waiting"
                 /\ \A P \in SUBSET (Selecting \cup IO \cup {"upcall"}) : pc'[u] \in P <=> pc[u] \in P
                 /\ pc'[u] \in {"selected", "message", "execute", "upcall"}
                       \/ pc[u] \in {"selected", "message", "execute", "upcall"} => pc'[u] = pc[u]
BY DEF Turn, Waits, Serves, Yields, Selects, Others, Selecting, IO

\* The threads that do I/O and those that make upcalls after a turn.
LEMMA TurnSets ==
    ASSUME TypeOK, NEW t \in Threads, NEW io, NEW hs, Turn(t, io, hs)
    PROVE  /\ At(IO)' = IF pc'[t] = "message" THEN (At(IO) \ {t}) \cup {t} ELSE At(IO) \ {t}
           /\ At({"upcall"})' = At({"upcall"}) \ {t}
<1>1. /\ pc'[t] \in {"waiting", "message", "follow", "select"}
      /\ \A u \in Threads \ {t} :
            (pc'[u] \in IO <=> pc[u] \in IO) /\ (pc'[u] = "upcall" <=> pc[u] = "upcall")
  BY TurnPlaces DEF IO
<1>2. QED
  BY <1>1 DEF At, IO

\* A turn neither ends a thread nor adds one.
LEMMA TurnThreads ==
    ASSUME TypeOK, Control, NEW t \in Threads, NEW io, NEW hs, Turn(t, io, hs), PoolTyped',
           Unjoined' \subseteq Unjoined
    PROVE  ThreadsOK'
<1>1. UNCHANGED <<pool, threads>> /\ pc[t] # "ended" /\ Many' = Many
  BY DEF Turn, Many
<1>2. \A u \in Threads : pc'[u] # "ended" => u \in threads'
  BY <1>1, TurnPlaces DEF Control, ThreadsOK
<1>3. leaders' \subseteq threads'
  BY <1>1 DEF Control, ThreadsOK, Turn, Waits, Serves, Yields, Selects
<1>4. Cardinality(Unjoined') <= MaxUnjoined
  <2>1. Unjoined \in SUBSET Threads /\ IsFiniteSet(Threads)
    BY ThreadsFinite DEF Unjoined
  <2>2. IsFiniteSet(Unjoined) /\ Cardinality(Unjoined) \in Nat
    BY <2>1, Counted
  <2>3. Cardinality(Unjoined') <= Cardinality(Unjoined) /\ Cardinality(Unjoined') \in Nat
    BY <2>2, FS_Subset, FS_CardinalityType
  <2>4. QED
    BY <2>2, <2>3, NamesAssumption DEF Control, ThreadsOK
<1>5. ASSUME ~Many
      PROVE  inUseIO' = 0 /\ \A u \in Threads : pc'[u] # "waiting"
  <2>1. io = 0 /\ threads = {t} /\ \A u \in Threads : pc[u] # "waiting"
    BY <1>1, <1>5 DEF Control, ThreadsOK, Turn
  <2>2. ~Waits(t, io)
    BY <1>5, <2>1 DEF Waits, Blocked, Control, LeadersOK, ThreadsOK
  <2>3. inUseIO' = 0
    BY <1>5, <2>1, <2>2 DEF Turn, Serves, Yields, Selects
  <2>4. pc'[t] # "waiting"
    BY <2>2 DEF Turn, Serves, Yields, Selects
  <2>5. QED
    BY <2>1, <2>3, <2>4, TurnPlaces
<1>6. QED
  BY <1>1, <1>2, <1>3, <1>4, <1>5 DEF ThreadsOK, Control

\* A turn hands the leadership over as promoteFollower() does.
LEMMA TurnLeaders ==
    ASSUME TypeOK, Control, NEW t \in Threads, NEW io, NEW hs, Turn(t, io, hs), PoolTyped'
    PROVE  LeadersOK'
<1>1. Many' = Many /\ pc[t] # "ended"
  BY DEF Turn, Many
<1>2. \A u \in Threads \ {t} : /\ pc'[u] \in Selecting <=> pc[u] \in Selecting
                               /\ pc'[u] \in IO <=> pc[u] \in IO
  BY TurnPlaces
<1>3. CASE Waits(t, io)
  <2>1. pc'[t] = "waiting" /\ t \notin leaders /\ UNCHANGED <<handlers, promote, leaders>>
    BY <1>3 DEF Waits
  <2>2. pc'[t] \notin Selecting \cup IO
    BY <2>1 DEF Selecting, IO
  <2>3. QED
    BY <1>1, <1>2, <2>1, <2>2 DEF Control, LeadersOK, TypeOK
<1>4. ASSUME Serves(t, io, hs) \/ Yields(t, io) \/ Selects(t, io), leaders \subseteq {t}
      PROVE  LeadersOK'
  <2>1. \A u \in Threads \ {t} : pc'[u] \notin Selecting
    BY <1>2, <1>4 DEF Control, LeadersOK
  <2>2. CASE Serves(t, io, hs)
    <3>1. pc'[t] \in IO /\ pc'[t] \notin Selecting
      BY <2>2 DEF Serves, IO, Selecting
    <3>2. IF promote' THEN leaders' = {} ELSE leaders' = {t}
      BY <1>4, <2>2 DEF Serves
    <3>3. QED
      BY <2>1, <3>1, <3>2 DEF LeadersOK, PoolTyped
  <2>3. CASE Yields(t, io)
    BY <1>4, <2>1, <2>3 DEF Yields, LeadersOK, Selecting
  <2>4. CASE Selects(t, io)
    <3>1. \A u \in Threads \ {t} : pc[u] \notin IO
      <4>1. CASE Many
        <5>1. At(IO) \ {t} \in SUBSET Threads /\ Cardinality(At(IO) \ {t}) = 0
          BY <2>4, <4>1 DEF Turn, Selects, At
        <5>2. At(IO) \ {t} = {}
          BY <5>1, ThreadsFinite, Counted, FS_EmptySet
        <5>3. QED
          BY <5>2 DEF At
      <4>2. CASE ~Many
        BY <1>1, <4>2 DEF Control, ThreadsOK, IO
      <4>3. QED
        BY <4>1, <4>2
    <3>2. pc'[t] \in Selecting /\ pc'[t] \notin IO /\ leaders' = {t} /\ ~promote' /\ handlers' = <<>>
      BY <1>4, <2>4 DEF Selects, Selecting, IO
    <3>3. QED
      BY <1>2, <2>1, <3>1, <3>2 DEF LeadersOK
  <2>5. QED
    BY <1>4, <2>2, <2>3, <2>4
<1>5. QED
  BY <1>3, <1>4 DEF Turn

\* A turn counts its own I/O and the end of its own upcall.
LEMMA TurnCounts ==
    ASSUME TypeOK, Control, NEW t \in Threads, NEW io, NEW hs, Turn(t, io, hs), PoolTyped'
    PROVE  CountsOK' /\ RoomOK' /\ inUse' \in Nat
<1>1. UNCHANGED <<pool, destroyed, threads>> /\ Many' = Many
  BY DEF Turn, Many
<1>2. inUse \in Nat /\ pool.sizeIO \in Nat /\ pool.sizeMax \in Nat
  BY PoolValid DEF TypeOK
<1>3. CASE ~Many
  BY <1>1, <1>2, <1>3 DEF CountsOK, RoomOK, Turn
<1>4. CASE Many
  <2>1. io = Cardinality(At(IO) \ {t}) /\ io \in Nat
    BY <1>4, OthersCounted DEF Turn, Control
  <2>2. inUseIO' = Cardinality(At(IO)') /\ inUseIO' <= pool.sizeIO
    <3>1. CASE pc'[t] = "message"
      <4>1. inUseIO' = io + 1 /\ io < pool.sizeIO
        BY <1>4, <3>1 DEF Turn, Waits, Serves, Yields, Selects
      <4>2. At(IO)' = (At(IO) \ {t}) \cup {t}
        BY <3>1, TurnSets
      <4>3. IsFiniteSet(At(IO) \ {t})
        BY ThreadsFinite, Counted DEF At
      <4>4. Cardinality(At(IO)') = io + 1
        BY <2>1, <4>2, <4>3, FS_AddElement
      <4>5. QED
        BY <1>2, <2>1, <4>1, <4>4
    <3>2. CASE pc'[t] # "message"
      <4>1. inUseIO' = io /\ io <= pool.sizeIO
        BY <1>4, <3>2 DEF Turn, Waits, Serves, Yields, Selects
      <4>2. QED
        BY <2>1, <3>2, <4>1, TurnSets
    <3>3. QED
      BY <3>1, <3>2
  <2>3. /\ Cardinality(At({"upcall"})')
             = IF pc[t] = "upcall" THEN Cardinality(At({"upcall"})) - 1
                                   ELSE Cardinality(At({"upcall"}))
        /\ Cardinality(At({"upcall"})) \in Nat
        /\ pc[t] = "upcall" => inUse >= 1
    BY <1>4, TurnSets, OthersCounted DEF Control
  <2>4. inUse' = IF pc[t] = "upcall" THEN inUse - 1 ELSE inUse
    BY <1>4 DEF Turn
  <2>5. /\ inUse' \in Nat /\ Cardinality(At({"upcall"})') <= inUse'
        /\ ~destroyed => inUse' = Cardinality(At({"upcall"})')
    BY <1>2, <1>4, <2>3, <2>4 DEF Control, CountsOK
  <2>6. CountsOK'
    BY <1>1, <2>2, <2>5 DEF CountsOK
  <2>7. RoomOK'
    <3>1. IsFiniteSet(threads) /\ Cardinality(threads) \in Nat
      BY ThreadsFinite, Counted DEF TypeOK
    <3>2. Cardinality(At({"upcall"})) <= Cardinality(threads)
      <4>1. At({"upcall"}) \in SUBSET threads
        BY DEF At, Control, ThreadsOK
      <4>2. QED
        BY <3>1, <4>1, FS_Subset
    <3>3. CASE pc[t] = "upcall"
      BY <1>1, <1>2, <1>4, <2>3, <2>4, <3>1, <3>2, <3>3 DEF RoomOK, Control, CountsOK
    <3>4. CASE pc[t] # "upcall"
      BY <1>1, <2>4, <3>4 DEF RoomOK, Control
    <3>5. QED
      BY <3>3, <3>4
  <2>8. QED
    BY <2>5, <2>6, <2>7
<1>5. QED
  BY <1>3, <1>4


\* The handlers that are left to a turn.
LEMMA TurnLeft ==
    ASSUME TypeOK, LeadersOK, ListsOK, NEW t \in Threads, NEW io, NEW hs, Turn(t, io, hs)
    PROVE  /\ hs \in Seq(Sources)
           /\ \A i, j \in 1..Len(hs) : hs[i] = hs[j] => i = j
           /\ \A i \in 1..Len(hs) : Listed(hs[i])
           /\ \A u \in Threads \ {t}, i \in 1..Len(hs) : pc[u] \in IO => hs[i] # current[u]
           /\ batch' \in [Threads -> Seq(Sources)]
           /\ \A u \in Threads : batch'[u] = batch[u] \/ (u = t /\ batch'[u] = <<>>)
           /\ batch'[t] = <<>>
<1>1. CASE hs = handlers /\ batch' = batch /\ pc[t] \notin Selecting
  <2>1. batch[t] = <<>>
    BY <1>1 DEF ListsOK, Selecting
  <2>2. \A i \in 1..Len(hs) : Listed(hs[i])
    BY <1>1 DEF Listed
  <2>3. QED
    BY <1>1, <2>1, <2>2 DEF TypeOK, ListsOK
<1>2. CASE hs = batch[t] /\ batch' = [batch EXCEPT ![t] = <<>>] /\ pc[t] = "selected"
  <2>1. \A u \in Threads : pc[u] \notin IO
    BY <1>2 DEF LeadersOK, Selecting
  <2>2. \A i \in 1..Len(hs) : Listed(hs[i])
    BY <1>2 DEF Listed
  <2>3. hs \in Seq(Sources) /\ batch' \in [Threads -> Seq(Sources)]
    BY <1>2 DEF TypeOK
  <2>4. QED
    BY <1>2, <2>1, <2>2, <2>3 DEF TypeOK, ListsOK
<1>3. QED
  BY <1>1, <1>2 DEF Turn

\* No handler is listed that was not, and none gets into a second place.
LEMMA TurnLists ==
    ASSUME TypeOK, LeadersOK, ListsOK, NEW t \in Threads, NEW io, NEW hs, Turn(t, io, hs),
           PoolTyped'
    PROVE  ListsOK' /\ \A s : Listed(s)' => Listed(s)
<1>1. /\ hs \in Seq(Sources)
      /\ \A i, j \in 1..Len(hs) : hs[i] = hs[j] => i = j
      /\ \A i \in 1..Len(hs) : Listed(hs[i])
      /\ \A u \in Threads \ {t}, i \in 1..Len(hs) : pc[u] \in IO => hs[i] # current[u]
  BY TurnLeft
<1>2. /\ \A u \in Threads : batch'[u] = batch[u] \/ (u = t /\ batch'[u] = <<>>)
      /\ batch'[t] = <<>>
  BY TurnLeft
<1>3. \A u \in Threads \ {t} :
         /\ current'[u] = current[u]
         /\ pc'[u] \in IO <=> pc[u] \in IO
         /\ pc'[u] \in {"selected", "message", "execute", "upcall"}
               \/ pc[u] \in {"selected", "message", "execute", "upcall"} => pc'[u] = pc[u]
  BY TurnPlaces
<1> DEFINE n == IF pc'[t] = "message" THEN 1 ELSE 0
<1>4. n \in Int
  OBVIOUS
<1>5. /\ \A i \in 1..Len(handlers') : i + n \in 1..Len(hs) /\ handlers'[i] = hs[i + n]
      /\ pc'[t] = "message" => n = 1 /\ 1 \in 1..Len(hs) /\ current'[t] = hs[1]
  <2>1. CASE Serves(t, io, hs)
    <3>1. /\ handlers' = Tail(hs) /\ current'[t] = hs[1] /\ Len(hs) \in Nat \ {0}
          /\ Len(Tail(hs)) = Len(hs) - 1
          /\ \A i \in 1..Len(Tail(hs)) : Tail(hs)[i] = hs[i + 1]
      BY <1>1, <2>1, HeadAndTail DEF Serves
    <3>2. n = 1
      BY <2>1 DEF Serves
    <3>3. QED
      BY <3>1, <3>2
  <2>2. CASE Yields(t, io) \/ Selects(t, io)
    BY <2>2 DEF Yields, Selects
  <2>3. CASE Waits(t, io) /\ hs = handlers
    BY <1>1, <2>3 DEF Waits
  <2>4. QED
    BY <2>1, <2>2, <2>3 DEF Turn
<1> HIDE DEF n
<1>6. pc'[t] \in {"waiting", "message", "follow", "select"}
  BY TurnPlaces
<1>7. handlers' \in Seq(Sources) /\ Len(handlers') \in Nat
  BY DEF PoolTyped
<1>8. \A s : Listed(s)' => Listed(s)
  <2> SUFFICES ASSUME NEW s, Listed(s)'
               PROVE  Listed(s)
    OBVIOUS
  <2>1. CASE \E i \in 1..Len(handlers') : handlers'[i] = s
    BY <1>1, <1>5, <2>1
  <2>2. CASE \E u \in Threads : \E i \in 1..Len(batch'[u]) : batch'[u][i] = s
    BY <1>2, <2>2 DEF Listed
  <2>3. CASE \E u \in Threads : pc'[u] = "message" /\ current'[u] = s
    <3>1. PICK u \in Threads : pc'[u] = "message" /\ current'[u] = s
      BY <2>3
    <3>2. CASE u = t
      BY <1>1, <1>5, <3>1, <3>2
    <3>3. CASE u # t
      BY <1>3, <3>1, <3>3 DEF Listed
    <3>4. QED
      BY <3>2, <3>3
  <2>4. QED
    BY <2>1, <2>2, <2>3 DEF Listed
<1>9. ListsOK'
  <2>1. ASSUME NEW i \in 1..Len(handlers'), NEW j \in 1..Len(handlers'),
               handlers'[i] = handlers'[j]
        PROVE  i = j
    <3>1. i + n \in 1..Len(hs) /\ j + n \in 1..Len(hs) /\ hs[i + n] = hs[j + n]
      BY <1>5, <2>1
    <3>2. i + n = j + n
      BY <1>1, <3>1
    <3>3. QED
      BY <1>4, <1>7, <3>2
  <2>2. \A u \in Threads : /\ \A i, j \in 1..Len(batch'[u]) : batch'[u][i] = batch'[u][j] => i = j
                           /\ batch'[u] # <<>> => pc'[u] = "selected"
    BY <1>2, <1>3 DEF ListsOK
  <2>3. \A u \in Threads : /\ pc'[u] \in IO \cup {"upcall"} => current'[u] \in Sources
                           /\ pc'[u] = "execute" => current'[u] = WorkQueue
    <3> SUFFICES ASSUME NEW u \in Threads
                 PROVE  /\ pc'[u] \in IO \cup {"upcall"} => current'[u] \in Sources
                        /\ pc'[u] = "execute" => current'[u] = WorkQueue
      OBVIOUS
    <3>1. CASE u = t
      BY <1>1, <1>5, <1>6, <3>1 DEF IO
    <3>2. CASE u # t
      BY <1>3, <3>2 DEF ListsOK, IO
    <3>3. QED
      BY <3>1, <3>2
  <2>4. \A u \in Threads : pc'[u] \in IO => \A i \in 1..Len(handlers') : handlers'[i] # current'[u]
    <3> SUFFICES ASSUME NEW u \in Threads, pc'[u] \in IO, NEW i \in 1..Len(handlers')
                 PROVE  handlers'[i] # current'[u]
      OBVIOUS
    <3>1. CASE u = t
      <4>1. n = 1 /\ 1 \in 1..Len(hs) /\ current'[t] = hs[1]
        BY <1>5, <1>6, <3>1 DEF IO
      <4>2. i + 1 \in 1..Len(hs) /\ handlers'[i] = hs[i + 1] /\ i + 1 # 1
        BY <1>5, <1>7, <4>1
      <4>3. QED
        BY <1>1, <3>1, <4>1, <4>2
    <3>2. CASE u # t
      BY <1>1, <1>3, <1>5, <3>2
    <3>3. QED
      BY <3>1, <3>2
  <2>5. \A u, w \in Threads :
           pc'[u] \in IO /\ pc'[w] \in IO /\ current'[u] = current'[w] => u = w
    <3>1. \A u, w \in Threads \ {t} :
             pc'[u] \in IO /\ pc'[w] \in IO /\ current'[u] = current'[w] => u = w
      BY <1>3 DEF ListsOK
    <3>2. \A u \in Threads \ {t} : pc'[u] \in IO /\ pc'[t] \in IO => current'[u] # current'[t]
      BY <1>1, <1>3, <1>5, <1>6 DEF IO
    <3>3. QED
      BY <3>1, <3>2
  <2>6. QED
    BY <2>1, <2>2, <2>3, <2>4, <2>5 DEF ListsOK
<1>10. QED
  BY <1>8, <1>9


\* With Serialize a turn enables at most the handler of the upcall that it ends.
LEMMA TurnSerial ==
    ASSUME TypeOK, LeadersOK, ListsOK, SerialOK, NEW t \in Threads, NEW io, NEW hs,
           Turn(t, io, hs), PoolTyped',
           disabled' = IF Many /\ pc[t] = "upcall" THEN disabled \ {current[t]} ELSE disabled
    PROVE  SerialOK'
<1>1. UNCHANGED <<pool, destroyed>> /\ Many' = Many
  BY DEF Turn, Many
<1>2. SUFFICES ASSUME Many, pool.serialize, ~destroyed
               PROVE  SerialOK'
  BY <1>1 DEF SerialOK
<1>3. /\ \A u \in Threads : pc[u] = "upcall" => current[u] \in disabled
      /\ \A u, w \in Threads :
            pc[u] = "upcall" /\ pc[w] = "upcall" /\ current[u] = current[w] => u = w
      /\ \A s \in disabled : ~Listed(s) /\ \A u \in Threads : pc[u] \in IO => current[u] # s
  BY <1>2 DEF SerialOK
<1>4. /\ pc'[t] \in {"waiting", "message", "follow", "select"}
      /\ \A u \in Threads \ {t} :
            /\ current'[u] = current[u]
            /\ pc'[u] \in IO <=> pc[u] \in IO
            /\ pc'[u] = "upcall" <=> pc[u] = "upcall"
  BY TurnPlaces
<1>5. \A s : Listed(s)' => Listed(s)
  BY TurnLists
<1>6. disabled' \subseteq disabled
  OBVIOUS
<1>7. \A u \in Threads : pc'[u] = "upcall" => current'[u] \in disabled'
  BY <1>3, <1>4
<1>8. \A u, w \in Threads :
         pc'[u] = "upcall" /\ pc'[w] = "upcall" /\ current'[u] = current'[w] => u = w
  BY <1>3, <1>4
<1>9. ASSUME NEW u \in Threads, pc'[u] \in IO
      PROVE  current'[u] \notin disabled'
  <2>1. CASE u = t
    <3>1. pc'[t] = "message"
      BY <1>4, <1>9, <2>1 DEF IO
    <3>2. \A s : s = current'[t] => Listed(s)'
      BY <3>1 DEF Listed
    <3>3. \A s : s = current'[t] => s \notin disabled
      BY <1>3, <1>5, <3>2
    <3>4. QED
      BY <1>6, <2>1, <3>3
  <2>2. CASE u # t
    BY <1>3, <1>4, <1>6, <1>9, <2>2
  <2>3. QED
    BY <2>1, <2>2
<1>10. \A s \in disabled' : ~Listed(s)'
  BY <1>3, <1>5, <1>6
<1>11. QED
  BY <1>7, <1>8, <1>9, <1>10 DEF SerialOK

-----------------------------------------------------------------------------
(***************************************************************************)
(* What any step preserves by which no handler becomes listed              *)
(***************************************************************************)

\* No item, and no reason to serve the work queue, is added.
LEMMA QueueKept ==
    ASSUME QueueOK, \A s : Listed(s)' => Listed(s), UNCHANGED <<destroyed, queueVars>>
    PROVE  QueueOK'
BY DEF QueueOK, queueVars

\* Items are forgotten, and a handler has finished only by its item.
LEMMA FinishKept ==
    ASSUME FinishOK, \A s : Listed(s)' => Listed(s), UNCHANGED <<registered, workItems>>,
           \A u \in Threads : item'[u] = item[u] \/ item'[u] = None,
           \A h \in Handlers : \/ closed'[h] = closed[h]
                               \/ closed'[h] = "finished"
                                  /\ \E u \in Threads : item[u] = <<"finished", h>>
    PROVE  FinishOK'
<1> SUFFICES ASSUME NEW h \in Handlers
             PROVE  /\ closed'[h] # "open" => h \notin registered'
                    /\ \A i \in 1..Len(workItems') :
                          workItems'[i] = <<"finished", h>> => closed'[h] # "open"
                    /\ \A u \in Threads :
                          item'[u] = <<"finished", h>> => closed'[h] # "open" /\ ~Listed(h)'
                    /\ Listed(WorkQueue)' /\ workItems' # <<>>
                          /\ Head(workItems') = <<"finished", h>> => ~Listed(h)'
                    /\ closed'[h] = "finished" => ~Listed(h)'
  BY DEF FinishOK
<1>1. <<"finished", h>> \in Items /\ None # <<"finished", h>>
  BY ItemsAssumption DEF Items
<1>2. QED
  BY <1>1 DEF FinishOK

\* Threads that have left are joined, never added.
LEMMA UnjoinedKept ==
    ASSUME UNCHANGED workItems,
           \A u \in Threads : item'[u] = item[u] \/ item'[u] = None
    PROVE  Unjoined' \subseteq Unjoined
<1>1. \A x \in Threads : <<"join", x>> \in Items /\ None # <<"join", x>>
  BY ItemsAssumption DEF Items
<1>2. QED
  BY <1>1 DEF Unjoined

-----------------------------------------------------------------------------
(***************************************************************************)
(* ioCompleted()                                                           *)
(***************************************************************************)

Completes(t, p) ==
    /\ pc'[t] = p
    /\ \A u \in Threads \ {t} : \/ pc'[u] = pc[u]
                                \/ pc[u] = "waiting" /\ pc'[u] = "notified"
                                \/ u \notin threads /\ u \in threads' /\ pc'[u] = "follow"
    /\ IF Many
       THEN /\ inUseIO' = inUseIO - 1 /\ inUse' = inUse + 1
            /\ promote' = (promote \/ t \in leaders) /\ leaders' = leaders \ {t}
            /\ disabled' = IF pool.serialize /\ ~destroyed THEN disabled \cup {current[t]}
                                                           ELSE disabled
            /\ IF ~destroyed /\ inUse + 1 < pool.sizeMax /\ inUse + 1 = Cardinality(threads)
               THEN \E n \in Threads \ threads : threads' = threads \cup {n}
               ELSE threads' = threads
       ELSE UNCHANGED <<inUse, inUseIO, promote, leaders, threads, disabled>>

\* A pool that may grow has a name left for the new thread.
LEMMA NameLeft ==
    ASSUME TypeOK, ThreadsOK, Cardinality(threads) < pool.sizeMax
    PROVE  \E n \in Threads : n \notin threads \cup Unjoined
<1>1. /\ IsFiniteSet(Threads) /\ threads \in SUBSET Threads /\ Unjoined \in SUBSET Threads
      /\ Cardinality(Threads) \in Nat
  BY ThreadsFinite, FS_CardinalityType DEF TypeOK, Unjoined
<1>2. /\ IsFiniteSet(threads) /\ Cardinality(threads) \in Nat
      /\ IsFiniteSet(Unjoined) /\ Cardinality(Unjoined) \in Nat
  BY <1>1, Counted
<1>3. Cardinality(threads \cap Unjoined) \in Nat
  BY <1>2, FS_Intersection, FS_CardinalityType
<1>4. Cardinality(threads \cup Unjoined)
        = Cardinality(threads) + Cardinality(Unjoined) - Cardinality(threads \cap Unjoined)
  BY <1>2, FS_Union
<1>5. Cardinality(threads \cup Unjoined) < Cardinality(Threads)
  BY <1>1, <1>2, <1>3, <1>4, PoolValid DEF ThreadsOK
<1>6. threads \cup Unjoined # Threads
  BY <1>1, <1>5
<1>7. QED
  BY <1>1, <1>6


CompletedTyped == /\ pc \in [Threads -> Places] /\ promote \in BOOLEAN
                  /\ leaders \subseteq Threads /\ threads \subseteq Threads
                  /\ inUse \in Nat /\ inUseIO \in Nat /\ disabled \subseteq Sources

\* ioCompleted() does what Completes says.
LEMMA CompletedStep ==
    ASSUME TypeOK, Control, ListsOK, NEW t \in Threads, pc[t] \in IO,
           NEW p \in {"upcall", "ended"}, IoCompleted(t, p)
    PROVE  Completes(t, p) /\ CompletedTyped'
<1>1. [pc EXCEPT ![t] = p] \in [Threads -> Places]
  BY DEF TypeOK, Places
<1>2. CASE ~Many
  <2>1. /\ pc' = [pc EXCEPT ![t] = p]
        /\ UNCHANGED <<inUse, inUseIO, promote, leaders, threads, disabled>>
    BY <1>2 DEF IoCompleted
  <2>2. QED
    BY <1>1, <1>2, <2>1 DEF Completes, CompletedTyped, TypeOK
<1>3. CASE Many
  <2>1. PICK woken \in Notify([pc EXCEPT ![t] = p], promote' /\ WakesFollower(inUseIO')) :
           IF Grows(inUse')
           THEN LET n == CHOOSE n \in Threads : n \notin threads \cup Unjoined IN
                /\ pc' = [woken EXCEPT ![n] = "follow"]
                /\ threads' = threads \cup {n}
           ELSE pc' = woken /\ UNCHANGED threads
    BY <1>3 DEF IoCompleted
  <2>2. /\ inUseIO' = inUseIO - 1 /\ inUse' = inUse + 1
        /\ promote' = (promote \/ t \in leaders) /\ leaders' = leaders \ {t}
        /\ disabled' = Disables(t)
    BY <1>3 DEF IoCompleted
  <2>3. /\ woken \in [Threads -> Places]
        /\ \A u \in Threads : \/ woken[u] = [pc EXCEPT ![t] = p][u]
                              \/ /\ [pc EXCEPT ![t] = p][u] = "waiting"
                                 /\ woken[u] = "notified"
    <3>1. (promote' /\ WakesFollower(inUseIO')) \in BOOLEAN
      BY DEF WakesFollower
    <3>2. QED
      BY <1>1, <2>1, <3>1, Notified
  <2>4. /\ woken[t] = p
        /\ \A u \in Threads \ {t} : \/ woken[u] = pc[u]
                                    \/ pc[u] = "waiting" /\ woken[u] = "notified"
    BY <2>3 DEF TypeOK
  <2>5. inUseIO' \in Nat /\ inUse' \in Nat /\ promote' \in BOOLEAN /\ leaders' \subseteq Threads
    <3>1. CountsOK
      BY DEF Control
    <3>2. inUseIO >= 1 /\ inUseIO \in Nat /\ inUse \in Nat
      BY <1>3, <3>1, OthersCounted DEF TypeOK
    <3>3. promote' \in BOOLEAN /\ leaders' \subseteq Threads
      BY <2>2 DEF TypeOK
    <3>4. QED
      BY <2>2, <3>2, <3>3
  <2>6. /\ disabled' = IF pool.serialize /\ ~destroyed THEN disabled \cup {current[t]}
                                                        ELSE disabled
        /\ disabled' \subseteq Sources
    BY <2>2 DEF Disables, TypeOK, ListsOK
  <2>7. CASE Grows(inUse')
    <3> DEFINE n == CHOOSE n \in Threads : n \notin threads \cup Unjoined
    <3>1. Cardinality(threads) < pool.sizeMax
      BY <2>2, <2>7 DEF Grows
    <3>2. n \in Threads /\ n \notin threads
      BY <3>1, NameLeft DEF Control
    <3>3. pc' = [woken EXCEPT ![n] = "follow"] /\ threads' = threads \cup {n}
      BY <2>1, <2>7
    <3>4. t # n
      BY <3>2 DEF Control, ThreadsOK, IO
    <3> HIDE DEF n
    <3>5. pc' \in [Threads -> Places] /\ threads' \subseteq Threads
      BY <2>3, <3>2, <3>3 DEF Places, TypeOK
    <3>6. /\ pc'[t] = p
          /\ \A u \in Threads \ {t} : \/ pc'[u] = pc[u]
                                      \/ pc[u] = "waiting" /\ pc'[u] = "notified"
                                      \/ u \notin threads /\ u \in threads' /\ pc'[u] = "follow"
      BY <2>3, <2>4, <3>2, <3>3, <3>4
    <3>7. ~destroyed /\ inUse + 1 < pool.sizeMax /\ inUse + 1 = Cardinality(threads)
      BY <2>2, <2>7 DEF Grows
    <3>8. QED
      BY <1>3, <2>2, <2>5, <2>6, <3>2, <3>3, <3>5, <3>6, <3>7 DEF Completes, CompletedTyped
  <2>8. CASE ~Grows(inUse')
    <3>1. pc' = woken /\ threads' = threads
      BY <2>1, <2>8
    <3>2. ~(~destroyed /\ inUse + 1 < pool.sizeMax /\ inUse + 1 = Cardinality(threads))
      BY <2>2, <2>8 DEF Grows
    <3>3. threads \subseteq Threads
      BY DEF TypeOK
    <3>4. QED
      BY <1>3, <2>2, <2>3, <2>4, <2>5, <2>6, <3>1, <3>2, <3>3 DEF Completes, CompletedTyped
  <2>9. QED
    BY <2>7, <2>8
<1>4. QED
  BY <1>2, <1>3


\* The places of the other threads after ioCompleted().
LEMMA CompletedPlaces ==
    ASSUME TypeOK, ThreadsOK, NEW t \in Threads, pc[t] \in IO, NEW p \in {"upcall", "ended"},
           Completes(t, p)
    PROVE  /\ pc'[t] = p /\ threads \subseteq threads'
           /\ \A u \in Threads : pc'[u] # "ended" => u \in threads'
           /\ \A u \in Threads \ {t} :
                 /\ pc'[u] = "waiting" => pc[u] = "waiting"
                 /\ \A P \in SUBSET (Selecting \cup IO \cup {"upcall"}) : pc'[u] \in P <=> pc[u] \in P
                 /\ pc'[u] \in {"selected", "message", "execute", "upcall"}
                       \/ pc[u] \in {"selected", "message", "execute", "upcall"} => pc'[u] = pc[u]
<1>1. threads \subseteq threads' /\ pc'[t] = p
  BY DEF Completes
<1>2. \A u \in Threads : u \notin threads => pc[u] = "ended"
  BY DEF ThreadsOK
<1>3. \A u \in Threads \ {t} : \/ pc'[u] = pc[u]
                               \/ pc[u] = "waiting" /\ pc'[u] = "notified"
                               \/ pc[u] = "ended" /\ u \in threads' /\ pc'[u] = "follow"
  BY <1>2 DEF Completes
<1>4. t \in threads /\ \A u \in Threads : pc[u] # "ended" => u \in threads
  BY DEF ThreadsOK, IO
<1>5. QED
  BY <1>1, <1>3, <1>4 DEF Selecting, IO

\* The threads that do I/O and those that make upcalls after ioCompleted().
LEMMA CompletedSets ==
    ASSUME TypeOK, ThreadsOK, NEW t \in Threads, pc[t] \in IO, NEW p \in {"upcall", "ended"},
           Completes(t, p)
    PROVE  /\ At(IO)' = At(IO) \ {t}
           /\ At({"upcall"})' = IF p = "upcall" THEN At({"upcall"}) \cup {t} ELSE At({"upcall"})
<1>1. /\ pc'[t] = p
      /\ \A u \in Threads \ {t} :
            (pc'[u] \in IO <=> pc[u] \in IO) /\ (pc'[u] = "upcall" <=> pc[u] = "upcall")
  BY CompletedPlaces DEF IO
<1>2. pc[t] # "upcall" /\ p \notin IO
  BY DEF IO
<1>3. QED
  BY <1>1, <1>2 DEF At

\* A thread that ioCompleted() starts is one of the pool.
LEMMA CompletedThreads ==
    ASSUME TypeOK, Control, NEW t \in Threads, pc[t] \in IO, NEW p \in {"upcall", "ended"},
           Completes(t, p), CompletedTyped', UNCHANGED <<pool, destroyed>>,
           Unjoined' \subseteq Unjoined
    PROVE  ThreadsOK'
<1>1. Many' = Many /\ ThreadsOK
  BY DEF Many, Control
<1>2. \A u \in Threads : pc'[u] # "ended" => u \in threads'
  BY <1>1, CompletedPlaces
<1>3. leaders' \subseteq threads'
  BY <1>1, CompletedPlaces DEF Completes, ThreadsOK
<1>4. Cardinality(Unjoined') <= MaxUnjoined
  <2>1. Unjoined \in SUBSET Threads /\ IsFiniteSet(Threads)
    BY ThreadsFinite DEF Unjoined
  <2>2. IsFiniteSet(Unjoined) /\ Cardinality(Unjoined) \in Nat
    BY <2>1, Counted
  <2>3. Cardinality(Unjoined') <= Cardinality(Unjoined) /\ Cardinality(Unjoined') \in Nat
    BY <2>2, FS_Subset, FS_CardinalityType
  <2>4. QED
    BY <1>1, <2>2, <2>3, NamesAssumption DEF ThreadsOK
<1>5. ASSUME ~Many
      PROVE  threads' = threads /\ inUseIO' = inUseIO
  BY <1>5 DEF Completes
<1>6. \A u \in Threads : pc'[u] = "waiting" => pc[u] = "waiting"
  BY <1>1, CompletedPlaces
<1>7. QED
  BY <1>1, <1>2, <1>3, <1>4, <1>5, <1>6 DEF ThreadsOK

\* A leader that makes an upcall lets a follower take over.
LEMMA CompletedLeaders ==
    ASSUME TypeOK, Control, NEW t \in Threads, pc[t] \in IO, NEW p \in {"upcall", "ended"},
           Completes(t, p), CompletedTyped', UNCHANGED <<pool, handlers>>
    PROVE  LeadersOK'
<1>1. Many' = Many /\ LeadersOK
  BY DEF Many, Control
<1>2. \A u \in Threads \ {t} : /\ pc'[u] \in Selecting <=> pc[u] \in Selecting
                               /\ pc'[u] \in IO <=> pc[u] \in IO
  BY CompletedPlaces DEF Control
<1>3. pc'[t] \notin Selecting \cup IO /\ pc[t] \notin Selecting
  BY CompletedPlaces DEF Control, Selecting, IO
<1>4. CASE Many
  <2>1. promote' = (promote \/ t \in leaders) /\ leaders' = leaders \ {t}
    BY <1>4 DEF Completes
  <2>2. (promote' => leaders' = {}) /\ (~promote' => \E x \in Threads : leaders' = {x})
    BY <1>1, <2>1 DEF LeadersOK, TypeOK
  <2>3. QED
    BY <1>1, <1>2, <1>3, <2>1, <2>2 DEF LeadersOK
<1>5. CASE ~Many
  <2>1. UNCHANGED <<promote, leaders>>
    BY <1>5 DEF Completes
  <2>2. QED
    BY <1>1, <1>2, <1>3, <1>5, <2>1 DEF LeadersOK
<1>6. QED
  BY <1>4, <1>5

\* Until destroy() threads call ioCompleted() for an upcall only.
LEMMA CompletedCounts ==
    ASSUME TypeOK, Control, NEW t \in Threads, pc[t] \in IO, NEW p \in {"upcall", "ended"},
           p = "ended" => destroyed,
           Completes(t, p), CompletedTyped', UNCHANGED <<pool, destroyed>>
    PROVE  CountsOK' /\ RoomOK'
<1>1. Many' = Many /\ CountsOK /\ ThreadsOK /\ RoomOK
  BY DEF Many, Control
<1>2. inUse \in Nat /\ pool.sizeIO \in Nat /\ pool.sizeMax \in Nat /\ inUseIO \in Nat
  BY PoolValid DEF TypeOK
<1>3. CASE ~Many
  BY <1>1, <1>3 DEF CountsOK, RoomOK
<1>4. CASE Many
  <2>1. inUseIO' = inUseIO - 1 /\ inUse' = inUse + 1
    BY <1>4 DEF Completes
  <2>2. inUseIO' = Cardinality(At(IO)') /\ inUseIO' <= pool.sizeIO
    <3>1. Cardinality(At(IO) \ {t}) = inUseIO - 1
      BY <1>1, <1>4, OthersCounted
    <3>2. inUseIO <= pool.sizeIO
      BY <1>1, <1>4 DEF CountsOK
    <3>3. At(IO)' = At(IO) \ {t}
      BY <1>1, CompletedSets
    <3>4. QED
      BY <1>2, <2>1, <3>1, <3>2, <3>3
  <2>3. /\ Cardinality(At({"upcall"})) \in Nat
        /\ Cardinality(At({"upcall"})') = IF p = "upcall" THEN Cardinality(At({"upcall"})) + 1
                                                         ELSE Cardinality(At({"upcall"}))
    <3>1. IsFiniteSet(At({"upcall"})) /\ Cardinality(At({"upcall"})) \in Nat
      BY ThreadsFinite, Counted DEF At
    <3>2. t \notin At({"upcall"})
      BY DEF At, IO
    <3>3. At({"upcall"})' = IF p = "upcall" THEN At({"upcall"}) \cup {t} ELSE At({"upcall"})
      BY <1>1, CompletedSets
    <3>4. QED
      BY <3>1, <3>2, <3>3, FS_AddElement
  <2>4. /\ Cardinality(At({"upcall"})') <= inUse'
        /\ ~destroyed => inUse' = Cardinality(At({"upcall"})')
    BY <1>1, <1>2, <1>4, <2>1, <2>3 DEF CountsOK
  <2>5. CountsOK'
    BY <2>2, <2>4 DEF CountsOK
  <2>6. RoomOK'
    <3>1. SUFFICES ASSUME ~destroyed, inUse + 1 < pool.sizeMax
                   PROVE  inUse + 1 < Cardinality(threads')
      BY <2>1 DEF RoomOK
    <3>2. IsFiniteSet(threads) /\ Cardinality(threads) \in Nat
      BY ThreadsFinite, Counted DEF TypeOK
    <3>3. inUse < Cardinality(threads)
      BY <1>1, <1>2, <1>4, <3>1 DEF RoomOK
    <3>4. CASE inUse + 1 = Cardinality(threads)
      <4>1. \E n \in Threads \ threads : threads' = threads \cup {n}
        BY <1>4, <3>1, <3>4 DEF Completes
      <4>2. Cardinality(threads') = Cardinality(threads) + 1
        BY <3>2, <4>1, FS_AddElement
      <4>3. QED
        BY <1>2, <3>2, <3>4, <4>2
    <3>5. CASE inUse + 1 # Cardinality(threads)
      <4>1. threads' = threads
        BY <1>4, <3>1, <3>5 DEF Completes
      <4>2. QED
        BY <1>2, <3>2, <3>3, <3>5, <4>1
    <3>6. QED
      BY <3>4, <3>5
  <2>7. QED
    BY <2>5, <2>6
<1>5. QED
  BY <1>3, <1>4

\* The handler of the thread gives up its place.
LEMMA CompletedLists ==
    ASSUME TypeOK, ThreadsOK, ListsOK, NEW t \in Threads, pc[t] \in IO,
           NEW p \in {"upcall", "ended"}, Completes(t, p), UNCHANGED <<handlers, batch>>,
           \A u \in Threads : current'[u] = current[u] \/ (u = t /\ p = "ended")
    PROVE  /\ ListsOK'
           /\ \A s : Listed(s)' => Listed(s)
           /\ \A i \in 1..Len(handlers) : handlers[i] # current[t]
           /\ \A u \in Threads \ {t} : pc[u] \in IO => current[u] # current[t]
<1>1. /\ pc'[t] = p
      /\ \A u \in Threads \ {t} :
            /\ pc'[u] \in IO <=> pc[u] \in IO
            /\ pc'[u] \in {"selected", "message", "execute", "upcall"}
                  \/ pc[u] \in {"selected", "message", "execute", "upcall"} => pc'[u] = pc[u]
  BY CompletedPlaces
<1>2. p \notin IO /\ p \notin {"selected", "message", "execute"} /\ batch[t] = <<>>
  BY DEF IO, ListsOK
<1>3. \A s : Listed(s)' => Listed(s)
  BY <1>1, <1>2 DEF Listed
<1>4. /\ \A i \in 1..Len(handlers) : handlers[i] # current[t]
      /\ \A u \in Threads \ {t} : pc[u] \in IO => current[u] # current[t]
  BY DEF ListsOK
<1>5. \A u \in Threads : /\ batch'[u] # <<>> => pc'[u] = "selected"
                         /\ pc'[u] \in IO \cup {"upcall"} => current'[u] \in Sources
                         /\ pc'[u] = "execute" => current'[u] = WorkQueue
  BY <1>1, <1>2 DEF ListsOK, IO
<1>6. \A u \in Threads : pc'[u] \in IO => u # t /\ pc[u] \in IO /\ current'[u] = current[u]
  BY <1>1, <1>2
<1>7. ListsOK'
  BY <1>5, <1>6 DEF ListsOK
<1>8. QED
  BY <1>3, <1>4, <1>7


\* With Serialize the handler is disabled, and it was nowhere else.
LEMMA CompletedSerial ==
    ASSUME TypeOK, Control, ListsOK, SerialOK, NEW t \in Threads, pc[t] \in IO,
           NEW p \in {"upcall", "ended"}, p = "ended" => destroyed,
           Completes(t, p), UNCHANGED <<handlers, batch, pool, destroyed>>,
           \A u \in Threads : current'[u] = current[u] \/ (u = t /\ p = "ended")
    PROVE  SerialOK'
<1>1. Many' = Many
  BY DEF Many
<1>2. SUFFICES ASSUME Many, pool.serialize, ~destroyed
               PROVE  SerialOK'
  BY <1>1 DEF SerialOK
<1>3. /\ \A u \in Threads : pc[u] = "upcall" => current[u] \in disabled
      /\ \A u, w \in Threads :
            pc[u] = "upcall" /\ pc[w] = "upcall" /\ current[u] = current[w] => u = w
      /\ \A s \in disabled : ~Listed(s) /\ \A u \in Threads : pc[u] \in IO => current[u] # s
  BY <1>2 DEF SerialOK
<1>4. p = "upcall" /\ disabled' = disabled \cup {current[t]}
  BY <1>2 DEF Completes
<1>5. /\ pc'[t] = "upcall"
      /\ \A u \in Threads \ {t} :
            /\ pc'[u] \in IO <=> pc[u] \in IO
            /\ pc'[u] = "upcall" <=> pc[u] = "upcall"
            /\ pc'[u] = "message" => pc[u] = "message"
  BY <1>4, CompletedPlaces DEF Control, IO
<1>6. \A u \in Threads : current'[u] = current[u]
  BY <1>4
<1>7. /\ \A s : Listed(s)' => Listed(s)
      /\ \A i \in 1..Len(handlers) : handlers[i] # current[t]
      /\ \A u \in Threads \ {t} : pc[u] \in IO => current[u] # current[t]
  BY CompletedLists DEF Control
<1>8. \A u \in Threads : pc[u] = "upcall" => current[u] # current[t]
  BY <1>3
<1>9. \A u \in Threads : batch'[u] = <<>>
  BY DEF ListsOK, Control, LeadersOK, Selecting
<1>10. ASSUME Listed(current[t])'
       PROVE  FALSE
  <2>1. \E u \in Threads : pc'[u] = "message" /\ current'[u] = current[t]
    BY <1>7, <1>9, <1>10, <1>6 DEF Listed
  <2>2. QED
    BY <1>5, <1>6, <1>7, <2>1 DEF IO
<1>11. \A u \in Threads : pc'[u] = "upcall" => current'[u] \in disabled'
  BY <1>3, <1>4, <1>5, <1>6
<1>12. \A u, w \in Threads :
          pc'[u] = "upcall" /\ pc'[w] = "upcall" /\ current'[u] = current'[w] => u = w
  BY <1>3, <1>5, <1>6, <1>8
<1>13. \A u \in Threads : pc'[u] \in IO => current'[u] \notin disabled'
  BY <1>3, <1>4, <1>5, <1>6, <1>7 DEF IO
<1>14. \A s \in disabled' : ~Listed(s)'
  BY <1>3, <1>4, <1>7, <1>10
<1>15. QED
  BY <1>11, <1>12, <1>13, <1>14 DEF SerialOK

-----------------------------------------------------------------------------
(***************************************************************************)
(* The invariant, step by step                                             *)
(***************************************************************************)

\* A turn preserves the whole invariant.
LEMMA TurnKept ==
    ASSUME IInv, NEW t \in Threads, NEW io, NEW hs, Turn(t, io, hs), PoolTyped',
           UNCHANGED <<queueVars, registered, toArrive>>,
           disabled' = IF Many /\ pc[t] = "upcall" THEN disabled \ {current[t]} ELSE disabled,
           item' \in [Threads -> Items \cup {None}],
           \A u \in Threads : item'[u] = item[u] \/ item'[u] = None,
           pending' \in [Handlers -> Nat],
           closed' \in [Handlers -> {"open", "finishing", "finished"}],
           \A h \in Handlers : \/ closed'[h] = closed[h]
                               \/ closed'[h] = "finished"
                                  /\ \E u \in Threads : item[u] = <<"finished", h>>
    PROVE  IInv'
<1>1. /\ TypeOK /\ Control /\ ListsOK /\ QueueOK /\ FinishOK /\ SerialOK
      /\ ThreadsOK /\ LeadersOK /\ CountsOK
  BY DEF IInv, Control
<1>2. UNCHANGED <<pool, destroyed, threads>> /\ UNCHANGED workItems
  BY DEF Turn, queueVars
<1>3. Unjoined' \subseteq Unjoined
  BY <1>2, UnjoinedKept
<1>4. ThreadsOK' /\ LeadersOK' /\ CountsOK' /\ RoomOK' /\ inUse' \in Nat
  BY <1>1, <1>3, TurnThreads, TurnLeaders, TurnCounts
<1>5. ListsOK' /\ \A s : Listed(s)' => Listed(s)
  BY <1>1, TurnLists
<1>6. batch' \in [Threads -> Seq(Sources)]
  BY <1>1, TurnLeft
<1>7. TypeOK'
  BY <1>1, <1>2, <1>4, <1>6 DEF TypeOK, PoolTyped, queueVars
<1>8. QueueOK'
  BY <1>1, <1>2, <1>5, QueueKept
<1>9. FinishOK'
  BY <1>1, <1>2, <1>5, FinishKept
<1>10. SerialOK'
  BY <1>1, TurnSerial
<1>11. QED
  BY <1>4, <1>5, <1>7, <1>8, <1>9, <1>10 DEF IInv, Control

\* So does ioCompleted().
LEMMA CompletedKept ==
    ASSUME IInv, NEW t \in Threads, pc[t] \in IO,
           NEW p \in {"upcall", "ended"}, p = "ended" => destroyed, IoCompleted(t, p),
           UNCHANGED <<pool, destroyed, handlers, batch, queueVars, registered, toArrive>>,
           current' \in [Threads -> Sources \cup {None}],
           \A u \in Threads : current'[u] = current[u] \/ (u = t /\ p = "ended"),
           item' \in [Threads -> Items \cup {None}],
           \A u \in Threads : item'[u] = item[u] \/ item'[u] = None,
           pending' \in [Handlers -> Nat],
           closed' \in [Handlers -> {"open", "finishing", "finished"}],
           \A h \in Handlers : \/ closed'[h] = closed[h]
                               \/ closed'[h] = "finished"
                                  /\ \E u \in Threads : item[u] = <<"finished", h>>
    PROVE  IInv'
<1>1. /\ TypeOK /\ Control /\ ListsOK /\ QueueOK /\ FinishOK /\ SerialOK
      /\ ThreadsOK /\ LeadersOK /\ CountsOK
  BY DEF IInv, Control
<1>2. UNCHANGED workItems
  BY DEF queueVars
<1>3. Unjoined' \subseteq Unjoined
  BY <1>2, UnjoinedKept
<1>4. Completes(t, p) /\ CompletedTyped'
  BY <1>1, CompletedStep
<1>5. ThreadsOK' /\ LeadersOK' /\ CountsOK' /\ RoomOK'
  BY <1>1, <1>3, <1>4, CompletedThreads, CompletedLeaders, CompletedCounts
<1>6. ListsOK' /\ \A s : Listed(s)' => Listed(s)
  BY <1>1, <1>4, CompletedLists
<1>7. TypeOK'
  BY <1>1, <1>4 DEF TypeOK, CompletedTyped, queueVars
<1>8. QueueOK'
  BY <1>1, <1>6, QueueKept
<1>9. FinishOK'
  BY <1>1, <1>2, <1>6, FinishKept
<1>10. SerialOK'
  BY <1>1, <1>4, CompletedSerial
<1>11. QED
  BY <1>5, <1>6, <1>7, <1>8, <1>9, <1>10 DEF IInv, Control


\* run() of a thread without a handler.
LEMMA FollowKept ==
    ASSUME IInv, NEW t \in Threads, Follow(t)
    PROVE  IInv'
<1>1. Turn(t, inUseIO, handlers) /\ PoolTyped'
  BY FollowTurns DEF IInv
<1>2. /\ pc[t] # "upcall"
      /\ UNCHANGED <<pool, destroyed, inUse, threads, item, batch, queueVars, registered,
                     disabled, envVars>>
  BY DEF Follow
<1>3. /\ item \in [Threads -> Items \cup {None}] /\ pending \in [Handlers -> Nat]
      /\ closed \in [Handlers -> {"open", "finishing", "finished"}]
  BY DEF IInv, TypeOK
<1>4. QED
  BY <1>1, <1>2, <1>3, TurnKept DEF envVars

\* The batch of select() becomes the list.
LEMMA FinishSelectKept ==
    ASSUME IInv, NEW t \in Threads, FinishSelect(t)
    PROVE  IInv'
<1>1. Turn(t, inUseIO, batch[t]) /\ PoolTyped'
  BY FinishSelectTurns DEF IInv
<1>2. /\ pc[t] # "upcall"
      /\ UNCHANGED <<pool, destroyed, inUse, threads, item, queueVars, registered, disabled,
                     envVars>>
  BY DEF FinishSelect
<1>3. /\ item \in [Threads -> Items \cup {None}] /\ pending \in [Handlers -> Nat]
      /\ closed \in [Handlers -> {"open", "finishing", "finished"}]
  BY DEF IInv, TypeOK
<1>4. QED
  BY <1>1, <1>2, <1>3, TurnKept DEF envVars

\* A message is read at most once.
LEMMA ReadsTyped ==
    ASSUME TypeOK, NEW h \in Handlers, Reads(h)
    PROVE  pending' \in [Handlers -> Nat] /\ UNCHANGED <<toArrive, closed>>
<1>1. CASE closed[h] = "open" /\ pending[h] > 0
  <2>1. pending' = [pending EXCEPT ![h] = pending[h] - 1]
    BY <1>1 DEF Reads
  <2>2. pending[h] - 1 \in Nat
    BY <1>1 DEF TypeOK
  <2>3. QED
    BY <2>1, <2>2 DEF Reads, TypeOK
<1>2. CASE ~(closed[h] = "open" /\ pending[h] > 0)
  BY <1>2 DEF Reads, TypeOK
<1>3. QED
  BY <1>1, <1>2

\* message() without an upcall.
LEMMA MessageReturnsKept ==
    ASSUME IInv, NEW t \in Threads, MessageReturns(t)
    PROVE  IInv'
<1>1. /\ pc[t] \in IO /\ pc[t] # "upcall" /\ ReturnFromIO(t) /\ current[t] \in Handlers
      /\ Reads(current[t])
      /\ UNCHANGED <<pool, destroyed, item, batch, queueVars, registered>>
  BY DEF MessageReturns, IO
<1>2. \E io : Turn(t, io, handlers) /\ PoolTyped'
  BY <1>1, ReturnTurns DEF IInv
<1>3. pending' \in [Handlers -> Nat] /\ UNCHANGED <<toArrive, closed>>
  BY <1>1, ReadsTyped DEF IInv
<1>4. UNCHANGED disabled
  BY <1>1 DEF ReturnFromIO
<1>5. /\ item \in [Threads -> Items \cup {None}]
      /\ closed \in [Handlers -> {"open", "finishing", "finished"}]
  BY DEF IInv, TypeOK
<1>6. QED
  BY <1>1, <1>2, <1>3, <1>4, <1>5, TurnKept

\* message() calls the application.
LEMMA MessageDispatchesKept ==
    ASSUME IInv, NEW t \in Threads, MessageDispatches(t)
    PROVE  IInv'
<1>1. /\ pc[t] \in IO /\ IoCompleted(t, "upcall") /\ current[t] \in Handlers
      /\ Reads(current[t])
      /\ UNCHANGED <<pool, destroyed, handlers, current, item, batch, queueVars, registered>>
  BY DEF MessageDispatches, IO
<1>2. pending' \in [Handlers -> Nat] /\ UNCHANGED <<toArrive, closed>>
  BY <1>1, ReadsTyped DEF IInv
<1>3. /\ item \in [Threads -> Items \cup {None}] /\ current \in [Threads -> Sources \cup {None}]
      /\ closed \in [Handlers -> {"open", "finishing", "finished"}]
  BY DEF IInv, TypeOK
<1>4. QED
  BY <1>1, <1>2, <1>3, CompletedKept

\* The application has returned.
LEMMA UpcallReturnsKept ==
    ASSUME IInv, NEW t \in Threads, UpcallReturns(t)
    PROVE  IInv'
<1>1. Turn(t, inUseIO, handlers) /\ PoolTyped'
  BY UpcallTurns DEF IInv
<1>2. /\ pc[t] = "upcall"
      /\ disabled' = IF Many THEN disabled \ {current[t]} ELSE disabled
      /\ item' = [item EXCEPT ![t] = None]
      /\ UNCHANGED <<queueVars, registered, envVars>>
  BY DEF UpcallReturns
<1>3. /\ item' \in [Threads -> Items \cup {None}] /\ pending \in [Handlers -> Nat]
      /\ closed \in [Handlers -> {"open", "finishing", "finished"}]
      /\ \A u \in Threads : item'[u] = item[u] \/ item'[u] = None
  BY <1>2 DEF IInv, TypeOK
<1>4. QED
  BY <1>1, <1>2, <1>3, TurnKept DEF envVars

\* The item of a thread takes its effect and is forgotten.
LEMMA ItemDone ==
    ASSUME TypeOK, NEW t \in Threads, item' = [item EXCEPT ![t] = None],
           \/ \E h \in Handlers : /\ item[t] = <<"finished", h>>
                                  /\ closed' = [closed EXCEPT ![h] = "finished"]
           \/ UNCHANGED closed
    PROVE  /\ item' \in [Threads -> Items \cup {None}]
           /\ \A u \in Threads : item'[u] = item[u] \/ item'[u] = None
           /\ closed' \in [Handlers -> {"open", "finishing", "finished"}]
           /\ \A h \in Handlers : \/ closed'[h] = closed[h]
                                  \/ closed'[h] = "finished"
                                     /\ \E u \in Threads : item[u] = <<"finished", h>>
BY DEF TypeOK

\* An item of the work queue that does not call the application.
LEMMA ExecuteReturnsKept ==
    ASSUME IInv, NEW t \in Threads, ExecuteReturns(t)
    PROVE  IInv'
<1>1. /\ pc[t] \in IO /\ pc[t] # "upcall" /\ ReturnFromIO(t)
      /\ UNCHANGED <<pool, destroyed, batch, queueVars, registered, toArrive, pending>>
  BY DEF ExecuteReturns, IO
<1>2. /\ item' = [item EXCEPT ![t] = None]
      /\ \/ \E h \in Handlers : /\ item[t] = <<"finished", h>>
                                /\ closed' = [closed EXCEPT ![h] = "finished"]
         \/ UNCHANGED closed
  BY DEF ExecuteReturns
<1>3. /\ item' \in [Threads -> Items \cup {None}]
      /\ \A u \in Threads : item'[u] = item[u] \/ item'[u] = None
      /\ closed' \in [Handlers -> {"open", "finishing", "finished"}]
      /\ \A h \in Handlers : \/ closed'[h] = closed[h]
                             \/ closed'[h] = "finished"
                                /\ \E u \in Threads : item[u] = <<"finished", h>>
  BY <1>2, ItemDone DEF IInv
<1>4. \E io : Turn(t, io, handlers) /\ PoolTyped'
  BY <1>1, ReturnTurns DEF IInv
<1>5. UNCHANGED disabled /\ pending \in [Handlers -> Nat]
  BY <1>1 DEF ReturnFromIO, IInv, TypeOK
<1>6. QED
  BY <1>1, <1>3, <1>4, <1>5, TurnKept

\* An item of the work queue that does.
LEMMA ExecuteDispatchesKept ==
    ASSUME IInv, NEW t \in Threads, ExecuteDispatches(t)
    PROVE  IInv'
<1>1. /\ pc[t] \in IO /\ IoCompleted(t, "upcall")
      /\ UNCHANGED <<pool, destroyed, handlers, current, batch, queueVars, registered, toArrive,
                     pending>>
  BY DEF ExecuteDispatches, IO
<1>2. /\ item' = [item EXCEPT ![t] = None]
      /\ \/ \E h \in Handlers : /\ item[t] = <<"finished", h>>
                                /\ closed' = [closed EXCEPT ![h] = "finished"]
         \/ UNCHANGED closed
  BY DEF ExecuteDispatches
<1>3. /\ item' \in [Threads -> Items \cup {None}]
      /\ \A u \in Threads : item'[u] = item[u] \/ item'[u] = None
      /\ closed' \in [Handlers -> {"open", "finishing", "finished"}]
      /\ \A h \in Handlers : \/ closed'[h] = closed[h]
                             \/ closed'[h] = "finished"
                                /\ \E u \in Threads : item[u] = <<"finished", h>>
  BY <1>2, ItemDone DEF IInv
<1>4. current \in [Threads -> Sources \cup {None}] /\ pending \in [Handlers -> Nat]
  BY DEF IInv, TypeOK
<1>5. QED
  BY <1>1, <1>3, <1>4, CompletedKept

\* The work queue is found empty after destroy() only.
LEMMA ThreadPoolDestroyedKept ==
    ASSUME IInv, NEW t \in Threads, ThreadPoolDestroyed(t)
    PROVE  IInv'
<1>1. /\ pc[t] = "message" /\ pc[t] \in IO /\ current[t] = WorkQueue /\ workItems = <<>>
      /\ IoCompleted(t, "ended") /\ current' = [current EXCEPT ![t] = None]
      /\ UNCHANGED <<pool, destroyed, handlers, item, batch, queueVars, registered, envVars>>
  BY DEF ThreadPoolDestroyed, IO
<1>2. destroyed
  <2>1. Listed(WorkQueue)
    BY <1>1 DEF Listed
  <2>2. QED
    BY <1>1, <2>1 DEF IInv, QueueOK
<1>3. /\ item \in [Threads -> Items \cup {None}] /\ pending \in [Handlers -> Nat]
      /\ current' \in [Threads -> Sources \cup {None}]
      /\ \A u \in Threads : current'[u] = current[u] \/ u = t
      /\ closed \in [Handlers -> {"open", "finishing", "finished"}]
  BY <1>1 DEF IInv, TypeOK
<1>4. QED
  BY <1>1, <1>2, <1>3, CompletedKept DEF envVars


\* A step by which no thread starts or stops to select, to do I/O or to make an upcall.
LEMMA ControlKept ==
    ASSUME TypeOK, Control, UNCHANGED <<pool, threads, inUse, inUseIO, promote, leaders>>,
           handlers' = handlers \/ handlers' = <<>>,
           destroyed => destroyed',
           \A u \in Threads : /\ pc'[u] \in Selecting <=> pc[u] \in Selecting
                              /\ pc'[u] \in IO <=> pc[u] \in IO
                              /\ pc'[u] = "upcall" <=> pc[u] = "upcall"
                              /\ pc'[u] = "ended" <=> pc[u] = "ended"
                              /\ pc'[u] = "waiting" <=> pc[u] = "waiting",
           Unjoined' \subseteq Unjoined
    PROVE  Control'
<1>1. Many' = Many /\ ThreadsOK /\ LeadersOK /\ CountsOK /\ RoomOK
  BY DEF Many, Control
<1>2. ThreadsOK'
  <2>1. Unjoined \in SUBSET Threads /\ IsFiniteSet(Threads)
    BY ThreadsFinite DEF Unjoined
  <2>2. IsFiniteSet(Unjoined) /\ Cardinality(Unjoined) \in Nat
    BY <2>1, Counted
  <2>3. Cardinality(Unjoined') <= Cardinality(Unjoined) /\ Cardinality(Unjoined') \in Nat
    BY <2>2, FS_Subset, FS_CardinalityType
  <2>4. Cardinality(Unjoined') <= MaxUnjoined
    BY <1>1, <2>2, <2>3, NamesAssumption DEF ThreadsOK
  <2>5. QED
    BY <1>1, <2>4 DEF ThreadsOK
<1>3. LeadersOK'
  <2>1. \A u \in Threads : pc'[u] \in Selecting \cup IO <=> pc[u] \in Selecting \cup IO
    OBVIOUS
  <2>2. QED
    BY <1>1, <2>1 DEF LeadersOK
<1>4. At(IO)' = At(IO) /\ At({"upcall"})' = At({"upcall"})
  BY DEF At
<1>5. CountsOK' /\ RoomOK'
  BY <1>1, <1>4 DEF CountsOK, RoomOK
<1>6. QED
  BY <1>2, <1>3, <1>5 DEF Control

\* An item is queued behind the others.
LEMMA ItemQueued ==
    ASSUME TypeOK, NEW i \in Items, QueueItem(i)
    PROVE  /\ workItems' \in Seq(Items) /\ pipe' \in Nat /\ workItems' # <<>>
           /\ Len(workItems') = Len(workItems) + 1 /\ workItems'[Len(workItems) + 1] = i
           /\ \A j \in 1..Len(workItems) : workItems'[j] = workItems[j]
           /\ workItems # <<>> => Head(workItems') = Head(workItems)
           /\ pipe' = IF workItems = <<>> THEN pipe + 1 ELSE pipe
<1>1. /\ workItems \in Seq(Items) /\ pipe \in Nat /\ workItems' = Append(workItems, i)
      /\ pipe' = IF workItems = <<>> THEN pipe + 1 ELSE pipe
  BY DEF TypeOK, QueueItem
<1>2. QED
  BY <1>1

\* Only an item for a thread that leaves adds one to be joined.
LEMMA UnjoinedQueued ==
    ASSUME TypeOK, NEW i \in Items, QueueItem(i), UNCHANGED item
    PROVE  Unjoined' \subseteq Unjoined \cup {x \in Threads : i = <<"join", x>>}
<1> SUFFICES ASSUME NEW x \in Unjoined', i # <<"join", x>>
             PROVE  x \in Unjoined
  BY DEF Unjoined
<1>1. x \in Threads
  BY DEF Unjoined
<1>2. CASE \E u \in Threads : item'[u] = <<"join", x>>
  BY <1>1, <1>2 DEF Unjoined
<1>3. CASE \E j \in DOMAIN workItems' : workItems'[j] = <<"join", x>>
  <2>1. DOMAIN workItems = 1..Len(workItems) /\ DOMAIN workItems' = 1..Len(workItems')
    BY ItemQueued DEF TypeOK
  <2>2. PICK j \in 1..Len(workItems') : workItems'[j] = <<"join", x>>
    BY <1>3, <2>1
  <2>3. Len(workItems) \in Nat
    BY DEF TypeOK
  <2>4. j \in 1..Len(workItems) /\ workItems[j] = <<"join", x>>
    <3>1. /\ Len(workItems') = Len(workItems) + 1 /\ workItems'[Len(workItems) + 1] = i
          /\ \A k \in 1..Len(workItems) : workItems'[k] = workItems[k]
      BY ItemQueued
    <3>2. j # Len(workItems) + 1
      BY <2>2, <3>1
    <3>3. j \in 1..Len(workItems)
      BY <2>2, <2>3, <3>1, <3>2
    <3>4. QED
      BY <2>2, <3>1, <3>3
  <2>5. QED
    BY <1>1, <2>1, <2>4 DEF Unjoined
<1>4. QED
  BY <1>2, <1>3 DEF Unjoined

\* The new item is not the next one while the work queue is listed.
LEMMA QueuedKept ==
    ASSUME TypeOK, QueueOK, FinishOK, NEW i \in Items, QueueItem(i),
           ~destroyed, UNCHANGED <<destroyed, item>>, \A s : Listed(s)' => Listed(s),
           \A h \in Handlers : /\ i = <<"finished", h>> => closed'[h] # "open"
                               /\ closed'[h] # "open" => h \notin registered'
                               /\ closed[h] # "open" => closed'[h] # "open"
                               /\ closed'[h] = "finished" => closed[h] = "finished"
    PROVE  QueueOK' /\ FinishOK'
<1>1. /\ workItems' # <<>> /\ workItems'[Len(workItems) + 1] = i
      /\ Len(workItems') = Len(workItems) + 1 /\ Len(workItems) \in Nat
      /\ \A j \in 1..Len(workItems) : workItems'[j] = workItems[j]
      /\ workItems # <<>> => Head(workItems') = Head(workItems)
      /\ pipe' = IF workItems = <<>> THEN pipe + 1 ELSE pipe
  BY ItemQueued DEF TypeOK
<1>2. pipe = IF workItems = <<>> THEN 0 ELSE 1
  BY DEF QueueOK
<1>3. QueueOK'
  BY <1>1, <1>2 DEF QueueOK
<1>4. ASSUME NEW h \in Handlers, NEW j \in 1..Len(workItems'), workItems'[j] = <<"finished", h>>
      PROVE  closed'[h] # "open"
  <2>1. CASE j \in 1..Len(workItems)
    BY <1>1, <1>4, <2>1 DEF FinishOK
  <2>2. CASE j = Len(workItems) + 1
    BY <1>1, <1>4, <2>2
  <2>3. QED
    BY <1>1, <2>1, <2>2
<1>5. ASSUME NEW h \in Handlers, Listed(WorkQueue)', Head(workItems') = <<"finished", h>>
      PROVE  ~Listed(h)'
  <2>1. workItems # <<>> /\ Listed(WorkQueue)
    BY <1>5 DEF QueueOK
  <2>2. QED
    BY <1>1, <1>5, <2>1 DEF FinishOK
<1>6. \A h \in Handlers :
         /\ closed'[h] = "finished" => ~Listed(h)'
         /\ \A u \in Threads : item'[u] = <<"finished", h>> => closed'[h] # "open" /\ ~Listed(h)'
  BY DEF FinishOK
<1>7. FinishOK'
  BY <1>4, <1>5, <1>6 DEF FinishOK
<1>8. QED
  BY <1>3, <1>7

\* The server is shut down when it has been idle.
LEMMA SelectTimedOutKept ==
    ASSUME IInv, NEW t \in Threads, SelectTimedOut(t)
    PROVE  IInv'
<1>1. TypeOK /\ Control /\ ListsOK /\ QueueOK /\ FinishOK /\ SerialOK
  BY DEF IInv
<1>2. /\ pc[t] = "timedout" /\ pc' = [pc EXCEPT ![t] = "select"]
      /\ IF ~destroyed /\ inUse = 0 THEN QueueItem(<<"shutdown">>) ELSE UNCHANGED queueVars
      /\ UNCHANGED <<pool, destroyed, poolVars, item, batch, registered, disabled, envVars>>
  BY DEF SelectTimedOut
<1>3. UNCHANGED <<inUse, inUseIO, handlers, promote, leaders, current, threads,
                  toArrive, pending, closed>>
  BY <1>2 DEF poolVars, envVars
<1>4. <<"shutdown">> \in Items /\ \A x : <<"join", x>> # <<"shutdown">> /\ <<"finished", x>> # <<"shutdown">>
  BY DEF Items
<1>5. pc'[t] = "select" /\ \A u \in Threads : u # t => pc'[u] = pc[u]
  BY <1>1, <1>2 DEF TypeOK
<1>6. \A u \in Threads : /\ pc'[u] \in Selecting <=> pc[u] \in Selecting
                         /\ pc'[u] \in IO <=> pc[u] \in IO
                         /\ pc'[u] = "upcall" <=> pc[u] = "upcall"
                         /\ pc'[u] = "ended" <=> pc[u] = "ended"
                         /\ pc'[u] = "waiting" <=> pc[u] = "waiting"
                         /\ pc'[u] \in {"selected", "message", "execute"} <=>
                               pc[u] \in {"selected", "message", "execute"}
                         /\ pc[u] \in {"selected", "message", "execute", "upcall"} => pc'[u] = pc[u]
  BY <1>2, <1>5 DEF Selecting, IO
<1>7. \A s : Listed(s)' => Listed(s)
  BY <1>2, <1>3, <1>6 DEF Listed
<1>8. ListsOK'
  BY <1>1, <1>2, <1>3, <1>6 DEF ListsOK, IO
<1>9. SerialOK'
  <2>1. Many' = Many
    BY <1>2 DEF Many
  <2>2. QED
    BY <1>1, <1>2, <1>3, <1>6, <1>7, <2>1 DEF SerialOK
<1>10. pc' \in [Threads -> Places]
  BY <1>1, <1>2 DEF TypeOK, Places
<1>11. CASE ~destroyed /\ inUse = 0
  <2>1. QueueItem(<<"shutdown">>)
    BY <1>2, <1>11
  <2>2. QueueOK' /\ FinishOK'
    BY <1>1, <1>2, <1>3, <1>4, <1>7, <1>11, <2>1, QueuedKept DEF FinishOK
  <2>3. Unjoined' \subseteq Unjoined
    BY <1>1, <1>2, <1>4, <2>1, UnjoinedQueued
  <2>4. Control'
    BY <1>1, <1>2, <1>3, <1>6, <2>3, ControlKept
  <2>5. TypeOK'
    BY <1>1, <1>2, <1>3, <1>4, <1>10, <2>1, ItemQueued DEF TypeOK
  <2>6. QED
    BY <1>8, <1>9, <2>2, <2>4, <2>5 DEF IInv
<1>12. CASE ~(~destroyed /\ inUse = 0)
  <2>1. UNCHANGED queueVars /\ UNCHANGED <<workItems, pipe>>
    BY <1>2, <1>12 DEF queueVars
  <2>2. QueueOK' /\ FinishOK'
    BY <1>1, <1>2, <1>3, <1>7, <2>1, QueueKept, FinishKept
  <2>3. Unjoined' \subseteq Unjoined
    BY <1>2, <2>1 DEF Unjoined
  <2>4. Control'
    BY <1>1, <1>2, <1>3, <1>6, <2>3, ControlKept
  <2>5. TypeOK'
    BY <1>1, <1>2, <1>3, <1>10, <2>1 DEF TypeOK
  <2>6. QED
    BY <1>8, <1>9, <2>2, <2>4, <2>5 DEF IInv
<1>13. QED
  BY <1>11, <1>12


\* What select() reports is enabled and has not closed, and a work queue has items.
LEMMA ReadyHandlers ==
    ASSUME TypeOK, QueueOK, FinishOK
    PROVE  /\ IsFiniteSet(Ready) /\ Ready \subseteq Sources /\ Ready \cap disabled = {}
           /\ WorkQueue \in Ready /\ ~destroyed => workItems # <<>>
           /\ \A h \in Handlers : closed[h] # "open" => h \notin Ready
<1>1. IsFiniteSet(Sources)
  BY NamesAssumption, FS_AddElement DEF Sources
<1>2. Ready \subseteq registered /\ Ready \subseteq Sources /\ Ready \cap disabled = {}
  BY DEF Ready, TypeOK
<1>3. IsFiniteSet(Ready)
  BY <1>1, <1>2, FS_Subset
<1>4. WorkQueue \in Ready => pipe > 0
  BY DEF Ready
<1>5. QED
  BY <1>2, <1>3, <1>4 DEF QueueOK, FinishOK

\* select() reports handlers when the lists are empty.
LEMMA SelectKept ==
    ASSUME IInv, NEW t \in Threads, Select(t)
    PROVE  IInv'
<1>1. /\ TypeOK /\ Control /\ ListsOK /\ QueueOK /\ FinishOK /\ SerialOK /\ LeadersOK
  BY DEF IInv, Control
<1>2. /\ pc[t] = "select"
      /\ UNCHANGED <<pool, destroyed, poolVars, item, queueVars, registered, disabled, envVars>>
  BY DEF Select
<1>3. UNCHANGED <<inUse, inUseIO, handlers, promote, leaders, current, threads,
                  workItems, pipe, toArrive, pending, closed>>
  BY <1>2 DEF poolVars, envVars, queueVars
<1>4. /\ IsFiniteSet(Ready) /\ Ready \subseteq Sources /\ Ready \cap disabled = {}
      /\ WorkQueue \in Ready /\ ~destroyed => workItems # <<>>
      /\ \A h \in Handlers : closed[h] # "open" => h \notin Ready
  BY <1>1, ReadyHandlers
\* Nothing else is listed meanwhile.
<1>5. /\ handlers = <<>>
      /\ \A u \in Threads : pc[u] \notin IO /\ batch[u] = <<>>
      /\ \A u \in Threads : pc[u] = "selected" => u = t
  BY <1>1, <1>2 DEF LeadersOK, ListsOK, Selecting, TypeOK
<1>6. \E s : /\ s \in Seq(Ready) /\ \A i, j \in 1..Len(s) : s[i] = s[j] => i = j
             /\ batch' = [batch EXCEPT ![t] = s]
             /\ \E p \in {"selected", "timedout"} : /\ pc' = [pc EXCEPT ![t] = p]
                                                    /\ s # <<>> => p = "selected"
  <2>1. CASE Ready # {} /\ pc' = [pc EXCEPT ![t] = "selected"]
    <3>1. \E s \in Orders(Ready) : batch' = [batch EXCEPT ![t] = s]
      BY <2>1, <1>1 DEF Select, TypeOK
    <3>2. QED
      BY <1>4, <2>1, <3>1, OrderOnce
  <2>2. CASE UNCHANGED batch /\ pc' = [pc EXCEPT ![t] = "timedout"]
    <3>1. batch' = [batch EXCEPT ![t] = <<>>]
      BY <1>1, <1>5, <2>2 DEF TypeOK
    <3>2. <<>> \in Seq(Ready) /\ \A i, j \in 1..Len(<<>>) : <<>>[i] = <<>>[j] => i = j
      OBVIOUS
    <3>3. WITNESS <<>>
    <3>4. \E p \in {"selected", "timedout"} : /\ pc' = [pc EXCEPT ![t] = p]
                                              /\ <<>> # <<>> => p = "selected"
      BY <2>2
    <3>5. QED
      BY <3>1, <3>2, <3>4
  <2>3. QED
    BY <2>1, <2>2 DEF Select
<1>7. PICK s \in Seq(Ready) : /\ \A i, j \in 1..Len(s) : s[i] = s[j] => i = j
                              /\ batch' = [batch EXCEPT ![t] = s]
                              /\ \E p \in {"selected", "timedout"} :
                                    /\ pc' = [pc EXCEPT ![t] = p]
                                    /\ s # <<>> => p = "selected"
  BY <1>6
<1>8. /\ pc'[t] \in {"selected", "timedout"} /\ (s # <<>> => pc'[t] = "selected")
      /\ \A u \in Threads : u # t => pc'[u] = pc[u]
      /\ pc' \in [Threads -> Places]
  BY <1>1, <1>7 DEF TypeOK, Places
<1>9. /\ batch' \in [Threads -> Seq(Sources)] /\ batch'[t] = s
      /\ \A u \in Threads : u # t => batch'[u] = <<>>
  <2>1. s \in Seq(Sources)
    BY <1>4
  <2>2. QED
    BY <1>1, <1>5, <1>7, <2>1 DEF TypeOK
<1>10. \A u \in Threads : /\ pc'[u] \in Selecting <=> pc[u] \in Selecting
                          /\ pc'[u] \in IO <=> pc[u] \in IO
                          /\ pc'[u] = "upcall" <=> pc[u] = "upcall"
                          /\ pc'[u] = "ended" <=> pc[u] = "ended"
                          /\ pc'[u] = "waiting" <=> pc[u] = "waiting"
                          /\ pc'[u] \notin IO
  BY <1>2, <1>5, <1>8 DEF Selecting, IO
<1>11. \A x : Listed(x)' => x \in Ready
  <2>1. \A u \in Threads : pc'[u] # "message"
    BY <1>10 DEF IO
  <2>2. \A i \in 1..Len(s) : s[i] \in Ready
    OBVIOUS
  <2>3. handlers' = <<>>
    BY <1>3, <1>5
  <2>4. QED
    BY <1>9, <2>1, <2>2, <2>3 DEF Listed
<1>12. Control'
  <2>1. Unjoined' \subseteq Unjoined
    BY <1>2, <1>3 DEF Unjoined
  <2>2. QED
    BY <1>1, <1>2, <1>3, <1>10, <2>1, ControlKept
<1>13. TypeOK'
  BY <1>1, <1>2, <1>3, <1>8, <1>9 DEF TypeOK
<1>14. ListsOK'
  <2>1. handlers' = <<>>
    BY <1>3, <1>5
  <2>2. \A u \in Threads :
           /\ \A i, j \in 1..Len(batch'[u]) : batch'[u][i] = batch'[u][j] => i = j
           /\ batch'[u] # <<>> => pc'[u] = "selected"
    BY <1>7, <1>8, <1>9
  <2>3. \A u \in Threads : pc'[u] = "upcall" => current'[u] \in Sources
    BY <1>1, <1>3, <1>10 DEF ListsOK
  <2>4. QED
    BY <1>10, <2>1, <2>2, <2>3 DEF ListsOK, IO
<1>15. QueueOK'
  BY <1>1, <1>2, <1>3, <1>4, <1>11 DEF QueueOK
<1>16. FinishOK'
  <2> SUFFICES ASSUME NEW h \in Handlers
               PROVE  /\ closed'[h] # "open" => h \notin registered'
                      /\ \A i \in 1..Len(workItems') :
                            workItems'[i] = <<"finished", h>> => closed'[h] # "open"
                      /\ \A u \in Threads :
                            item'[u] = <<"finished", h>> => closed'[h] # "open" /\ ~Listed(h)'
                      /\ Listed(WorkQueue)' /\ workItems' # <<>>
                            /\ Head(workItems') = <<"finished", h>> => ~Listed(h)'
                      /\ closed'[h] = "finished" => ~Listed(h)'
    BY DEF FinishOK
  <2>1. closed[h] # "open" => ~Listed(h)'
    BY <1>4, <1>11
  <2>2. workItems # <<>> /\ Head(workItems) = <<"finished", h>> => closed[h] # "open"
    <3>1. workItems # <<>> => 1 \in 1..Len(workItems) /\ Head(workItems) = workItems[1]
      BY <1>1 DEF TypeOK
    <3>2. QED
      BY <1>1, <3>1 DEF FinishOK
  <2>3. QED
    BY <1>1, <1>2, <1>3, <2>1, <2>2 DEF FinishOK
<1>17. SerialOK'
  <2>1. Many' = Many
    BY <1>2 DEF Many
  <2>2. QED
    BY <1>1, <1>2, <1>3, <1>4, <1>10, <1>11, <2>1 DEF SerialOK
<1>18. QED
  BY <1>12, <1>13, <1>14, <1>15, <1>16, <1>17 DEF IInv

\* The work queue gives up its place in the lists with the item.
LEMMA TakeItemKept ==
    ASSUME IInv, NEW t \in Threads, TakeItem(t)
    PROVE  IInv'
<1>1. /\ TypeOK /\ Control /\ ListsOK /\ QueueOK /\ FinishOK /\ SerialOK /\ LeadersOK
  BY DEF IInv, Control
<1>2. /\ pc[t] = "message" /\ current[t] = WorkQueue /\ workItems # <<>> /\ pipe > 0
      /\ item' = [item EXCEPT ![t] = Head(workItems)]
      /\ workItems' = Tail(workItems)
      /\ pipe' = IF Len(workItems) = 1 THEN pipe - 1 ELSE pipe
      /\ pc' = [pc EXCEPT ![t] = "execute"]
      /\ UNCHANGED <<pool, destroyed, poolVars, batch, registered, disabled, envVars>>
  BY DEF TakeItem
<1>3. UNCHANGED <<inUse, inUseIO, handlers, promote, leaders, current, threads,
                  toArrive, pending, closed>>
  BY <1>2 DEF poolVars, envVars
<1>4. /\ Head(workItems) = workItems[1] /\ workItems[1] \in Items /\ Len(workItems) \in Nat \ {0}
      /\ workItems' \in Seq(Items) /\ Len(workItems') = Len(workItems) - 1
      /\ \A i \in 1..Len(workItems') : workItems'[i] = workItems[i + 1]
  BY <1>1, <1>2, HeadAndTail DEF TypeOK
<1>5. /\ pc'[t] = "execute" /\ \A u \in Threads : u # t => pc'[u] = pc[u]
      /\ pc' \in [Threads -> Places]
      /\ item'[t] = workItems[1] /\ \A u \in Threads : u # t => item'[u] = item[u]
      /\ item' \in [Threads -> Items \cup {None}]
  BY <1>1, <1>2, <1>4 DEF TypeOK, Places
<1>6. \A u \in Threads : /\ pc'[u] \in Selecting <=> pc[u] \in Selecting
                         /\ pc'[u] \in IO <=> pc[u] \in IO
                         /\ pc'[u] = "upcall" <=> pc[u] = "upcall"
                         /\ pc'[u] = "ended" <=> pc[u] = "ended"
                         /\ pc'[u] = "waiting" <=> pc[u] = "waiting"
                         /\ pc'[u] = "message" => pc[u] = "message" /\ u # t
                         /\ pc'[u] = "selected" <=> pc[u] = "selected"
  BY <1>2, <1>5 DEF Selecting, IO
<1>7. Listed(WorkQueue) /\ \A s : Listed(s)' => Listed(s)
  BY <1>2, <1>3, <1>6 DEF Listed
<1>8. ~Listed(WorkQueue)'
  <2>1. \A u \in Threads : batch[u] = <<>>
    BY <1>1, <1>2 DEF LeadersOK, ListsOK, Selecting, IO
  <2>2. \A i \in 1..Len(handlers) : handlers[i] # WorkQueue
    BY <1>1, <1>2 DEF ListsOK, IO
  <2>3. \A u \in Threads : pc[u] = "message" /\ u # t => current[u] # WorkQueue
    BY <1>1, <1>2 DEF ListsOK, IO
  <2>4. QED
    BY <1>2, <1>3, <1>6, <2>1, <2>2, <2>3 DEF Listed
<1>9. Control'
  <2>1. Unjoined' \subseteq Unjoined
    <3> SUFFICES ASSUME NEW x \in Threads,
                        \/ \E i \in DOMAIN workItems' : workItems'[i] = <<"join", x>>
                        \/ \E u \in Threads : item'[u] = <<"join", x>>
                 PROVE  x \in Unjoined
      BY DEF Unjoined
    <3>1. DOMAIN workItems = 1..Len(workItems) /\ DOMAIN workItems' = 1..Len(workItems')
      BY <1>1, <1>4 DEF TypeOK
    <3>2. CASE \E i \in DOMAIN workItems' : workItems'[i] = <<"join", x>>
      <4>1. \E i \in 1..Len(workItems) : workItems[i] = <<"join", x>>
        BY <1>4, <3>1, <3>2
      <4>2. QED
        BY <3>1, <4>1 DEF Unjoined
    <3>3. CASE \E u \in Threads : item'[u] = <<"join", x>>
      <4>1. 1 \in DOMAIN workItems
        BY <1>4, <3>1
      <4>2. QED
        BY <1>5, <3>3, <4>1 DEF Unjoined
    <3>4. QED
      BY <3>2, <3>3
  <2>2. QED
    BY <1>1, <1>2, <1>3, <1>6, <2>1, ControlKept
<1>10. TypeOK'
  <2>1. pipe' \in Nat
    BY <1>1, <1>2 DEF TypeOK
  <2>2. QED
    BY <1>1, <1>2, <1>3, <1>4, <1>5, <2>1 DEF TypeOK
<1>11. ListsOK'
  BY <1>1, <1>2, <1>3, <1>5, <1>6 DEF ListsOK, IO, Sources
<1>12. QueueOK'
  <2>1. Len(workItems) = 1 <=> workItems' = <<>>
    BY <1>4
  <2>2. QED
    BY <1>1, <1>2, <1>8, <2>1 DEF QueueOK
<1>13. FinishOK'
  <2> SUFFICES ASSUME NEW h \in Handlers
               PROVE  /\ \A i \in 1..Len(workItems') :
                            workItems'[i] = <<"finished", h>> => closed[h] # "open"
                      /\ \A u \in Threads :
                            item'[u] = <<"finished", h>> => closed[h] # "open" /\ ~Listed(h)'
    BY <1>1, <1>2, <1>3, <1>7, <1>8 DEF FinishOK
  <2>1. \A i \in 1..Len(workItems') :
           workItems'[i] = <<"finished", h>> => closed[h] # "open"
    <3>1. \A i \in 1..Len(workItems') :
             i + 1 \in 1..Len(workItems) /\ workItems'[i] = workItems[i + 1]
      BY <1>4
    <3>2. \A i \in 1..Len(workItems) : workItems[i] = <<"finished", h>> => closed[h] # "open"
      BY <1>1 DEF FinishOK
    <3>3. QED
      BY <3>1, <3>2
  <2>2. workItems[1] = <<"finished", h>> => closed[h] # "open" /\ ~Listed(h)
    BY <1>1, <1>2, <1>4, <1>7 DEF FinishOK
  <2>3. QED
    BY <1>1, <1>5, <1>7, <2>1, <2>2 DEF FinishOK
<1>14. SerialOK'
  <2>1. Many' = Many
    BY <1>2 DEF Many
  <2>2. QED
    BY <1>1, <1>2, <1>3, <1>6, <1>7, <2>1 DEF SerialOK
<1>15. QED
  BY <1>9, <1>10, <1>11, <1>12, <1>13, <1>14 DEF IInv


\* A thread leaves only if another one is left to do the I/O: the leader, or one of
\* those that do I/O.
LEMMA ShrinkLeaves ==
    ASSUME TypeOK, Control, NEW t \in Threads, pc[t] = "waiting", Many, Blocked(inUseIO)
    PROVE  \E u \in Threads : pc[u] \in Selecting \cup IO
<1>1. LeadersOK /\ CountsOK /\ inUseIO \in Nat
  BY DEF Control, TypeOK
<1>2. CASE ~promote
  BY <1>1, <1>2 DEF LeadersOK
<1>3. CASE inUseIO > 0
  <2>1. At(IO) # {}
    BY <1>1, <1>3, FS_EmptySet DEF CountsOK
  <2>2. QED
    BY <2>1 DEF At
<1>4. inUseIO > 0 \/ ~promote
  BY <1>1, PoolValid DEF Blocked
<1>5. QED
  BY <1>2, <1>3, <1>4

\* A thread that has waited in vain leaves the pool.
LEMMA ShrinkKept ==
    ASSUME IInv, NEW t \in Threads, Shrink(t)
    PROVE  IInv'
<1>1. /\ TypeOK /\ Control /\ ListsOK /\ QueueOK /\ FinishOK /\ SerialOK
      /\ ThreadsOK /\ LeadersOK /\ CountsOK
  BY DEF IInv, Control
<1>2. /\ pc[t] = "waiting" /\ ~destroyed /\ Blocked(inUseIO)
      /\ Cardinality(Unjoined) < MaxUnjoined
      /\ threads' = threads \ {t} /\ QueueItem(<<"join", t>>)
      /\ pc' = [pc EXCEPT ![t] = "ended"]
      /\ UNCHANGED <<pool, destroyed, inUse, inUseIO, handlers, promote, leaders, current, item,
                     batch, registered, disabled, envVars>>
  BY DEF Shrink
<1>3. UNCHANGED <<toArrive, pending, closed>>
  BY <1>2 DEF envVars
<1>4. Many /\ Many' = Many
  BY <1>1, <1>2 DEF ThreadsOK, Many
<1>5. <<"join", t>> \in Items /\ \A h : <<"finished", h>> # <<"join", t>>
  BY DEF Items
<1>6. /\ pc'[t] = "ended" /\ \A u \in Threads : u # t => pc'[u] = pc[u]
      /\ pc' \in [Threads -> Places]
  BY <1>1, <1>2 DEF TypeOK, Places
<1>7. \A u \in Threads : /\ pc'[u] \in Selecting <=> pc[u] \in Selecting
                         /\ pc'[u] \in IO <=> pc[u] \in IO
                         /\ pc'[u] \in Selecting \cup IO <=> pc[u] \in Selecting \cup IO
                         /\ pc'[u] = "upcall" <=> pc[u] = "upcall"
                         /\ pc'[u] \in {"selected", "message", "execute"} <=>
                               pc[u] \in {"selected", "message", "execute"}
                         /\ pc'[u] \in {"selected", "message", "execute", "upcall"} => pc'[u] = pc[u]
                         /\ pc[u] \in {"selected", "message", "execute", "upcall"} => pc'[u] = pc[u]
  BY <1>2, <1>6 DEF Selecting, IO
<1>8. t \in threads /\ t \notin leaders
  BY <1>1, <1>2, <1>4 DEF ThreadsOK, LeadersOK, Selecting, IO
<1>9. \A s : Listed(s)' => Listed(s)
  BY <1>2, <1>7 DEF Listed
<1>10. QueueOK' /\ FinishOK'
  BY <1>1, <1>2, <1>3, <1>5, <1>9, QueuedKept DEF FinishOK
<1>11. ListsOK'
  BY <1>1, <1>2, <1>7 DEF ListsOK, IO
<1>12. SerialOK'
  BY <1>1, <1>2, <1>4, <1>7, <1>9 DEF SerialOK
<1>13. TypeOK'
  <2>1. workItems' \in Seq(Items) /\ pipe' \in Nat
    BY <1>1, <1>2, <1>5, ItemQueued
  <2>2. QED
    BY <1>1, <1>2, <1>3, <1>6, <2>1 DEF TypeOK
<1>14. LeadersOK'
  BY <1>1, <1>2, <1>4, <1>7 DEF LeadersOK
<1>15. ThreadsOK'
  <2>1. \A u \in Threads : pc'[u] # "ended" => u \in threads'
    BY <1>1, <1>2, <1>6 DEF ThreadsOK
  <2>2. leaders' \subseteq threads'
    BY <1>1, <1>2, <1>8 DEF ThreadsOK
  <2>3. Cardinality(Unjoined') <= MaxUnjoined
    <3>1. Unjoined' \subseteq Unjoined \cup {t}
      BY <1>1, <1>2, <1>5, UnjoinedQueued
    <3>2. IsFiniteSet(Unjoined) /\ Cardinality(Unjoined) \in Nat
      BY <1>1, ThreadsFinite, Counted DEF Unjoined
    <3>3. /\ IsFiniteSet(Unjoined \cup {t})
          /\ Cardinality(Unjoined \cup {t}) \in Nat
          /\ Cardinality(Unjoined \cup {t}) <= Cardinality(Unjoined) + 1
      BY <3>2, FS_AddElement
    <3>4. Cardinality(Unjoined') <= Cardinality(Unjoined \cup {t}) /\ Cardinality(Unjoined') \in Nat
      BY <3>1, <3>3, FS_Subset, FS_CardinalityType
    <3>5. QED
      BY <1>2, <3>2, <3>3, <3>4, NamesAssumption
  <2>4. QED
    BY <1>4, <2>1, <2>2, <2>3 DEF ThreadsOK
<1>16. At(IO)' = At(IO) /\ At({"upcall"})' = At({"upcall"})
  BY <1>7 DEF At
<1>17. CountsOK'
  BY <1>1, <1>2, <1>4, <1>16 DEF CountsOK
<1>18. RoomOK'
  <2>1. PICK u \in Threads : pc[u] \in Selecting \cup IO
    BY <1>1, <1>2, <1>4, ShrinkLeaves
  <2>2. u \in threads' /\ u \notin At({"upcall"})
    BY <1>1, <1>2, <2>1 DEF ThreadsOK, At, Selecting, IO
  <2>3. At({"upcall"}) \in SUBSET (threads' \ {u})
    BY <1>1, <1>2, <2>2 DEF At, ThreadsOK
  <2>4. IsFiniteSet(threads') /\ Cardinality(threads') \in Nat
    BY <1>1, <1>2, ThreadsFinite, Counted DEF TypeOK
  <2>5. /\ IsFiniteSet(threads' \ {u}) /\ Cardinality(threads' \ {u}) = Cardinality(threads') - 1
    BY <2>2, <2>4, FS_RemoveElement
  <2>6. Cardinality(At({"upcall"})) <= Cardinality(threads') - 1
    BY <2>3, <2>5, FS_Subset
  <2>7. inUse' = Cardinality(At({"upcall"})) /\ inUse' \in Nat
    BY <1>1, <1>2, <1>4 DEF CountsOK, TypeOK
  <2>8. QED
    BY <2>4, <2>6, <2>7 DEF RoomOK
<1>19. QED
  BY <1>10, <1>11, <1>12, <1>13, <1>14, <1>15, <1>17, <1>18 DEF IInv, Control

\* Calls of the handlers leave the threads alone.
LEMMA CallKept ==
    ASSUME TypeOK, Control, ListsOK, SerialOK,
           UNCHANGED <<pool, threads, inUse, inUseIO, promote, leaders, current, batch, pc,
                       disabled>>,
           handlers' = handlers \/ handlers' = <<>>,
           destroyed => destroyed', Unjoined' \subseteq Unjoined
    PROVE  Control' /\ ListsOK' /\ SerialOK' /\ \A s : Listed(s)' => Listed(s)
<1>1. Control'
  BY ControlKept
<1>2. \A s : Listed(s)' => Listed(s)
  BY DEF Listed
<1>3. ListsOK'
  BY DEF ListsOK
<1>4. Many' = Many
  BY DEF Many
<1>5. SerialOK'
  BY <1>2, <1>4 DEF SerialOK
<1>6. QED
  BY <1>1, <1>2, <1>3, <1>5

\* A message arrives.
LEMMA ArriveKept ==
    ASSUME IInv, NEW h \in Handlers, Arrive(h)
    PROVE  IInv'
<1>1. TypeOK /\ Control /\ ListsOK /\ QueueOK /\ FinishOK /\ SerialOK
  BY DEF IInv
<1>2. /\ toArrive[h] > 0
      /\ toArrive' = [toArrive EXCEPT ![h] = toArrive[h] - 1]
      /\ pending' = [pending EXCEPT ![h] = pending[h] + 1]
      /\ UNCHANGED <<pool, destroyed, poolVars, item, batch, pc, queueVars, registered, disabled,
                     closed>>
  BY DEF Arrive
<1>3. UNCHANGED <<inUse, inUseIO, handlers, promote, leaders, current, threads, workItems, pipe>>
  BY <1>2 DEF poolVars, queueVars
<1>4. toArrive' \in [Handlers -> Nat] /\ pending' \in [Handlers -> Nat]
  <2>1. toArrive[h] - 1 \in Nat /\ pending[h] + 1 \in Nat
    BY <1>1, <1>2 DEF TypeOK
  <2>2. QED
    BY <1>1, <1>2, <2>1 DEF TypeOK
<1>5. TypeOK'
  BY <1>1, <1>2, <1>3, <1>4 DEF TypeOK
<1>6. Unjoined' \subseteq Unjoined
  BY <1>2, <1>3 DEF Unjoined
<1>7. Control' /\ ListsOK' /\ SerialOK' /\ \A s : Listed(s)' => Listed(s)
  BY <1>1, <1>2, <1>3, <1>6, CallKept
<1>8. QueueOK' /\ FinishOK'
  BY <1>1, <1>2, <1>3, <1>7, QueueKept, FinishKept
<1>9. QED
  BY <1>5, <1>7, <1>8 DEF IInv

\* A handler is activated or held.
LEMMA UpdateKept ==
    ASSUME IInv, NEW h \in Handlers, Update(h)
    PROVE  IInv'
<1>1. TypeOK /\ Control /\ ListsOK /\ QueueOK /\ FinishOK /\ SerialOK
  BY DEF IInv
<1>2. /\ closed[h] = "open"
      /\ registered' = IF h \in registered THEN registered \ {h} ELSE registered \cup {h}
      /\ UNCHANGED <<pool, destroyed, poolVars, item, batch, pc, queueVars, disabled, envVars>>
  BY DEF Update
<1>3. UNCHANGED <<inUse, inUseIO, handlers, promote, leaders, current, threads, workItems, pipe,
                  toArrive, pending, closed>>
  BY <1>2 DEF poolVars, queueVars, envVars
<1>4. registered' \subseteq Sources
  BY <1>1, <1>2 DEF TypeOK, Sources
<1>5. TypeOK'
  BY <1>1, <1>2, <1>3, <1>4 DEF TypeOK
<1>6. Unjoined' \subseteq Unjoined
  BY <1>2, <1>3 DEF Unjoined
<1>7. Control' /\ ListsOK' /\ SerialOK' /\ \A s : Listed(s)' => Listed(s)
  BY <1>1, <1>2, <1>3, <1>6, CallKept
<1>8. QueueOK'
  BY <1>1, <1>2, <1>7, QueueKept
<1>9. FinishOK'
  <2>1. \A g \in Handlers : closed'[g] # "open" => g \notin registered'
    BY <1>1, <1>2, <1>3 DEF FinishOK
  <2>2. QED
    BY <1>1, <1>2, <1>3, <1>7, <2>1 DEF FinishOK
<1>10. QED
  BY <1>5, <1>7, <1>8, <1>9 DEF IInv

\* The lists are cleared, but not the threads that serve the handler already.
LEMMA FinishHandlerKept ==
    ASSUME IInv, NEW h \in Handlers, Finish(h)
    PROVE  IInv'
<1>1. TypeOK /\ Control /\ ListsOK /\ QueueOK /\ FinishOK /\ SerialOK
  BY DEF IInv
<1>2. /\ ~destroyed /\ closed[h] = "open"
      /\ closed' = [closed EXCEPT ![h] = "finishing"]
      /\ registered' = registered \ {h}
      /\ QueueItem(<<"finished", h>>)
      /\ handlers' = <<>>
      /\ UNCHANGED <<pool, destroyed, inUse, inUseIO, promote, leaders, current, threads, item,
                     batch, pc, disabled, toArrive, pending>>
  BY DEF Finish
<1>3. <<"finished", h>> \in Items /\ \A x : <<"finished", h>> # <<"join", x>>
  BY DEF Items
<1>4. workItems' \in Seq(Items) /\ pipe' \in Nat
  BY <1>1, <1>2, <1>3, ItemQueued
<1>5. handlers' \in Seq(Sources)
  BY <1>2
<1>6. /\ closed' \in [Handlers -> {"open", "finishing", "finished"}]
      /\ closed'[h] = "finishing" /\ \A g \in Handlers : g # h => closed'[g] = closed[g]
  BY <1>1, <1>2 DEF TypeOK
<1>7. TypeOK'
  BY <1>1, <1>2, <1>4, <1>5, <1>6 DEF TypeOK
<1>8. Unjoined' \subseteq Unjoined
  BY <1>1, <1>2, <1>3, UnjoinedQueued
<1>9. Control' /\ ListsOK' /\ SerialOK' /\ \A s : Listed(s)' => Listed(s)
  BY <1>1, <1>2, <1>8, CallKept
<1>10. \A g \in Handlers : /\ <<"finished", h>> = <<"finished", g>> => closed'[g] # "open"
                           /\ closed'[g] # "open" => g \notin registered'
                           /\ closed[g] # "open" => closed'[g] # "open"
                           /\ closed'[g] = "finished" => closed[g] = "finished"
  BY <1>1, <1>2, <1>6 DEF FinishOK
<1>11. QueueOK' /\ FinishOK'
  BY <1>1, <1>2, <1>3, <1>9, <1>10, QueuedKept
<1>12. QED
  BY <1>7, <1>9, <1>11 DEF IInv

\* The pool is destroyed.
LEMMA DestroyKept ==
    ASSUME IInv, Destroy
    PROVE  IInv'
<1>1. TypeOK /\ Control /\ ListsOK /\ QueueOK /\ FinishOK /\ SerialOK
  BY DEF IInv
<1>2. /\ destroyed' = TRUE /\ pipe' = pipe + 1
      /\ UNCHANGED <<pool, poolVars, item, batch, pc, workItems, registered, disabled, envVars>>
  BY DEF Destroy
<1>3. UNCHANGED <<inUse, inUseIO, handlers, promote, leaders, current, threads,
                  toArrive, pending, closed>>
  BY <1>2 DEF poolVars, envVars
<1>4. TypeOK'
  BY <1>1, <1>2, <1>3 DEF TypeOK
<1>5. Unjoined' \subseteq Unjoined
  BY <1>2 DEF Unjoined
<1>6. Control' /\ ListsOK' /\ SerialOK' /\ \A s : Listed(s)' => Listed(s)
  BY <1>1, <1>2, <1>3, <1>5, CallKept
<1>7. QueueOK'
  BY <1>2 DEF QueueOK
<1>8. FinishOK'
  BY <1>1, <1>2, <1>3, <1>6, FinishKept
<1>9. QED
  BY <1>4, <1>6, <1>7, <1>8 DEF IInv


-----------------------------------------------------------------------------
(***************************************************************************)
(* The theorems                                                            *)
(***************************************************************************)

\* The threads that the pool starts with are there, and nothing happens yet.
LEMMA InitInv ==
    ASSUME Init
    PROVE  IInv
<1>1. /\ pool \in Pools /\ destroyed = FALSE
      /\ threads = CHOOSE T \in SUBSET Threads : Cardinality(T) = pool.size
      /\ pc = [t \in Threads |-> IF t \in threads THEN "follow" ELSE "ended"]
      /\ inUse = 0 /\ inUseIO = 0 /\ handlers = <<>> /\ promote = TRUE /\ leaders = {}
      /\ current = [t \in Threads |-> None] /\ item = [t \in Threads |-> None]
      /\ batch = [t \in Threads |-> <<>>] /\ workItems = <<>> /\ pipe = 0
      /\ registered = Sources /\ disabled = {}
      /\ toArrive = [h \in Handlers |-> MaxMessages] /\ pending = [h \in Handlers |-> 0]
      /\ closed = [h \in Handlers |-> "open"]
  BY DEF Init
<1>2. /\ pool.size \in Nat \ {0} /\ pool.sizeMax \in Nat /\ pool.sizeMax >= pool.size
      /\ pool.sizeIO \in 1..pool.sizeMax
      /\ IsFiniteSet(Threads) /\ Cardinality(Threads) >= pool.sizeMax + MaxUnjoined
      /\ MaxUnjoined \in Nat /\ MaxMessages \in Nat /\ Cardinality(Threads) \in Nat
  BY <1>1, PoolsAssumption, NamesAssumption, FS_CardinalityType
<1>3. threads \in SUBSET Threads /\ Cardinality(threads) = pool.size
  <2>1. \E T \in SUBSET Threads : Cardinality(T) = pool.size
    BY <1>2, PartOfSize
  <2>2. QED
    BY <1>1, <2>1
<1>4. TypeOK
  <2>1. /\ pool \in Pools /\ destroyed \in BOOLEAN /\ promote \in BOOLEAN
        /\ threads \subseteq Threads /\ leaders \subseteq Threads
        /\ inUse \in Nat /\ inUseIO \in Nat /\ pipe \in Nat
        /\ registered \subseteq Sources /\ disabled \subseteq Sources
    BY <1>1, <1>3
  <2>2. handlers \in Seq(Sources) /\ batch \in [Threads -> Seq(Sources)] /\ workItems \in Seq(Items)
    BY <1>1
  <2>3. /\ current \in [Threads -> Sources \cup {None}]
        /\ item \in [Threads -> Items \cup {None}]
        /\ toArrive \in [Handlers -> Nat] /\ pending \in [Handlers -> Nat]
        /\ closed \in [Handlers -> {"open", "finishing", "finished"}]
    BY <1>1, <1>2
  <2>4. pc \in [Threads -> Places]
    BY <1>1 DEF Places
  <2>5. QED
    BY <2>1, <2>2, <2>3, <2>4 DEF TypeOK
<1>5. \A t \in Threads : /\ pc[t] \in {"follow", "ended"} /\ batch[t] = <<>> /\ item[t] = None
                         /\ pc[t] # "ended" => t \in threads
  BY <1>1
<1>6. At(IO) = {} /\ At({"upcall"}) = {}
  BY <1>5 DEF At, IO
<1>7. ThreadsOK
  <2>1. \A x \in Threads : <<"join", x>> \in Items /\ None # <<"join", x>>
    BY ItemsAssumption DEF Items
  <2>2. Unjoined = {}
    BY <1>1, <1>5, <2>1 DEF Unjoined
  <2>3. Cardinality(Unjoined) <= MaxUnjoined
    BY <1>2, <2>2, FS_EmptySet
  <2>4. ~Many => \E x \in Threads : threads = {x}
    <3>1. IsFiniteSet(threads)
      BY <1>2, <1>3, FS_Subset
    <3>2. ~Many => Cardinality(threads) = 1
      BY <1>2, <1>3 DEF Many
    <3>3. QED
      BY <1>3, <3>1, <3>2, FS_Singleton
  <2>5. QED
    BY <1>1, <1>5, <2>3, <2>4 DEF ThreadsOK
<1>8. LeadersOK
  BY <1>1, <1>5 DEF LeadersOK, Selecting
<1>9. CountsOK /\ RoomOK
  <2>1. Cardinality(At(IO)) = 0 /\ Cardinality(At({"upcall"})) = 0
    BY <1>6, FS_EmptySet
  <2>2. CountsOK
    BY <1>1, <1>2, <2>1 DEF CountsOK
  <2>3. RoomOK
    BY <1>1, <1>2, <1>3 DEF RoomOK
  <2>4. QED
    BY <2>2, <2>3
<1>10. ListsOK
  BY <1>1, <1>5 DEF ListsOK, IO
<1>11. \A s : ~Listed(s)
  BY <1>1, <1>5 DEF Listed
<1>12. QueueOK
  BY <1>1, <1>11 DEF QueueOK
<1>13. FinishOK
  <2>1. \A h \in Handlers : closed[h] = "open" /\ <<"finished", h>> \in Items
    BY <1>1 DEF Items
  <2>2. \A h \in Handlers, t \in Threads : item[t] # <<"finished", h>>
    BY <1>5, <2>1, ItemsAssumption
  <2>3. QED
    BY <1>1, <1>11, <2>1, <2>2 DEF FinishOK
<1>14. SerialOK
  BY <1>1, <1>5 DEF SerialOK
<1>15. QED
  BY <1>4, <1>7, <1>8, <1>9, <1>10, <1>12, <1>13, <1>14 DEF IInv, Control

\* The inductive invariant: the places of threads and handlers, the counters, the work
\* queue and the serialization of upcalls agree after every step of run(), ioCompleted()
\* and the calls of the handlers.
THEOREM Invariance == Spec => []IInv
<1>1. Init => IInv
  BY InitInv
<1>2. IInv /\ [Next]_vars => IInv'
  <2> SUFFICES ASSUME IInv, [Next]_vars
               PROVE  IInv'
    OBVIOUS
  <2>1. CASE UNCHANGED vars
    BY <2>1 DEF vars, poolVars, queueVars, envVars, IInv, TypeOK, Control, ThreadsOK, LeadersOK,
                CountsOK, RoomOK, ListsOK, QueueOK, FinishOK, SerialOK, Many, At, Unjoined, Listed
  <2>2. ASSUME NEW t \in Threads, Run(t)
        PROVE  IInv'
    BY <2>2, FollowKept, SelectKept, SelectTimedOutKept, FinishSelectKept, MessageReturnsKept,
       MessageDispatchesKept, TakeItemKept, ThreadPoolDestroyedKept, ExecuteReturnsKept,
       ExecuteDispatchesKept DEF Run
  <2>3. ASSUME NEW t \in Threads, Shrink(t)
        PROVE  IInv'
    BY <2>3, ShrinkKept
  <2>4. ASSUME NEW t \in Threads, UpcallReturns(t)
        PROVE  IInv'
    BY <2>4, UpcallReturnsKept
  <2>5. ASSUME NEW h \in Handlers, Arrive(h) \/ Update(h) \/ Finish(h)
        PROVE  IInv'
    BY <2>5, ArriveKept, UpdateKept, FinishHandlerKept
  <2>6. CASE Destroy
    BY <2>6, DestroyKept
  <2>7. QED
    BY <2>1, <2>2, <2>3, <2>4, <2>5, <2>6 DEF Next
<1>3. QED
  BY <1>1, <1>2, PTL DEF Spec

\* There is one leader or a follower may become one, the leader selects only when nobody
\* does I/O, and _inUseIO and _inUse are exact, for all sizes of the pool.
THEOREM BookkeepingExact == Spec => []Consistent
<1>1. IInv => Consistent
  <2> SUFFICES ASSUME IInv
               PROVE  Consistent
    OBVIOUS
  <2>1. TypeOK /\ LeadersOK /\ CountsOK
    BY DEF IInv, Control
  <2>2. Cardinality(leaders) = IF promote THEN 0 ELSE 1
    BY <2>1, FS_EmptySet, FS_Singleton DEF LeadersOK
  <2>3. At({"select", "timedout", "selected"}) \subseteq leaders
    BY <2>1 DEF LeadersOK, At, Selecting
  <2>4. At({"select", "timedout", "selected"}) # {} => At(IO) = {} /\ handlers = <<>>
    BY <2>1 DEF LeadersOK, At, Selecting
  <2>5. OneLeader
    BY <2>2, <2>3, <2>4 DEF OneLeader
  <2>6. ThreadsCounted
    BY <2>1 DEF CountsOK, ThreadsCounted
  <2>7. QED
    BY <2>1, <2>5, <2>6 DEF Consistent
<1>2. QED
  BY <1>1, Invariance, PTL

\* A handler that has finished is not in the pool's lists, so that no thread calls its
\* message() through a plain pointer.
THEOREM FinishedForgotten == Spec => []FinishedIsLast
<1>1. IInv => FinishedIsLast
  <2> SUFFICES ASSUME IInv, NEW h \in Handlers, closed[h] = "finished"
               PROVE  /\ \A t \in Threads : pc[t] = "message" => current[t] # h
                      /\ \A i \in DOMAIN handlers : handlers[i] # h
                      /\ \A t \in Threads : \A i \in DOMAIN batch[t] : batch[t][i] # h
    BY DEF FinishedIsLast
  <2>1. ~Listed(h)
    BY DEF IInv, FinishOK
  <2>2. /\ DOMAIN handlers = 1..Len(handlers)
        /\ \A t \in Threads : DOMAIN batch[t] = 1..Len(batch[t])
    BY DEF IInv, TypeOK
  <2>3. QED
    BY <2>1, <2>2 DEF Listed
<1>2. QED
  BY <1>1, Invariance, PTL

\* With Serialize no two threads are in upcalls of one handler, whatever the sizes.
THEOREM UpcallsSerialized == Spec => []Serialized
<1>1. IInv => Serialized
  <2> SUFFICES ASSUME IInv, pool.serialize, ~destroyed,
                      NEW t \in Threads, NEW u \in Threads,
                      pc[t] = "upcall", pc[u] = "upcall", current[t] = current[u]
               PROVE  t = u
    BY DEF Serialized, At
  <2>1. CASE Many
    BY <2>1 DEF IInv, SerialOK
  <2>2. CASE ~Many
    BY <2>2 DEF IInv, Control, ThreadsOK
  <2>3. QED
    BY <2>1, <2>2
<1>2. QED
  BY <1>1, Invariance, PTL

\* The pool grows in time and shrinks only if another thread is left for the I/O.
THEOREM ThreadLeft == Spec => []ThreadAvailable
<1>1. IInv => ThreadAvailable
  <2> SUFFICES ASSUME IInv, ~destroyed, Cardinality(At({"upcall"})) < pool.sizeMax,
                      threads \ At({"upcall"}) = {}
               PROVE  FALSE
    BY DEF ThreadAvailable
  <2>1. TypeOK /\ ThreadsOK /\ CountsOK /\ RoomOK
    BY DEF IInv, Control
  <2>2. threads = At({"upcall"})
    BY <2>1 DEF ThreadsOK, At
  <2>3. Cardinality(threads) \in Nat /\ pool.sizeMax \in Nat
    BY <2>1, PoolValid, ThreadsFinite, Counted DEF TypeOK
  <2>4. CASE Many
    BY <2>1, <2>2, <2>3, <2>4 DEF CountsOK, RoomOK
  <2>5. CASE ~Many
    <3>1. Cardinality(threads) = 1
      BY <2>1, <2>5, FS_Singleton DEF ThreadsOK
    <3>2. pool.sizeMax <= 1
      BY <2>3, <2>5 DEF Many
    <3>3. QED
      BY <2>2, <2>3, <3>1, <3>2
  <2>6. QED
    BY <2>4, <2>5
<1>2. QED
  BY <1>1, Invariance, PTL

=============================================================================
