---------------------- MODULE IceStormSubscriber_proofs ----------------------
(***************************************************************************)
(* Proofs about IceStormSubscriber, for every set of records and every     *)
(* bound: its type invariant and every other invariant that TLC checks on  *)
(* the instances of MCIceStormSubscriber, and the order of delivery.       *)
(* IInv is about the counter and the queue, AssertInv about the assert()s, *)
(* PlacesInv about where the events are and OrderInv about their order;    *)
(* each of the last three is inductive on top of IInv.                     *)
(***************************************************************************)
EXTENDS IceStormSubscriber, FiniteSetTheorems, TLAPS

(***************************************************************************)
(* The inductive invariant.  Two calls are the same element of "calls"     *)
(* when they carry the same events, so _outstanding counts the calls only  *)
(* because the queue is sorted and every call carries older events.        *)
(***************************************************************************)

Sorted(evs, p) ==
    /\ \A i, j \in 1..Len(evs) : i < j => evs[i] < evs[j]
    /\ \A i \in 1..Len(evs) : evs[i] <= p

Older(evs, pending, p) ==
    \A c \in pending : \A i \in 1..Len(c) :
        c[i] <= p /\ \A j \in 1..Len(evs) : c[i] < evs[j]

Consistent(evs, pending, p) ==
    /\ evs \in Seq(Nat)
    /\ pending \in SUBSET Seq(Nat) /\ IsFiniteSet(pending)
    /\ Sorted(evs, p)
    /\ Older(evs, pending, p)

Counted(out, pending, scheduled) ==
    /\ out = IF rec.kind = "batch" THEN IF scheduled THEN 1 ELSE 0
                                   ELSE Cardinality(pending)
    /\ out <= rec.maxOutstanding

OnlyBatchesFlush == rec.kind # "batch" => timer = FALSE /\ flushing = <<>>

IInv ==
    /\ TypeOK
    /\ QueueOnlyOnline
    /\ NoStuckEvents
    /\ OutstandingCounted
    /\ rec.kind # "batch" => Consistent(events, calls, published)
    /\ OnlyBatchesFlush
    /\ ShutdownDrains
    /\ ReapedIsReported

-----------------------------------------------------------------------------
(***************************************************************************)
(* Lemmas about the sequences and sets the queue is made of                *)
(***************************************************************************)

\* What is left of a sequence without its first n elements.
LEMMA SuffixOf ==
    ASSUME NEW s \in Seq(Nat), NEW n \in 0..Len(s)
    PROVE  /\ Suffix(s, n) \in Seq(Nat)
           /\ Len(Suffix(s, n)) = Len(s) - n
           /\ \A i \in 1..(Len(s) - n) : Suffix(s, n)[i] = s[n + i]
BY DEF Suffix

\* A sequence with the n numbers after p behind it.
LEMMA Appended ==
    ASSUME NEW s \in Seq(Nat), NEW p \in Nat, NEW n \in Nat
    PROVE  LET t == s \o [i \in 1..n |-> p + i] IN
           /\ t \in Seq(Nat)
           /\ Len(t) = Len(s) + n
           /\ \A i \in 1..Len(s) : t[i] = s[i]
           /\ \A i \in (Len(s) + 1)..(Len(s) + n) : t[i] = p + (i - Len(s))
<1> DEFINE b == [i \in 1..n |-> p + i]
<1>1. b \in Seq(Nat) /\ Len(b) = n
  OBVIOUS
<1>2. \A i \in 1..n : b[i] = p + i
  OBVIOUS
<1> HIDE DEF b
<1>3. s \o b \in Seq(Nat) /\ Len(s \o b) = Len(s) + n
  BY <1>1
<1>4. \A i \in 1..Len(s) : (s \o b)[i] = s[i]
  BY <1>1
<1>5. \A i \in (Len(s) + 1)..(Len(s) + n) : (s \o b)[i] = b[i - Len(s)]
  BY <1>1
<1>6. \A i \in (Len(s) + 1)..(Len(s) + n) : (s \o b)[i] = p + (i - Len(s))
  <2> TAKE i \in (Len(s) + 1)..(Len(s) + n)
  <2>1. i - Len(s) \in 1..n
    OBVIOUS
  <2>2. QED
    BY <2>1, <1>2, <1>5
<1>7. QED
  BY <1>3, <1>4, <1>6 DEF b

\* "sent" are the calls of "pending" and one call for each of the positions S.
AddsCalls(sent, pending, f, S) ==
    \A c : c \in sent <=> c \in pending \/ \E i \in S : c = <<f[i]>>

\* One call for each of the positions S adds |S| calls, if no two of the
\* positions hold the same event and none of the events is in a call already.
LEMMA CallsAdded ==
    ASSUME NEW pending, IsFiniteSet(pending), NEW S, IsFiniteSet(S), NEW f, NEW sent,
           \A i, j \in S : f[i] = f[j] => i = j,
           \A i \in S : <<f[i]>> \notin pending,
           AddsCalls(sent, pending, f, S)
    PROVE  IsFiniteSet(sent) /\ Cardinality(sent) = Cardinality(pending) + Cardinality(S)
<1> DEFINE T == {<<f[i]>> : i \in S}
           g == [i \in S |-> <<f[i]>>]
<1>1. g \in Bijection(S, T)
  <2>1. g \in [S -> T]
    OBVIOUS
  <2>2. \A i, j \in S : g[i] = g[j] => i = j
    OBVIOUS
  <2>3. \A t \in T : \E i \in S : g[i] = t
    OBVIOUS
  <2> HIDE DEF g, T
  <2>4. QED
    BY <2>1, <2>2, <2>3 DEF Bijection, Injection, IsInjective, Surjection
<1>2. sent = pending \cup T /\ pending \cap T = {}
  BY DEF AddsCalls
<1> HIDE DEF g, T
<1>3. IsFiniteSet(T) /\ Cardinality(T) = Cardinality(S)
  BY <1>1, FS_Bijection DEF ExistsBijection
<1>4. IsFiniteSet(pending \cup T)
      /\ Cardinality(pending \cup T) =
           Cardinality(pending) + Cardinality(T) - Cardinality(pending \cap T)
  BY <1>3, FS_Union
<1>5. Cardinality(pending) \in Nat /\ Cardinality(T) \in Nat
  BY <1>3, FS_CardinalityType
<1>6. Cardinality(pending \cap T) = 0
  BY <1>2, FS_EmptySet
<1>7. QED
  BY <1>2, <1>3, <1>4, <1>5, <1>6

\* What flush() does to the queue: its first n events leave it, and each of
\* those at the positions "queued" goes into a call of its own.
LEMMA PrefixSent ==
    ASSUME NEW evs, NEW p \in Nat, NEW pending, Consistent(evs, pending, p),
           NEW n \in 0..Len(evs), NEW queued \in SUBSET (1..n),
           NEW sent, AddsCalls(sent, pending, evs, queued)
    PROVE  /\ Consistent(Suffix(evs, n), sent, p)
           /\ Cardinality(sent) = Cardinality(pending) + Cardinality(queued)
<1> DEFINE rest == Suffix(evs, n)
<1> USE DEF Consistent
<1>0. /\ Len(evs) \in Nat /\ n \in Nat /\ n <= Len(evs)
      /\ \A i \in 1..Len(evs) : evs[i] \in Nat
      /\ \A i \in queued : i \in 1..n /\ i \in 1..Len(evs)
  OBVIOUS
<1>1. /\ rest \in Seq(Nat) /\ Len(rest) = Len(evs) - n
      /\ \A i \in 1..(Len(evs) - n) : rest[i] = evs[n + i]
  BY SuffixOf
<1>2. /\ \A i, j \in 1..Len(evs) : i < j => evs[i] < evs[j]
      /\ \A i \in 1..Len(evs) : evs[i] <= p
  BY DEF Sorted
<1>3. \A c \in pending : \A i \in 1..Len(c) :
         c[i] <= p /\ \A j \in 1..Len(evs) : c[i] < evs[j]
  BY DEF Older
<1> HIDE DEF rest
<1>4. Sorted(rest, p)
  <2>1. ASSUME NEW i \in 1..Len(rest)
        PROVE  n + i \in 1..Len(evs) /\ rest[i] = evs[n + i]
    BY <1>0, <1>1
  <2>2. ASSUME NEW i \in 1..Len(rest), NEW j \in 1..Len(rest), i < j
        PROVE  rest[i] < rest[j]
    <3>1. n + i < n + j
      BY <1>0, <1>1, <2>2
    <3>2. QED
      BY <1>2, <2>1, <3>1
  <2>3. ASSUME NEW i \in 1..Len(rest)
        PROVE  rest[i] <= p
    BY <1>2, <2>1
  <2>4. QED
    BY <2>2, <2>3 DEF Sorted
<1>5. ASSUME NEW i \in queued
      PROVE  <<evs[i]>> \in Seq(Nat) /\ <<evs[i]>> \notin pending
  <2>1. i \in 1..Len(evs) /\ evs[i] \in Nat
    BY <1>0
  <2>2. <<evs[i]>> \in Seq(Nat) /\ Len(<<evs[i]>>) = 1 /\ <<evs[i]>>[1] = evs[i]
    BY <2>1
  <2>3. ASSUME <<evs[i]>> \in pending
        PROVE  FALSE
    <3>1. \A j \in 1..Len(evs) : <<evs[i]>>[1] < evs[j]
      BY <1>3, <2>2, <2>3, 1 \in 1..1
    <3>2. evs[i] < evs[i]
      BY <2>1, <2>2, <3>1
    <3>3. QED
      BY <2>1, <3>2
  <2>4. QED
    BY <2>2, <2>3
<1>6. sent \in SUBSET Seq(Nat)
  BY <1>5 DEF AddsCalls
<1>7. IsFiniteSet(sent) /\ Cardinality(sent) = Cardinality(pending) + Cardinality(queued)
  <2>1. \A i, j \in queued : evs[i] = evs[j] => i = j
    <3>1. ASSUME NEW i \in queued, NEW j \in queued, i < j
          PROVE  evs[i] # evs[j]
      <4>1. i \in 1..Len(evs) /\ j \in 1..Len(evs)
        BY <1>0
      <4>2. evs[i] < evs[j] /\ evs[i] \in Nat /\ evs[j] \in Nat
        BY <1>0, <1>2, <3>1, <4>1
      <4>3. QED
        BY <4>2
    <3>2. ASSUME NEW i \in queued, NEW j \in queued
          PROVE  i < j \/ j < i \/ i = j
      <4>1. i \in 1..n /\ j \in 1..n
        BY <1>0
      <4>2. QED
        BY <4>1
    <3>3. QED
      BY <3>1, <3>2
  <2>2. IsFiniteSet(queued)
    <3>1. IsFiniteSet(1..n)
      BY <1>0, FS_Interval
    <3>2. QED
      BY <3>1, FS_Subset
  <2>3. QED
    BY <1>5, <2>1, <2>2, CallsAdded
<1>8. Older(rest, sent, p)
  <2>1. ASSUME NEW c \in pending, NEW i \in 1..Len(c)
        PROVE  c[i] <= p /\ \A j \in 1..Len(rest) : c[i] < rest[j]
    <3>1. ASSUME NEW j \in 1..Len(rest)
          PROVE  n + j \in 1..Len(evs) /\ rest[j] = evs[n + j]
      BY <1>0, <1>1
    <3>2. QED
      BY <1>3, <3>1
  <2>2. ASSUME NEW k \in queued
        PROVE  /\ Len(<<evs[k]>>) = 1 /\ <<evs[k]>>[1] = evs[k]
               /\ evs[k] <= p /\ \A j \in 1..Len(rest) : evs[k] < rest[j]
    <3>1. ASSUME NEW j \in 1..Len(rest)
          PROVE  n + j \in 1..Len(evs) /\ rest[j] = evs[n + j] /\ k < n + j
      BY <1>0, <1>1
    <3>2. k \in 1..Len(evs)
      BY <1>0
    <3>3. QED
      BY <1>2, <3>1, <3>2
  <2>3. ASSUME NEW c \in sent, NEW i \in 1..Len(c)
        PROVE  c[i] <= p /\ \A j \in 1..Len(rest) : c[i] < rest[j]
    <3>1. CASE c \in pending
      BY <2>1, <3>1
    <3>2. CASE \E k \in queued : c = <<evs[k]>>
      <4>1. PICK k \in queued : c = <<evs[k]>>
        BY <3>2
      <4>2. Len(c) = 1 /\ c[1] = evs[k]
        BY <2>2, <4>1
      <4>3. i = 1
        BY <4>2
      <4>4. QED
        BY <2>2, <4>2, <4>3
    <3>3. QED
      BY <2>3, <3>1, <3>2 DEF AddsCalls
  <2>4. QED
    BY <2>3 DEF Older
<1>9. QED
  BY <1>1, <1>4, <1>6, <1>7, <1>8 DEF rest

-----------------------------------------------------------------------------
(***************************************************************************)
(* flush() keeps the invariant, whatever the subscriber's kind             *)
(***************************************************************************)

\* What a flush starts from: the typed counter, queue and calls it is given,
\* consistent with each other and with what it does not change.
FlushPre(out, evs, pending, taken, p) ==
    /\ rec \in Records
    /\ out \in Nat /\ evs \in Seq(Nat) /\ pending \in SUBSET Seq(Nat) /\ taken \in SUBSET Nat
    /\ lost \in SUBSET Nat /\ timer \in BOOLEAN
    /\ waiter \in {"none", "waiting", "notified", "done"}
    /\ p \in Nat
    /\ Counted(out, pending, timer)
    /\ rec.kind # "batch" => Consistent(evs, pending, p)

\* What it establishes.  A shutdown() that has returned stays returned.
FlushPost(evs, p) ==
    /\ outstanding' \in Nat /\ events' \in Seq(Nat) /\ calls' \in SUBSET Seq(Nat)
    /\ delivered' \in SUBSET Nat /\ lost' \in SUBSET Nat /\ timer' \in BOOLEAN
    /\ waiter' \in {"none", "waiting", "notified", "done"}
    /\ waiter' = "done" => waiter = "done"
    /\ Counted(outstanding', calls', timer')
    /\ rec.kind # "batch" => Consistent(events', calls', p)
    /\ state' = "Online" /\ events' # <<>> => outstanding' > 0
    /\ evs = <<>> => events' = <<>>
    /\ rec.kind # "batch" => timer' = timer

\* flush() of a subscriber that is not on line.
LEMMA FlushNothingKept ==
    ASSUME NEW out, NEW evs, NEW pending, NEW taken, NEW p,
           FlushPre(out, evs, pending, taken, p), FlushNothing(out, evs, pending, taken)
    PROVE  FlushPost(evs, p)
BY DEF FlushPre, FlushPost, FlushNothing

\* SubscriberTwoway::flush().
LEMMA FlushTwowayKept ==
    ASSUME NEW out, NEW evs, NEW pending, NEW taken, NEW p, evs # <<>>,
           FlushPre(out, evs, pending, taken, p), rec.kind # "batch",
           FlushTwoway(out, evs, pending, taken)
    PROVE  FlushPost(evs, p)
<1> DEFINE n == Smaller(rec.maxOutstanding - out, Len(evs))
<1>1. /\ rec.maxOutstanding \in Nat \ {0} /\ out <= rec.maxOutstanding
      /\ out = Cardinality(pending)
  BY RecordsAssumption DEF FlushPre, Counted
<1>2. /\ out \in Nat /\ evs \in Seq(Nat) /\ p \in Nat
      /\ Len(evs) \in Nat /\ Len(evs) > 0
      /\ Consistent(evs, pending, p)
  BY DEF FlushPre
<1>3. n \in 0..Len(evs) /\ out + n <= rec.maxOutstanding
      /\ (n < Len(evs) => out + n = rec.maxOutstanding)
  BY <1>1, <1>2 DEF Smaller
<1> HIDE DEF n
<1>4. /\ outstanding' = out + n /\ events' = Suffix(evs, n)
      /\ AddsCalls(calls', pending, evs, 1..n)
      /\ delivered' = taken /\ UNCHANGED <<waiter, timer, lost>>
  BY DEF FlushTwoway, n, AddsCalls
<1>5. 1..n \in SUBSET (1..n) /\ Cardinality(1..n) = n /\ n \in 0..Len(evs)
  BY <1>3, FS_Interval
<1>6. Consistent(events', calls', p) /\ Cardinality(calls') = out + n
  <2>1. /\ Consistent(Suffix(evs, n), calls', p)
        /\ Cardinality(calls') = Cardinality(pending) + Cardinality(1..n)
    BY <1>2, <1>4, <1>5, PrefixSent
  <2>2. QED
    BY <1>1, <1>4, <1>5, <2>1
<1>7. Counted(outstanding', calls', timer')
  BY <1>3, <1>4, <1>6 DEF Counted
<1>8. events' # <<>> => outstanding' > 0
  <2>1. CASE n < Len(evs)
    BY <1>1, <1>3, <1>4, <2>1
  <2>2. CASE n = Len(evs)
    BY <1>2, <1>3, <1>4, <2>2
  <2>3. QED
    BY <1>2, <1>3, <2>1, <2>2
<1>9. QED
  BY <1>2, <1>3, <1>4, <1>6, <1>7, <1>8 DEF FlushPost, FlushPre, Consistent

\* SubscriberOneway::flush().
LEMMA FlushOnewayKept ==
    ASSUME NEW out, NEW evs, NEW pending, NEW taken, NEW p, evs # <<>>,
           FlushPre(out, evs, pending, taken, p), rec.kind # "batch",
           FlushOneway(out, evs, pending, taken)
    PROVE  FlushPost(evs, p)
<1>1. /\ rec.maxOutstanding \in Nat \ {0} /\ out <= rec.maxOutstanding
      /\ out = Cardinality(pending)
  BY RecordsAssumption DEF FlushPre, Counted
<1>2. /\ out \in Nat /\ evs \in Seq(Nat) /\ p \in Nat /\ taken \in SUBSET Nat
      /\ Len(evs) \in Nat /\ Len(evs) > 0
      /\ Consistent(evs, pending, p)
  BY DEF FlushPre
<1> PICK n \in 0..Len(evs) : \E queued \in SUBSET (1..n) :
        LET q == out + Cardinality(queued) IN
        /\ q <= rec.maxOutstanding
        /\ n = Len(evs) \/ q = rec.maxOutstanding
        /\ outstanding' = q
        /\ events' = Suffix(evs, n)
        /\ AddsCalls(calls', pending, evs, queued)
        /\ delivered' = taken \cup {evs[i] : i \in (1..n) \ queued}
        /\ Notify(n = Len(evs) /\ q = 0)
        /\ UNCHANGED <<timer, lost>>
  BY DEF FlushOneway, AddsCalls
<1>3. PICK queued \in SUBSET (1..n) :
        LET q == out + Cardinality(queued) IN
        /\ q <= rec.maxOutstanding
        /\ n = Len(evs) \/ q = rec.maxOutstanding
        /\ outstanding' = q
        /\ events' = Suffix(evs, n)
        /\ AddsCalls(calls', pending, evs, queued)
        /\ delivered' = taken \cup {evs[i] : i \in (1..n) \ queued}
        /\ Notify(n = Len(evs) /\ q = 0)
        /\ UNCHANGED <<timer, lost>>
  OBVIOUS
<1>4. Cardinality(queued) \in Nat
  <2>1. IsFiniteSet(1..n)
    BY FS_Interval
  <2>2. IsFiniteSet(queued)
    BY <2>1, FS_Subset
  <2>3. QED
    BY <2>2, FS_CardinalityType
<1>5. Consistent(events', calls', p) /\ Cardinality(calls') = outstanding'
  BY <1>1, <1>2, <1>3, PrefixSent
<1>6. Counted(outstanding', calls', timer')
  BY <1>3, <1>5 DEF Counted
<1>7. events' # <<>> => outstanding' > 0
  <2>1. CASE n = Len(evs)
    <3>1. Suffix(evs, n) \in Seq(Nat) /\ Len(Suffix(evs, n)) = Len(evs) - n
      BY <1>2, SuffixOf
    <3>2. QED
      BY <1>2, <1>3, <2>1, <3>1
  <2>2. CASE n # Len(evs)
    BY <1>1, <1>3, <2>2
  <2>3. QED
    BY <2>1, <2>2
<1>8. delivered' \in SUBSET Nat
  <2>1. \A i \in (1..n) \ queued : evs[i] \in Nat
    BY <1>2
  <2>2. QED
    BY <1>2, <1>3, <2>1
<1>9. outstanding' \in Nat
  BY <1>2, <1>3, <1>4
<1>10. /\ waiter' \in {"none", "waiting", "notified", "done"}
       /\ waiter' = "done" => waiter = "done"
  BY <1>3 DEF Notify, FlushPre
<1>11. QED
  BY <1>2, <1>3, <1>5, <1>6, <1>7, <1>8, <1>9, <1>10 DEF FlushPost, FlushPre, Consistent

\* SubscriberBatch::flush().
LEMMA FlushBatchKept ==
    ASSUME NEW out, NEW evs, NEW pending, NEW taken, NEW p, evs # <<>>,
           FlushPre(out, evs, pending, taken, p), rec.kind = "batch",
           FlushBatch(out, evs, pending, taken)
    PROVE  FlushPost(evs, p)
<1>1. rec.maxOutstanding = 1
  BY RecordsAssumption DEF FlushPre
<1>2. CASE out = 0
  <2>1. outstanding' = 1 /\ timer' = TRUE
    BY <1>2 DEF FlushBatch
  <2>2. Counted(outstanding', calls', timer')
    BY <1>1, <2>1 DEF Counted
  <2>3. QED
    BY <2>1, <2>2 DEF FlushBatch, FlushPre, FlushPost
<1>3. CASE out # 0
  BY <1>1, <1>3 DEF FlushBatch, FlushPre, FlushPost, Counted
<1>4. QED
  BY <1>2, <1>3

\* SubscriberLink::flush().
LEMMA FlushLinkKept ==
    ASSUME NEW out, NEW evs, NEW pending, NEW taken, NEW p, evs # <<>>,
           FlushPre(out, evs, pending, taken, p), rec.kind = "link",
           FlushLink(out, evs, pending, taken)
    PROVE  FlushPost(evs, p)
<1>1. out = Cardinality(pending) /\ out <= rec.maxOutstanding /\ rec.maxOutstanding = 1
  BY RecordsAssumption DEF FlushPre, Counted
<1>2. /\ out \in Nat /\ evs \in Seq(Nat) /\ p \in Nat /\ Len(evs) \in Nat
      /\ Consistent(evs, pending, p) /\ lost \in SUBSET Nat
  BY DEF FlushPre
<1>3. CASE out > 0
  BY <1>1, <1>2, <1>3 DEF FlushLink, FlushPre, FlushPost, Counted
<1>4. CASE out = 0
  <2>1. pending = {}
    BY <1>1, <1>2, <1>4, FS_EmptySet DEF Consistent
  <2> PICK k \in 0..Len(evs) : \E at \in [1..k -> 1..Len(evs)] :
          LET kept == [i \in 1..k |-> evs[at[i]]] IN
          /\ events' = <<>>
          /\ outstanding' = IF k = 0 THEN 0 ELSE 1
          /\ calls' = IF k = 0 THEN pending ELSE pending \cup {kept}
          /\ lost' = lost \cup (ToSet(evs) \ ToSet(kept))
    <3>1. ~(out > 0)
      BY <1>4
    <3>2. QED
      BY <3>1 DEF FlushLink
  <2>2. PICK at \in [1..k -> 1..Len(evs)] :
          LET kept == [i \in 1..k |-> evs[at[i]]] IN
          /\ events' = <<>>
          /\ outstanding' = IF k = 0 THEN 0 ELSE 1
          /\ calls' = IF k = 0 THEN pending ELSE pending \cup {kept}
          /\ lost' = lost \cup (ToSet(evs) \ ToSet(kept))
    OBVIOUS
  <2> DEFINE kept == [i \in 1..k |-> evs[at[i]]]
  <2>3. /\ kept \in Seq(Nat) /\ Len(kept) = k
        /\ \A i \in 1..k : kept[i] <= p
    <3>1. \A i \in 1..Len(evs) : evs[i] \in Nat /\ evs[i] <= p
      BY <1>2 DEF Consistent, Sorted
    <3>2. \A i \in 1..k : at[i] \in 1..Len(evs)
      OBVIOUS
    <3>3. \A i \in 1..k : evs[at[i]] \in Nat /\ evs[at[i]] <= p
      BY <3>1, <3>2
    <3>4. k \in Nat
      BY <1>2
    <3>5. QED
      BY <3>3, <3>4
  <2>4. lost' \in SUBSET Nat
    <3>1. ToSet(evs) \in SUBSET Nat
      BY <1>2 DEF ToSet
    <3>2. QED
      BY <1>2, <2>2, <3>1
  <2> HIDE DEF kept
  <2>5. /\ Consistent(events', calls', p) /\ Cardinality(calls') = outstanding'
    <3>1. CASE k = 0
      BY <1>2, <2>1, <2>2, <3>1, FS_EmptySet DEF Consistent, Sorted, Older
    <3>2. CASE k # 0
      <4>1. calls' = {kept} /\ outstanding' = 1 /\ events' = <<>>
        BY <2>1, <2>2, <3>2 DEF kept
      <4>2. IsFiniteSet(calls') /\ Cardinality(calls') = 1
        BY <4>1, FS_Singleton
      <4>3. Sorted(events', p) /\ Older(events', calls', p)
        BY <2>3, <4>1 DEF Sorted, Older
      <4>4. QED
        BY <2>3, <4>1, <4>2, <4>3 DEF Consistent
    <3>3. QED
      BY <3>1, <3>2
  <2>6. /\ events' = <<>> /\ outstanding' \in {0, 1}
        /\ delivered' = taken /\ UNCHANGED <<waiter, timer>>
    BY <2>2 DEF FlushLink
  <2>7. Counted(outstanding', calls', timer')
    BY <1>1, <2>5, <2>6 DEF Counted
  <2>8. /\ outstanding' \in Nat /\ delivered' \in SUBSET Nat /\ timer' \in BOOLEAN
        /\ waiter' \in {"none", "waiting", "notified", "done"} /\ waiter' = waiter
    BY <2>6 DEF FlushPre
  <2>9. events' \in Seq(Nat) /\ calls' \in SUBSET Seq(Nat)
    BY <2>5 DEF Consistent
  <2>10. QED
    BY <2>4, <2>5, <2>6, <2>7, <2>8, <2>9 DEF FlushPost
<1>5. QED
  BY <1>2, <1>3, <1>4

\* flush() of every class.
LEMMA FlushKept ==
    ASSUME NEW out, NEW evs, NEW pending, NEW taken, NEW p,
           FlushPre(out, evs, pending, taken, p), Flush(out, evs, pending, taken)
    PROVE  FlushPost(evs, p)
BY FlushNothingKept, FlushTwowayKept, FlushOnewayKept, FlushBatchKept, FlushLinkKept DEF Flush

-----------------------------------------------------------------------------
(***************************************************************************)
(* The steps                                                               *)
(***************************************************************************)

\* A callback takes its call out and counts one down.
LEMMA CallRemoved ==
    ASSUME IInv, NEW c \in calls, rec.kind # "batch"
    PROVE  /\ c \in Seq(Nat) /\ ToSet(c) \in SUBSET Nat
           /\ outstanding - 1 \in Nat
           /\ Counted(outstanding - 1, calls \ {c}, timer)
           /\ Consistent(events, calls \ {c}, published)
<1>1. /\ calls \in SUBSET Seq(Nat) /\ IsFiniteSet(calls)
      /\ Older(events, calls, published)
      /\ outstanding = Cardinality(calls) /\ outstanding \in Nat
      /\ outstanding <= rec.maxOutstanding /\ rec.maxOutstanding \in Nat
      /\ Consistent(events, calls, published)
  BY RecordsAssumption DEF IInv, TypeOK, OutstandingCounted, Consistent
<1>2. c \in Seq(Nat) /\ ToSet(c) \in SUBSET Nat
  BY <1>1 DEF ToSet
<1>3. IsFiniteSet(calls \ {c}) /\ Cardinality(calls \ {c}) = outstanding - 1
  BY <1>1, FS_RemoveElement
<1>4. outstanding - 1 \in Nat
  BY <1>3, FS_CardinalityType
<1>5. Counted(outstanding - 1, calls \ {c}, timer)
  BY <1>1, <1>3 DEF Counted
<1>6. Consistent(events, calls \ {c}, published)
  BY <1>1, <1>3 DEF Consistent, Older
<1>7. QED
  BY <1>2, <1>4, <1>5, <1>6

\* error() leaves the subscriber off line and its queue empty, whichever of
\* its branches runs.
LEMMA ErrorEmpties ==
    ASSUME IInv, NEW hard, NEW gone, gone \in Seq(Nat), Error(hard, gone)
    PROVE  /\ state' \in States /\ state' # "Online"
           /\ events' = <<>>
           /\ currentRetry' \in Nat /\ discarding' \in BOOLEAN /\ assertFailed' \in BOOLEAN
           /\ lost' \in SUBSET Nat
           /\ waiter' \in {"none", "waiting", "notified", "done"}
           /\ state' = "Reaped" => state = "Reaped"
           /\ UNCHANGED <<rec, timer, reapVars, published, delivered>>
<1>1. /\ state \in States /\ currentRetry \in Nat
      /\ discarding \in BOOLEAN /\ assertFailed \in BOOLEAN
      /\ events \in Seq(Nat) /\ lost \in SUBSET Nat
      /\ waiter \in {"none", "waiting", "notified", "done"}
      /\ state # "Online" => events = <<>>
  BY DEF IInv, TypeOK, QueueOnlyOnline
<1>2. ToSet(gone) \in SUBSET Nat /\ ToSet(events) \in SUBSET Nat
  BY <1>1 DEF ToSet
<1>3. /\ state' \in States /\ state' # "Online"
      /\ events' = <<>>
      /\ currentRetry' \in Nat /\ discarding' \in BOOLEAN /\ assertFailed' \in BOOLEAN
      /\ state' = "Reaped" => state = "Reaped"
  <2>1. CASE ErrorIgnored(hard)
    BY <1>1, <2>1 DEF ErrorIgnored, AwaitsRetry
  <2>2. CASE ErrorRetry(hard)
    <3>1. CASE state \in Dead
      BY <1>1, <2>2, <3>1 DEF ErrorRetry, Dead
    <3>2. CASE state \notin Dead
      <4>1. /\ state' = "Offline" /\ events' = <<>> /\ discarding' = TRUE
            /\ currentRetry' = currentRetry + 1 /\ assertFailed' = assertFailed
        BY <2>2, <3>2 DEF ErrorRetry
      <4>2. QED
        BY <1>1, <4>1 DEF States
    <3>3. QED
      BY <3>1, <3>2
  <2>3. CASE ErrorOut(hard)
    BY <1>1, <2>3 DEF ErrorOut, States, Dead
  <2>4. QED
    BY <2>1, <2>2, <2>3 DEF Error
<1>4. lost' \in SUBSET Nat
  BY <1>1, <1>2 DEF Error
<1>5. waiter' \in {"none", "waiting", "notified", "done"}
  BY <1>1 DEF Error, Notify
<1>6. UNCHANGED <<rec, timer, reapVars, published, delivered>>
  BY DEF Error
<1>7. QED
  BY <1>3, <1>4, <1>5, <1>6

\* A step that flushes keeps the invariant if the rest of it is harmless.
LEMMA FlushStep ==
    ASSUME IInv, NEW evs, FlushPost(evs, published'),
           state' \in States, state' # "Online" => evs = <<>>,
           waiter = "done" => evs = <<>>,
           state' = "Reaped" => state = "Reaped",
           currentRetry' \in Nat, discarding' \in BOOLEAN,
           published' \in 0..MaxEvents,
           UNCHANGED <<rec, flushing, reapVars, assertFailed>>
    PROVE  IInv'
<1> USE DEF IInv, FlushPost
<1>1. TypeOK'
  BY DEF TypeOK, reapVars
<1>2. QueueOnlyOnline' /\ NoStuckEvents' /\ ShutdownDrains'
  BY DEF QueueOnlyOnline, NoStuckEvents, ShutdownDrains
<1>3. OutstandingCounted'
  BY DEF OutstandingCounted, Counted
<1>4. (rec.kind # "batch" => Consistent(events, calls, published))'
  OBVIOUS
<1>5. OnlyBatchesFlush' /\ ReapedIsReported'
  BY DEF OnlyBatchesFlush, ReapedIsReported, reapVars
<1>6. QED
  BY <1>1, <1>2, <1>3, <1>4, <1>5

\* queue(): the new events are younger than all that went before.
LEMMA QueueAppends ==
    ASSUME IInv, NEW k \in 1..MaxBurst
    PROVE  LET evs == events \o [i \in 1..k |-> published + i] IN
           /\ evs \in Seq(Nat) /\ evs # <<>>
           /\ ToSet(evs) = ToSet(events) \cup (published + 1)..(published + k)
           /\ rec.kind # "batch" => Consistent(evs, calls, published + k)
<1> DEFINE evs == events \o [i \in 1..k |-> published + i]
           m == Len(events)
<1>1. k \in Nat /\ k > 0 /\ published \in Nat
  BY BoundsAssumption DEF IInv, TypeOK
<1>2. events \in Seq(Nat) /\ m \in Nat /\ DOMAIN events = 1..m
      /\ \A i \in 1..m : events[i] \in Nat
  BY DEF IInv, TypeOK
<1>3. /\ evs \in Seq(Nat)
      /\ Len(evs) = m + k
      /\ \A i \in 1..m : evs[i] = events[i]
      /\ \A i \in (m + 1)..(m + k) : evs[i] = published + (i - m)
  BY <1>1, <1>2, Appended
<1> HIDE DEF evs
<1>4. DOMAIN evs = 1..(m + k)
  BY <1>3
<1>5. Len(events) = m
  OBVIOUS
<1> HIDE DEF m
<1>6. \A i \in 1..(m + k) : i \in 1..m \/ i \in (m + 1)..(m + k)
  BY <1>1, <1>2
<1>7. \A i \in (m + 1)..(m + k) :
        evs[i] \in Nat /\ evs[i] > published /\ evs[i] <= published + k
  <2>1. \A i \in (m + 1)..(m + k) :
          LET e == published + (i - m) IN e \in Nat /\ e > published /\ e <= published + k
    BY <1>1, <1>2
  <2>2. QED
    BY <1>3, <2>1
<1>8. evs # <<>>
  BY <1>1, <1>2, <1>3
<1>9. ASSUME rec.kind # "batch"
      PROVE  Consistent(evs, calls, published + k)
  <2>1. /\ Sorted(events, published) /\ Older(events, calls, published)
        /\ calls \in SUBSET Seq(Nat) /\ IsFiniteSet(calls)
    BY <1>9 DEF IInv, Consistent
  <2>2. /\ \A i, j \in 1..m : i < j => events[i] < events[j]
        /\ \A i \in 1..m : events[i] <= published
    BY <1>5, <2>1 DEF Sorted
  <2>3. \A i \in 1..m : evs[i] \in Nat /\ evs[i] <= published
    BY <1>2, <1>3, <2>2
  <2>4. ASSUME NEW i \in 1..(m + k), NEW j \in 1..(m + k), i < j
        PROVE  evs[i] < evs[j]
    <3>1. CASE i \in 1..m /\ j \in 1..m
      BY <1>3, <2>2, <2>4, <3>1
    <3>2. CASE i \in 1..m /\ j \in (m + 1)..(m + k)
      <4>1. evs[i] \in Nat /\ evs[i] <= published /\ evs[j] \in Nat /\ evs[j] > published
        BY <1>7, <2>3, <3>2
      <4>2. QED
        BY <1>1, <4>1
    <3>3. CASE i \in (m + 1)..(m + k) /\ j \in (m + 1)..(m + k)
      <4>1. evs[i] = published + (i - m) /\ evs[j] = published + (j - m)
        BY <1>3, <3>3
      <4>2. published + (i - m) < published + (j - m)
        BY <1>1, <1>2, <2>4, <3>3
      <4>3. QED
        BY <4>1, <4>2
    <3>4. ~(i \in (m + 1)..(m + k) /\ j \in 1..m)
      BY <1>1, <1>2, <2>4
    <3>5. QED
      BY <1>6, <3>1, <3>2, <3>3, <3>4
  <2>5. ASSUME NEW i \in 1..(m + k)
        PROVE  evs[i] <= published + k
    <3>1. CASE i \in 1..m
      <4>1. evs[i] \in Nat /\ evs[i] <= published
        BY <2>3, <3>1
      <4>2. QED
        BY <1>1, <4>1
    <3>2. CASE i \in (m + 1)..(m + k)
      BY <1>7, <3>2
    <3>3. QED
      BY <1>6, <3>1, <3>2
  <2>6. Sorted(evs, published + k)
    BY <1>3, <2>4, <2>5 DEF Sorted
  <2>7. ASSUME NEW c \in calls, NEW i \in 1..Len(c)
        PROVE  c[i] <= published + k /\ \A j \in 1..(m + k) : c[i] < evs[j]
    <3>1. c[i] \in Nat /\ c[i] <= published /\ \A j \in 1..m : c[i] < events[j]
      BY <1>5, <2>1 DEF Older
    <3>2. c[i] <= published + k
      BY <1>1, <3>1
    <3>3. \A j \in 1..m : c[i] < evs[j]
      BY <1>3, <3>1
    <3>4. ASSUME NEW j \in (m + 1)..(m + k)
          PROVE  c[i] < evs[j]
      <4>1. evs[j] \in Nat /\ evs[j] > published
        BY <1>7
      <4>2. QED
        BY <1>1, <3>1, <4>1
    <3>5. QED
      BY <1>6, <3>2, <3>3, <3>4
  <2>8. Older(evs, calls, published + k)
    BY <1>3, <2>7 DEF Older
  <2>9. QED
    BY <1>3, <2>1, <2>6, <2>8 DEF Consistent
<1>10. ToSet(evs) = ToSet(events) \cup (published + 1)..(published + k)
  <2>1. ToSet(events) = {evs[i] : i \in 1..m}
    BY <1>2, <1>3 DEF ToSet
  <2>2. ToSet(evs) = {evs[i] : i \in 1..(m + k)}
    BY <1>4 DEF ToSet
  <2>3. ASSUME NEW e \in (published + 1)..(published + k)
        PROVE  e \in {evs[i] : i \in (m + 1)..(m + k)}
    <3>1. /\ m + (e - published) \in (m + 1)..(m + k)
          /\ published + ((m + (e - published)) - m) = e
      BY <1>1, <1>2
    <3>2. evs[m + (e - published)] = e
      BY <1>3, <3>1
    <3>3. QED
      BY <3>1, <3>2
  <2>4. \A i \in (m + 1)..(m + k) : evs[i] \in (published + 1)..(published + k)
    BY <1>1, <1>7
  <2>5. \A i \in (m + 1)..(m + k) : i \in 1..(m + k)
    BY <1>1, <1>2
  <2>6. \A i \in 1..m : i \in 1..(m + k)
    BY <1>1, <1>2
  <2>7. {evs[i] : i \in 1..(m + k)}
          = {evs[i] : i \in 1..m} \cup {evs[i] : i \in (m + 1)..(m + k)}
    BY <1>6, <2>5, <2>6
  <2>8. {evs[i] : i \in (m + 1)..(m + k)} = (published + 1)..(published + k)
    BY <2>3, <2>4
  <2>9. QED
    BY <2>1, <2>2, <2>7, <2>8
<1>11. QED
  BY <1>3, <1>8, <1>9, <1>10 DEF evs

\* queue() of a subscriber that is on line, or whose discard interval is over.
LEMMA QueueStep ==
    ASSUME IInv, NEW k \in 1..MaxBurst, Queue(k)
    PROVE  IInv'
<1> DEFINE evs == events \o [i \in 1..k |-> published + i]
<1>1. /\ k \in Nat /\ published \in Nat /\ published + k \in 0..MaxEvents
      /\ published' = published + k
      /\ state' = "Online" /\ waiter = "none"
      /\ Flush(outstanding, evs, calls, delivered)
      /\ UNCHANGED <<rec, currentRetry, discarding, flushing, reapVars, assertFailed>>
  BY BoundsAssumption DEF IInv, TypeOK, Queue, Shutdown
<1>2. /\ evs \in Seq(Nat)
      /\ rec.kind # "batch" => Consistent(evs, calls, published + k)
  BY QueueAppends
<1> HIDE DEF evs
<1>3. FlushPre(outstanding, evs, calls, delivered, published + k)
  <2>1. Counted(outstanding, calls, timer)
    BY DEF IInv, OutstandingCounted, Counted
  <2>2. QED
    BY <1>1, <1>2, <2>1 DEF IInv, TypeOK, FlushPre
<1>4. FlushPost(evs, published')
  BY <1>1, <1>3, FlushKept
<1>5. QED
  BY <1>1, <1>4, FlushStep DEF IInv, TypeOK, States

\* response(): the last callback of a stopping subscriber only counts.
LEMMA ResponseStep ==
    ASSUME IInv, NEW c \in calls, Response(c)
    PROVE  IInv'
<1>1. /\ rec.kind # "batch"
      /\ UNCHANGED <<rec, state, discarding, flushing, reapVars, published, assertFailed>>
      /\ currentRetry' = 0
  BY DEF Response
<1>2. /\ c \in Seq(Nat) /\ ToSet(c) \in SUBSET Nat
      /\ outstanding - 1 \in Nat
      /\ Counted(outstanding - 1, calls \ {c}, timer)
      /\ Consistent(events, calls \ {c}, published)
  BY <1>1, CallRemoved
<1>3. FlushPost(events, published')
  <2>1. CASE events = <<>> /\ outstanding = 1 /\ Shutdown
    <3>1. /\ outstanding' = outstanding - 1 /\ calls' = calls \ {c}
          /\ delivered' = delivered \cup ToSet(c)
          /\ waiter' \in {waiter, "notified"} /\ UNCHANGED <<events, timer, lost>>
      <4>1. /\ outstanding' = 0 /\ outstanding = 1
            /\ calls' = calls \ {c} /\ delivered' = delivered \cup ToSet(c)
            /\ UNCHANGED <<events, timer, lost>>
        BY <2>1 DEF Response
      <4>2. waiter' \in {waiter, "notified"}
        BY <2>1 DEF Response, Notify
      <4>3. QED
        BY <4>1, <4>2
    <3>2. Counted(outstanding', calls', timer') /\ Consistent(events', calls', published')
      BY <1>1, <1>2, <3>1 DEF Counted
    <3>3. QED
      BY <1>1, <1>2, <2>1, <3>1, <3>2 DEF IInv, TypeOK, FlushPost, Notify, Consistent
  <2>2. CASE ~(events = <<>> /\ outstanding = 1 /\ Shutdown)
    <3>1. Flush(outstanding - 1, events, calls \ {c}, delivered \cup ToSet(c))
      BY <2>2 DEF Response
    <3>2. FlushPre(outstanding - 1, events, calls \ {c}, delivered \cup ToSet(c), published')
      <4>1. /\ calls \ {c} \in SUBSET Seq(Nat)
            /\ delivered \cup ToSet(c) \in SUBSET Nat
            /\ published' \in Nat /\ lost \in SUBSET Nat
        <5>1. calls \ {c} \in SUBSET Seq(Nat)
          BY DEF IInv, TypeOK
        <5>2. delivered \cup ToSet(c) \in SUBSET Nat
          BY <1>2 DEF IInv, TypeOK
        <5>3. published' \in Nat /\ lost \in SUBSET Nat
          BY <1>1, BoundsAssumption DEF IInv, TypeOK
        <5>4. QED
          BY <5>1, <5>2, <5>3
      <4>2. QED
        BY <1>1, <1>2, <4>1 DEF IInv, TypeOK, FlushPre
    <3>3. QED
      BY <3>1, <3>2, FlushKept
  <2>3. QED
    BY <2>1, <2>2
<1>4. QED
  BY <1>1, <1>3, FlushStep DEF IInv, TypeOK, QueueOnlyOnline, ShutdownDrains

\* sent(): the last callback flushes again, the others only count.
LEMMA SentStep ==
    ASSUME IInv, NEW c \in calls, Sent(c)
    PROVE  IInv'
<1>1. /\ rec.kind # "batch"
      /\ UNCHANGED <<rec, state, currentRetry, discarding, flushing, reapVars, published,
                     assertFailed>>
  BY DEF Sent
<1>2. /\ c \in Seq(Nat) /\ ToSet(c) \in SUBSET Nat
      /\ outstanding - 1 \in Nat
      /\ Counted(outstanding - 1, calls \ {c}, timer)
      /\ Consistent(events, calls \ {c}, published)
  BY <1>1, CallRemoved
<1>3. FlushPost(events, published')
  <2>1. CASE ~(outstanding = 1 /\ events # <<>>)
    <3>1. /\ outstanding' = outstanding - 1 /\ calls' = calls \ {c}
          /\ delivered' = delivered \cup ToSet(c)
          /\ Notify(outstanding = 1) /\ UNCHANGED <<events, timer, lost>>
      BY <2>1 DEF Sent
    <3>2. Counted(outstanding', calls', timer') /\ Consistent(events', calls', published')
      BY <1>1, <1>2, <3>1 DEF Counted
    <3>3. events' # <<>> => outstanding' > 0
      BY <1>2, <2>1, <3>1 DEF IInv, TypeOK
    <3>4. QED
      BY <1>1, <1>2, <3>1, <3>2, <3>3 DEF IInv, TypeOK, FlushPost, Notify, Consistent
  <2>2. CASE outstanding = 1 /\ events # <<>>
    <3>1. Flush(outstanding - 1, events, calls \ {c}, delivered \cup ToSet(c))
      BY <2>2 DEF Sent
    <3>2. FlushPre(outstanding - 1, events, calls \ {c}, delivered \cup ToSet(c), published')
      <4>1. /\ calls \ {c} \in SUBSET Seq(Nat)
            /\ delivered \cup ToSet(c) \in SUBSET Nat
            /\ published' \in Nat /\ lost \in SUBSET Nat
        <5>1. calls \ {c} \in SUBSET Seq(Nat)
          BY DEF IInv, TypeOK
        <5>2. delivered \cup ToSet(c) \in SUBSET Nat
          BY <1>2 DEF IInv, TypeOK
        <5>3. published' \in Nat /\ lost \in SUBSET Nat
          BY <1>1, BoundsAssumption DEF IInv, TypeOK
        <5>4. QED
          BY <5>1, <5>2, <5>3
      <4>2. QED
        BY <1>1, <1>2, <4>1 DEF IInv, TypeOK, FlushPre
    <3>3. QED
      BY <3>1, <3>2, FlushKept
  <2>3. QED
    BY <2>1, <2>2
<1>4. QED
  BY <1>1, <1>3, FlushStep DEF IInv, TypeOK, QueueOnlyOnline, ShutdownDrains

\* A step of an error that leaves the subscriber counted as "sends" says.
LEMMA ErrorStep ==
    ASSUME IInv, NEW hard, NEW gone, gone \in Seq(Nat), Error(hard, gone),
           outstanding' \in Nat, calls' \in SUBSET Seq(Nat), flushing' \in Seq(Nat),
           rec.kind # "batch" => flushing' = <<>>,
           Counted(outstanding', calls', timer),
           rec.kind # "batch" => Consistent(events, calls', published)
    PROVE  IInv'
<1>1. /\ state' \in States /\ state' # "Online" /\ events' = <<>>
      /\ currentRetry' \in Nat /\ discarding' \in BOOLEAN /\ assertFailed' \in BOOLEAN
      /\ lost' \in SUBSET Nat
      /\ waiter' \in {"none", "waiting", "notified", "done"}
      /\ state' = "Reaped" => state = "Reaped"
      /\ UNCHANGED <<rec, timer, reapVars, published, delivered>>
  BY ErrorEmpties
<1>2. TypeOK'
  BY <1>1 DEF IInv, TypeOK, reapVars
<1>3. QueueOnlyOnline' /\ NoStuckEvents' /\ ShutdownDrains'
  BY <1>1 DEF QueueOnlyOnline, NoStuckEvents, ShutdownDrains
<1>4. OutstandingCounted'
  BY <1>1 DEF OutstandingCounted, Counted
<1>5. (rec.kind # "batch" => Consistent(events, calls, published))'
  BY <1>1 DEF Consistent, Sorted, Older
<1>6. OnlyBatchesFlush' /\ ReapedIsReported'
  BY <1>1 DEF IInv, OnlyBatchesFlush, ReapedIsReported, reapVars
<1>7. QED
  BY <1>2, <1>3, <1>4, <1>5, <1>6 DEF IInv

\* error() of a call.
LEMMA CallFailedStep ==
    ASSUME IInv, NEW c \in calls, NEW hard, CallFailed(c, hard)
    PROVE  IInv'
<1>1. /\ rec.kind # "batch" /\ calls' = calls \ {c} /\ outstanding' = outstanding - 1
      /\ Error(hard, c) /\ flushing' = flushing
  BY DEF CallFailed
<1>2. /\ c \in Seq(Nat) /\ outstanding - 1 \in Nat
      /\ Counted(outstanding - 1, calls \ {c}, timer)
      /\ Consistent(events, calls \ {c}, published)
  BY <1>1, CallRemoved
<1>3. calls' \in SUBSET Seq(Nat)
  BY <1>1 DEF IInv, TypeOK
<1>4. flushing' \in Seq(Nat) /\ flushing' = <<>>
  BY <1>1 DEF IInv, TypeOK, OnlyBatchesFlush
<1>5. QED
  BY <1>1, <1>2, <1>3, <1>4, ErrorStep

\* ice_exception() of a batch call.
LEMMA BatchFailedStep ==
    ASSUME IInv, NEW c \in calls, NEW hard, BatchFailed(c, hard)
    PROVE  IInv'
<1>1. /\ rec.kind = "batch" /\ calls' = calls \ {c}
      /\ Error(hard, c) /\ UNCHANGED <<outstanding, flushing>>
  BY DEF BatchFailed
<1>2. calls' \in SUBSET Seq(Nat)
  BY <1>1 DEF IInv, TypeOK
<1>3. c \in Seq(Nat) /\ outstanding' \in Nat /\ flushing' \in Seq(Nat)
  BY <1>1 DEF IInv, TypeOK
<1>4. Counted(outstanding', calls', timer)
  BY <1>1 DEF IInv, OutstandingCounted, Counted
<1>5. QED
  BY <1>1, <1>2, <1>3, <1>4, ErrorStep

\* doFlush() catches an exception.
LEMMA BatchThrewStep ==
    ASSUME IInv, NEW hard, BatchThrew(hard)
    PROVE  IInv'
<1>1. /\ rec.kind = "batch" /\ flushing' = <<>>
      /\ Error(hard, flushing) /\ UNCHANGED <<outstanding, calls>>
  BY DEF BatchThrew, IInv, OnlyBatchesFlush
<1>2. calls' \in SUBSET Seq(Nat)
  BY <1>1 DEF IInv, TypeOK
<1>3. flushing \in Seq(Nat) /\ outstanding' \in Nat /\ flushing' \in Seq(Nat)
  BY <1>1 DEF IInv, TypeOK
<1>4. Counted(outstanding', calls', timer)
  BY <1>1 DEF IInv, OutstandingCounted, Counted
<1>5. QED
  BY <1>1, <1>2, <1>3, <1>4, ErrorStep

\* doFlush(): the timer was the one thing outstanding.
LEMMA DoFlushStep ==
    ASSUME IInv, DoFlush
    PROVE  IInv'
<1> USE DEF IInv
<1>1. /\ timer = TRUE /\ flushing = <<>> /\ timer' = FALSE
      /\ outstanding' = outstanding - 1
      /\ waiter' \in {waiter, "notified"}
      /\ flushing' \in {events, <<>>}
      /\ assertFailed' \in BOOLEAN
      /\ UNCHANGED <<rec, state, currentRetry, discarding, calls, reapVars, history>>
  BY DEF DoFlush, Notify, TypeOK
<1>2. rec.kind = "batch" /\ outstanding = 1 /\ outstanding' = 0
  BY <1>1 DEF OnlyBatchesFlush, OutstandingCounted
<1>3. events' = <<>>
  BY DEF DoFlush, QueueOnlyOnline
<1>4. rec.maxOutstanding \in Nat
  BY RecordsAssumption DEF TypeOK
<1>5. TypeOK'
  <2>1. flushing' \in Seq(Nat)
    BY <1>1 DEF TypeOK
  <2>2. events' \in Seq(Nat) /\ outstanding' \in Nat
    BY <1>2, <1>3
  <2>3. waiter' \in {"none", "waiting", "notified", "done"}
    BY <1>1 DEF TypeOK
  <2>4. QED
    BY <1>1, <2>1, <2>2, <2>3 DEF TypeOK, reapVars, history
<1>6. QueueOnlyOnline' /\ NoStuckEvents' /\ ShutdownDrains'
  BY <1>3 DEF QueueOnlyOnline, NoStuckEvents, ShutdownDrains
<1>7. OutstandingCounted'
  BY <1>1, <1>2, <1>4 DEF OutstandingCounted
<1>8. OnlyBatchesFlush' /\ ReapedIsReported'
  BY <1>1, <1>2 DEF OnlyBatchesFlush, ReapedIsReported, reapVars
<1>9. QED
  BY <1>1, <1>2, <1>5, <1>6, <1>7, <1>8

\* The rest of doFlush(), and a batch that was sent.
LEMMA BatchSendStep ==
    ASSUME IInv, BatchFlush \/ \E c \in calls : BatchSent(c)
    PROVE  IInv'
<1> USE DEF IInv
<1>1. /\ rec.kind = "batch"
      /\ UNCHANGED <<rec, queueVars, waiter, timer, reapVars, published, assertFailed>>
  BY DEF BatchFlush, BatchSent, OnlyBatchesFlush, history
<1>2. flushing' \in Seq(Nat) /\ lost' = lost
  <2>1. flushing' \in {flushing, <<>>} /\ lost' = lost
    BY DEF BatchFlush, BatchSent, history
  <2>2. flushing \in Seq(Nat) /\ <<>> \in Seq(Nat)
    BY DEF TypeOK
  <2>3. QED
    BY <2>1, <2>2
<1>3. calls' \in SUBSET Seq(Nat)
  BY DEF BatchFlush, BatchSent, TypeOK
<1>4. delivered' \in SUBSET Nat
  <2>1. \A c \in calls : ToSet(c) \in SUBSET Nat
    BY DEF TypeOK, ToSet
  <2>2. QED
    BY <2>1 DEF BatchFlush, BatchSent, TypeOK, history
<1>5. TypeOK'
  BY <1>1, <1>2, <1>3, <1>4 DEF TypeOK, queueVars, reapVars
<1>6. QueueOnlyOnline' /\ NoStuckEvents' /\ ShutdownDrains'
  BY <1>1 DEF QueueOnlyOnline, NoStuckEvents, ShutdownDrains, queueVars
<1>7. OutstandingCounted'
  BY <1>1 DEF OutstandingCounted, queueVars
<1>8. OnlyBatchesFlush' /\ ReapedIsReported'
  BY <1>1 DEF OnlyBatchesFlush, ReapedIsReported, queueVars, reapVars
<1>9. QED
  BY <1>1, <1>5, <1>6, <1>7, <1>8

\* The steps that leave the queue, the counter and the calls alone.
LEMMA QuietStep ==
    ASSUME IInv,
           UNCHANGED <<rec, outstanding, events, currentRetry, sendVars, history>>,
           state' \in States, state' # state => state # "Online" /\ state' # "Online",
           state' = "Reaped" => request' # "none",
           discarding' \in BOOLEAN, assertFailed' \in BOOLEAN,
           waiter' \in {"none", "waiting", "notified", "done"},
           waiter' = "done" => events = <<>>,
           finders' \in 0..MaxFinders,
           request' \in {"none", "asked", "failed", "removed"}
    PROVE  IInv'
<1> USE DEF IInv
<1>1. TypeOK'
  BY DEF TypeOK, sendVars, history
<1>2. QueueOnlyOnline' /\ NoStuckEvents' /\ ShutdownDrains' /\ ReapedIsReported'
  BY DEF QueueOnlyOnline, NoStuckEvents, ShutdownDrains, ReapedIsReported
<1>3. OutstandingCounted' /\ OnlyBatchesFlush'
  BY DEF OutstandingCounted, OnlyBatchesFlush, sendVars
<1>4. (rec.kind # "batch" => Consistent(events, calls, published))'
  BY DEF sendVars, history
<1>5. QED
  BY <1>1, <1>2, <1>3, <1>4

\* shutdown() returns only when nothing is left in the queue.
LEMMA Drained ==
    ASSUME IInv, ~MustWait
    PROVE  events = <<>>
BY DEF IInv, TypeOK, MustWait, QueueOnlyOnline, NoStuckEvents

-----------------------------------------------------------------------------
(***************************************************************************)
(* The theorems                                                            *)
(***************************************************************************)

\* IInv holds initially.
LEMMA InitIInv == Init => IInv
<1> SUFFICES ASSUME Init
             PROVE  IInv
  OBVIOUS
<1>1. Cardinality({}) = 0 /\ IsFiniteSet({})
  BY FS_EmptySet
<1>2. rec.maxOutstanding \in Nat \ {0}
  BY RecordsAssumption DEF Init
<1>3. TypeOK
  <2>1. 0 \in 0..MaxEvents /\ 0 \in 0..MaxFinders
    BY BoundsAssumption
  <2>2. /\ events \in Seq(Nat) /\ flushing \in Seq(Nat)
        /\ outstanding \in Nat /\ currentRetry \in Nat
    BY DEF Init
  <2>3. calls \in SUBSET Seq(Nat) /\ delivered \in SUBSET Nat /\ lost \in SUBSET Nat
    BY DEF Init
  <2>4. QED
    BY <2>1, <2>2, <2>3 DEF Init, TypeOK, States
<1>4. Consistent(events, calls, published)
  BY <1>1 DEF Init, Consistent, Sorted, Older
<1>5. OutstandingCounted
  BY <1>1, <1>2 DEF Init, OutstandingCounted
<1>6. QED
  BY <1>3, <1>4, <1>5
     DEF Init, IInv, QueueOnlyOnline, NoStuckEvents, OnlyBatchesFlush, ShutdownDrains,
         ReapedIsReported

\* Every step keeps IInv.
LEMMA NextIInv == IInv /\ [Next]_vars => IInv'
<1> SUFFICES ASSUME IInv, [Next]_vars
             PROVE  IInv'
  OBVIOUS
<1>0. TypeOK /\ OutstandingCounted /\ ReapedIsReported
  BY DEF IInv
<1>1. CASE Publisher
  BY <1>1, QueueStep DEF Publisher
<1>2. CASE DiscardIntervalOver
  BY <1>0, <1>2, QuietStep DEF DiscardIntervalOver, TypeOK, IInv, ShutdownDrains, reapVars, ReapedIsReported
<1>3. CASE Callback
  <2>1. PICK c \in calls :
          \/ Response(c) \/ Sent(c) \/ BatchSent(c)
          \/ \E hard \in BOOLEAN : CallFailed(c, hard) \/ BatchFailed(c, hard)
    BY <1>3 DEF Callback
  <2>2. CASE Response(c)
    BY <2>2, ResponseStep
  <2>3. CASE Sent(c)
    BY <2>3, SentStep
  <2>4. CASE BatchSent(c)
    BY <2>4, BatchSendStep
  <2>5. CASE \E hard \in BOOLEAN : CallFailed(c, hard) \/ BatchFailed(c, hard)
    BY <2>5, CallFailedStep, BatchFailedStep
  <2>6. QED
    BY <2>1, <2>2, <2>3, <2>4, <2>5
<1>4. CASE Flusher
  BY <1>4, DoFlushStep, BatchSendStep, BatchThrewStep DEF Flusher
<1>5. CASE Topic
  <2>1. CASE QueueErrored
    BY <1>0, <2>1, BoundsAssumption, QuietStep
       DEF QueueErrored, TypeOK, IInv, ShutdownDrains, queueVars, ReapedIsReported
  <2>2. CASE Reap
    BY <1>0, <2>2, BoundsAssumption, QuietStep
       DEF Reap, TypeOK, IInv, ShutdownDrains, States, Dead, ReapedIsReported
  <2>3. CASE ReapDone \/ ReapFailed
    BY <1>0, <2>3, QuietStep
       DEF ReapDone, ReapFailed, TypeOK, IInv, ShutdownDrains, queueVars
  <2>4. CASE Update
    BY <1>0, <2>4, QuietStep
       DEF Update, TypeOK, IInv, ShutdownDrains, States
  <2>5. QED
    BY <1>5, <2>1, <2>2, <2>3, <2>4 DEF Topic
<1>6. CASE Stopper
  BY <1>0, <1>6, Drained, QuietStep
     DEF Stopper, ShutdownEnter, ShutdownWake, TypeOK, queueVars, reapVars, ReapedIsReported
<1>7. CASE UNCHANGED vars
  BY <1>0, <1>7, QuietStep
     DEF vars, queueVars, reapVars, TypeOK, IInv, ShutdownDrains, ReapedIsReported
<1>8. QED
  BY <1>1, <1>2, <1>3, <1>4, <1>5, <1>6, <1>7 DEF Next

\* IInv holds in every state of every behaviour of a subscriber.
THEOREM Invariance == Spec => []IInv
BY InitIInv, NextIInv, PTL DEF Spec

\* The variables keep their types; above all the counter _outstanding, which
\* every callback decrements, is never negative.
THEOREM TypeCorrect == Spec => []TypeOK
<1>1. IInv => TypeOK
  BY DEF IInv
<1>2. QED
  BY <1>1, Invariance, PTL

\* _outstanding counts exactly the callbacks still to come, whatever the
\* kind of the subscriber, and never exceeds the maximum.
THEOREM CountsCallbacks == Spec => []OutstandingCounted
<1>1. IInv => OutstandingCounted
  BY DEF IInv
<1>2. QED
  BY <1>1, Invariance, PTL

\* No lost wakeup: while events wait, something outstanding will flush them.
THEOREM NeverStuck == Spec => []NoStuckEvents
<1>1. IInv => NoStuckEvents
  BY DEF IInv
<1>2. QED
  BY <1>1, Invariance, PTL

\* A subscriber that is off line, in error or reaped holds no events.
THEOREM QueueEmptyOffline == Spec => []QueueOnlyOnline
<1>1. IInv => QueueOnlyOnline
  BY DEF IInv
<1>2. QED
  BY <1>1, Invariance, PTL

\* When shutdown() has returned, the queue is empty for good.
THEOREM DrainedAtShutdown == Spec => []ShutdownDrains
<1>1. IInv => ShutdownDrains
  BY DEF IInv
<1>2. QED
  BY <1>1, Invariance, PTL

\* A reaped subscriber was reported to the master, and the report is pending,
\* failed or carried out.
THEOREM ReapedReported == Spec => []ReapedIsReported
<1>1. IInv => ReapedIsReported
  BY DEF IInv
<1>2. QED
  BY <1>1, Invariance, PTL

-----------------------------------------------------------------------------
(***************************************************************************)
(* The assert() statements.  Who goes on to call reap() has seen the       *)
(* subscriber errored, a timer runs only while there are events to flush,  *)
(* and a subscriber with one call at a time that has ended has none.       *)
(***************************************************************************)

FindersSawError == finders > 0 => state \in Dead

TimerHasEvents == timer /\ state = "Online" => events # <<>>

DeadIsQuiet ==
    rec.kind \in {"twoway", "link"} /\ rec.maxOutstanding = 1 /\ state \in Dead => calls = {}

AssertInv ==
    /\ FindersSawError
    /\ TimerHasEvents
    /\ DeadIsQuiet
    /\ OnlyRetryAssertFails

\* Only a batch's flush() touches the timer, and it leaves the queue alone.
LEMMA FlushTimer ==
    ASSUME NEW out, NEW evs, NEW pending, NEW taken, Flush(out, evs, pending, taken)
    PROVE  /\ rec.kind # "batch" => timer' = timer
           /\ rec.kind = "batch" => events' = evs
BY DEF Flush, FlushNothing, FlushTwoway, FlushOneway, FlushBatch, FlushLink

\* What an error may do to the state and to the asserts.
LEMMA ErrorAsserts ==
    ASSUME IInv, AssertInv, ~assertFailed, NEW hard, NEW gone, Error(hard, gone)
    PROVE  /\ state \in Dead => state' = state
           /\ assertFailed' => /\ ~hard /\ state \in Dead /\ state' = state
                               /\ RetriesLeft /\ RetriesLeft'
                               /\ rec.kind \in {"twoway", "link"}
<1>1. rec' = rec /\ currentRetry \in Nat /\ rec \in Records
  BY DEF Error, IInv, TypeOK
<1>2. CASE ErrorIgnored(hard)
  BY <1>2 DEF ErrorIgnored
<1>3. CASE ErrorRetry(hard)
  <2>1. CASE state \in Dead
    <3>1. UNCHANGED <<state, currentRetry>> /\ RetriesLeft /\ ~hard
      BY <1>3, <2>1 DEF ErrorRetry
    <3>2. RetriesLeft'
      BY <1>1, <3>1 DEF RetriesLeft
    <3>3. rec.retryCount # 0
      BY <1>1, <3>1 DEF RetriesLeft
    <3>4. rec.kind \in {"twoway", "link"}
      BY <1>1, <3>3, RecordsAssumption DEF Kinds
    <3>5. QED
      BY <2>1, <3>1, <3>2, <3>4
  <2>2. CASE state \notin Dead
    BY <1>3, <2>2 DEF ErrorRetry
  <2>3. QED
    BY <2>1, <2>2
<1>4. CASE ErrorOut(hard)
  BY <1>4 DEF ErrorOut
<1>5. QED
  BY <1>2, <1>3, <1>4 DEF Error

\* The only call of a subscriber that has one at a time.
LEMMA OnlyCall ==
    ASSUME IInv, NEW c \in calls, rec.kind \in {"twoway", "link"}, rec.maxOutstanding = 1
    PROVE  calls \ {c} = {}
<1>1. /\ IsFiniteSet(calls) /\ outstanding = Cardinality(calls)
      /\ outstanding \in Nat /\ outstanding <= 1
  BY DEF IInv, TypeOK, OutstandingCounted, Consistent
<1>2. IsFiniteSet(calls \ {c}) /\ Cardinality(calls \ {c}) = outstanding - 1
  BY <1>1, FS_RemoveElement
<1>3. Cardinality(calls \ {c}) \in Nat
  BY <1>2, FS_CardinalityType
<1>4. Cardinality(calls \ {c}) = 0
  BY <1>1, <1>2, <1>3
<1>5. QED
  BY <1>2, <1>4, FS_EmptySet

\* An error of a subscriber that is not a batch: the call was its last, if
\* it has one at a time.
LEMMA CallFailedAsserts ==
    ASSUME IInv, AssertInv, ~assertFailed, NEW c \in calls, NEW hard, CallFailed(c, hard)
    PROVE  AssertInv'
<1>1. /\ rec.kind # "batch" /\ calls' = calls \ {c} /\ Error(hard, c)
      /\ UNCHANGED <<rec, finders>>
  BY DEF CallFailed, Error, reapVars
<1>2. /\ state \in Dead => state' = state
      /\ assertFailed' => /\ state \in Dead /\ state' = state
                          /\ RetriesLeft' /\ rec.kind \in {"twoway", "link"}
  BY <1>1, ErrorAsserts
<1>3. state' # "Online"
  BY <1>1, ErrorEmpties DEF IInv, TypeOK
<1>4. FindersSawError' /\ TimerHasEvents'
  BY <1>1, <1>2, <1>3 DEF AssertInv, FindersSawError, TimerHasEvents, Dead
<1>5. DeadIsQuiet'
  BY <1>1, OnlyCall DEF DeadIsQuiet
<1>6. OnlyRetryAssertFails'
  <2>1. SUFFICES ASSUME assertFailed'
                 PROVE  rec.kind = "twoway" /\ rec.maxOutstanding > 1
    BY <1>1, <1>2 DEF OnlyRetryAssertFails, Dead
  <2>2. rec.maxOutstanding # 1
    BY <1>2, <2>1 DEF AssertInv, DeadIsQuiet
  <2>3. rec.kind = "twoway" /\ rec.maxOutstanding \in Nat \ {0}
    BY <1>2, <2>1, <2>2, RecordsAssumption DEF IInv, TypeOK
  <2>4. QED
    BY <2>2, <2>3
<1>7. QED
  BY <1>4, <1>5, <1>6 DEF AssertInv

\* An error of a batch: it never retries.
LEMMA BatchErrorAsserts ==
    ASSUME IInv, AssertInv, ~assertFailed, rec.kind = "batch", NEW hard, NEW gone,
           gone \in Seq(Nat), Error(hard, gone)
    PROVE  AssertInv'
<1>1. UNCHANGED <<rec, finders>>
  BY DEF Error, reapVars
<1>2. (state \in Dead => state' = state) /\ ~assertFailed'
  BY ErrorAsserts
<1>3. state' # "Online"
  BY ErrorEmpties
<1>4. QED
  BY <1>1, <1>2, <1>3
     DEF AssertInv, FindersSawError, TimerHasEvents, DeadIsQuiet, OnlyRetryAssertFails, Dead

\* Every step keeps AssertInv.
LEMMA NextAssertInv == IInv /\ AssertInv /\ [Next]_vars => AssertInv'
<1> SUFFICES ASSUME IInv, AssertInv, [Next]_vars
             PROVE  AssertInv'
  OBVIOUS
<1> USE DEF AssertInv, FindersSawError, TimerHasEvents, DeadIsQuiet, OnlyRetryAssertFails, Dead
<1>0. CASE UNCHANGED vars
  BY <1>0 DEF vars, queueVars, sendVars, reapVars, RetriesLeft
<1>1. CASE Publisher /\ ~assertFailed
  <2>1. PICK k \in 1..MaxBurst : Queue(k)
    BY <1>1 DEF Publisher
  <2> DEFINE evs == events \o [i \in 1..k |-> published + i]
  <2>2. /\ state' = "Online" /\ state \in {"Online", "Offline"}
        /\ UNCHANGED <<rec, reapVars, assertFailed>>
        /\ Flush(outstanding, evs, calls, delivered)
    BY <2>1 DEF Queue
  <2>3. evs # <<>>
    <3>1. k \in Nat /\ k > 0 /\ published \in Nat /\ events \in Seq(Nat) /\ Len(events) \in Nat
      BY BoundsAssumption DEF IInv, TypeOK
    <3>2. evs \in Seq(Nat) /\ Len(evs) = Len(events) + k
      BY <3>1, Appended
    <3> HIDE DEF evs
    <3>3. QED
      BY <3>1, <3>2
  <2> HIDE DEF evs
  <2>4. (rec.kind # "batch" => timer' = timer) /\ (rec.kind = "batch" => events' = evs)
    BY <2>2, FlushTimer
  <2>5. rec.kind # "batch" => timer = FALSE
    BY DEF IInv, OnlyBatchesFlush
  <2>6. QED
    BY <1>1, <2>2, <2>3, <2>4, <2>5 DEF reapVars
<1>2. CASE DiscardIntervalOver /\ ~assertFailed
  BY <1>2 DEF DiscardIntervalOver, sendVars, reapVars
<1>3. CASE Callback /\ ~assertFailed
  <2>1. PICK c \in calls :
          \/ Response(c) \/ Sent(c) \/ BatchSent(c)
          \/ \E hard \in BOOLEAN : CallFailed(c, hard) \/ BatchFailed(c, hard)
    BY <1>3 DEF Callback
  <2>2. CASE Response(c) \/ Sent(c)
    <3>1. /\ rec.kind # "batch" /\ UNCHANGED <<rec, state, reapVars, assertFailed>>
      BY <2>2 DEF Response, Sent
    <3>2. timer' = timer
      BY <2>2, <3>1, FlushTimer DEF Response, Sent
    <3>3. timer = FALSE
      BY <3>1 DEF IInv, OnlyBatchesFlush
    <3>4. rec.kind \in {"twoway", "link"} /\ rec.maxOutstanding = 1 => state \notin Dead
      OBVIOUS
    <3>5. QED
      BY <1>3, <3>1, <3>2, <3>3, <3>4 DEF reapVars
  <2>3. CASE BatchSent(c)
    BY <1>3, <2>3 DEF BatchSent, queueVars, reapVars
  <2>4. CASE \E hard \in BOOLEAN : CallFailed(c, hard)
    BY <1>3, <2>4, CallFailedAsserts
  <2>5. CASE \E hard \in BOOLEAN : BatchFailed(c, hard)
    <3>1. c \in Seq(Nat)
      BY DEF IInv, TypeOK
    <3>2. QED
      BY <1>3, <2>5, <3>1, BatchErrorAsserts DEF BatchFailed
  <2>6. QED
    BY <2>1, <2>2, <2>3, <2>4, <2>5
<1>4. CASE Flusher /\ ~assertFailed
  <2>1. CASE DoFlush
    <3>1. timer /\ rec.kind = "batch" /\ outstanding = 1
      BY <2>1 DEF DoFlush, IInv, OnlyBatchesFlush, OutstandingCounted, TypeOK
    <3>2. ~assertFailed'
      BY <2>1, <3>1 DEF DoFlush
    <3>3. QED
      BY <2>1, <3>1, <3>2 DEF DoFlush, reapVars
  <2>2. CASE BatchFlush
    <3>1. rec.kind = "batch"
      BY <2>2 DEF BatchFlush, IInv, OnlyBatchesFlush
    <3>2. QED
      BY <1>4, <2>2, <3>1 DEF BatchFlush, queueVars, reapVars
  <2>3. CASE \E hard \in BOOLEAN : BatchThrew(hard)
    <3>1. rec.kind = "batch" /\ flushing \in Seq(Nat)
      BY <2>3 DEF BatchThrew, IInv, OnlyBatchesFlush, TypeOK
    <3>2. QED
      BY <1>4, <2>3, <3>1, BatchErrorAsserts DEF BatchThrew
  <2>4. QED
    BY <1>4, <2>1, <2>2, <2>3 DEF Flusher
<1>5. CASE Topic /\ ~assertFailed
  <2>1. CASE QueueErrored
    BY <1>5, <2>1 DEF QueueErrored, queueVars, sendVars
  <2>2. CASE Reap
    <3>1. /\ state \in Dead /\ state' \in Dead /\ ~assertFailed'
          /\ UNCHANGED <<rec, calls, timer, events>>
      BY <2>2 DEF Reap, sendVars
    <3>2. QED
      BY <3>1
  <2>3. CASE ReapDone \/ ReapFailed
    BY <1>5, <2>3 DEF ReapDone, ReapFailed, queueVars, sendVars
  <2>4. CASE Update
    BY <1>5, <2>4 DEF Update, sendVars
  <2>5. QED
    BY <1>5, <2>1, <2>2, <2>3, <2>4 DEF Topic
<1>6. CASE Stopper /\ ~assertFailed
  BY <1>6 DEF Stopper, ShutdownEnter, ShutdownWake, queueVars, sendVars, reapVars
<1>7. QED
  BY <1>0, <1>1, <1>2, <1>3, <1>4, <1>5, <1>6 DEF Next

\* The asserts hold but the one of error(), and that one fails only for a
\* twoway that retries with several calls outstanding.
THEOREM AssertsHoldButOne == Spec => []OnlyRetryAssertFails
<1>1. Init => AssertInv
  BY DEF Init, AssertInv, FindersSawError, TimerHasEvents, DeadIsQuiet, OnlyRetryAssertFails, Dead
<1>2. IInv /\ AssertInv /\ [Next]_vars => AssertInv'
  BY NextAssertInv
<1>3. AssertInv => OnlyRetryAssertFails
  BY DEF AssertInv
<1>4. QED
  BY <1>1, <1>2, <1>3, Invariance, PTL DEF Spec

-----------------------------------------------------------------------------
(***************************************************************************)
(* Every accepted event is in one place.  A flush moves events from the    *)
(* queue to calls, to the subscriber or to the lost ones; a callback takes *)
(* its call out whole, because no event is in two calls.                   *)
(***************************************************************************)

InCalls(pending) == UNION {ToSet(c) : c \in pending}

CallsApart(pending) == \A c, d \in pending : c # d => ToSet(c) \cap ToSet(d) = {}

\* "all" is divided into the events queued, being flushed, in calls,
\* delivered and lost.
Divided(all, q, f, c, d, l) ==
    /\ all = q \cup f \cup c \cup d \cup l
    /\ q \cap f = {} /\ q \cap c = {} /\ q \cap d = {} /\ q \cap l = {}
    /\ f \cap c = {} /\ f \cap d = {} /\ f \cap l = {}
    /\ c \cap d = {} /\ c \cap l = {} /\ d \cap l = {}

PlacesInv ==
    /\ Divided(1..published, ToSet(events), ToSet(flushing), InCalls(calls), delivered, lost)
    /\ CallsApart(calls)

LEMMA PlacesConserve == PlacesInv => EventsConserved
<1> SUFFICES ASSUME PlacesInv
             PROVE  EventsConserved
  OBVIOUS
<1> DEFINE places == <<ToSet(events), ToSet(flushing), InCalls(calls), delivered, lost>>
<1>1. /\ places[1] = ToSet(events) /\ places[2] = ToSet(flushing)
      /\ places[3] = InCalls(calls) /\ places[4] = delivered /\ places[5] = lost
  OBVIOUS
<1> HIDE DEF places
<1>2. 1..5 = {1, 2, 3, 4, 5}
  OBVIOUS
<1>3. 1..published = UNION {places[i] : i \in 1..5}
  <2>1. UNION {places[i] : i \in {1, 2, 3, 4, 5}}
          = places[1] \cup places[2] \cup places[3] \cup places[4] \cup places[5]
    OBVIOUS
  <2>2. QED
    BY <1>1, <1>2, <2>1 DEF PlacesInv, Divided
<1>4. \A i, j \in {1, 2, 3, 4, 5} : i # j => places[i] \cap places[j] = {}
  <2>1. /\ places[1] \cap places[2] = {} /\ places[1] \cap places[3] = {}
        /\ places[1] \cap places[4] = {} /\ places[1] \cap places[5] = {}
        /\ places[2] \cap places[3] = {} /\ places[2] \cap places[4] = {}
        /\ places[2] \cap places[5] = {} /\ places[3] \cap places[4] = {}
        /\ places[3] \cap places[5] = {} /\ places[4] \cap places[5] = {}
    BY <1>1 DEF PlacesInv, Divided
  <2>2. \A i, j \in {1, 2, 3, 4, 5} : places[i] \cap places[j] = places[j] \cap places[i]
    OBVIOUS
  <2>3. QED
    BY <2>1, <2>2
<1>5. QED
  BY <1>2, <1>3, <1>4 DEF EventsConserved, places, InCalls

\* What flush() moves: N into calls, T to the subscriber, L to the lost.
Moved(evs, pending, taken) ==
    \E N, T, L \in SUBSET ToSet(evs) :
        /\ N \cap T = {} /\ N \cap L = {} /\ T \cap L = {}
        /\ ToSet(events') = ToSet(evs) \ (N \cup T \cup L)
        /\ InCalls(calls') = InCalls(pending) \cup N
        /\ delivered' = taken \cup T
        /\ lost' = lost \cup L
        /\ CallsApart(calls')
        /\ rec.kind # "oneway" => T = {}

\* The first n events leave the queue, those at "queued" and the others.
LEMMA FirstEvents ==
    ASSUME NEW evs \in Seq(Nat),
           \A i, j \in 1..Len(evs) : i < j => evs[i] < evs[j],
           NEW n \in 0..Len(evs), NEW queued \in SUBSET (1..n)
    PROVE  LET N == {evs[i] : i \in queued}
               T == {evs[i] : i \in (1..n) \ queued}
           IN  /\ N \in SUBSET ToSet(evs) /\ T \in SUBSET ToSet(evs) /\ N \cap T = {}
               /\ ToSet(Suffix(evs, n)) = ToSet(evs) \ (N \cup T)
<1> DEFINE N == {evs[i] : i \in queued}
           T == {evs[i] : i \in (1..n) \ queued}
           rest == Suffix(evs, n)
<1>1. Len(evs) \in Nat /\ n \in Nat /\ n <= Len(evs) /\ 1..n \subseteq 1..Len(evs)
  OBVIOUS
<1>2. ToSet(evs) = {evs[i] : i \in 1..Len(evs)}
  BY DEF ToSet
<1>3. \A i, j \in 1..Len(evs) : evs[i] = evs[j] => i = j
  <2>1. \A i \in 1..Len(evs) : evs[i] \in Nat
    OBVIOUS
  <2>2. ASSUME NEW i \in 1..Len(evs), NEW j \in 1..Len(evs), i # j
        PROVE  evs[i] # evs[j]
    <3>1. i < j \/ j < i
      BY <2>2
    <3>2. evs[i] < evs[j] \/ evs[j] < evs[i]
      BY <3>1
    <3>3. QED
      BY <2>1, <3>2
  <2>3. QED
    BY <2>2
<1>4. /\ rest \in Seq(Nat) /\ Len(rest) = Len(evs) - n
      /\ \A i \in 1..(Len(evs) - n) : rest[i] = evs[n + i]
  BY SuffixOf
<1> HIDE DEF rest
<1>5. ToSet(rest) = {rest[i] : i \in 1..(Len(evs) - n)}
  <2>1. DOMAIN rest = 1..(Len(evs) - n)
    BY <1>4
  <2>2. QED
    BY <2>1 DEF ToSet
<1>6. ToSet(rest) = {evs[i] : i \in (n + 1)..Len(evs)}
  <2>1. ASSUME NEW i \in 1..(Len(evs) - n)
        PROVE  rest[i] = evs[n + i] /\ n + i \in (n + 1)..Len(evs)
    BY <1>1, <1>4
  <2>2. ASSUME NEW i \in (n + 1)..Len(evs)
        PROVE  i - n \in 1..(Len(evs) - n) /\ rest[i - n] = evs[i]
    <3>1. i - n \in 1..(Len(evs) - n) /\ n + (i - n) = i
      BY <1>1
    <3>2. QED
      BY <1>4, <3>1
  <2>3. ToSet(rest) \subseteq {evs[i] : i \in (n + 1)..Len(evs)}
    BY <1>5, <2>1
  <2>4. {evs[i] : i \in (n + 1)..Len(evs)} \subseteq ToSet(rest)
    <3>1. ASSUME NEW i \in (n + 1)..Len(evs)
          PROVE  evs[i] \in {rest[j] : j \in 1..(Len(evs) - n)}
      BY <2>2
    <3>2. QED
      BY <1>5, <3>1
  <2>5. QED
    BY <2>3, <2>4
<1>7. N \in SUBSET ToSet(evs) /\ T \in SUBSET ToSet(evs)
  BY <1>1, <1>2
<1>8. N \cap T = {}
  BY <1>1, <1>3
<1>9. N \cup T = {evs[i] : i \in 1..n}
  OBVIOUS
<1>10. {evs[i] : i \in (n + 1)..Len(evs)} = ToSet(evs) \ {evs[i] : i \in 1..n}
  <2>1. \A i \in 1..Len(evs) : i \in 1..n \/ i \in (n + 1)..Len(evs)
    BY <1>1
  <2>2. \A i \in (n + 1)..Len(evs) : i \in 1..Len(evs) /\ \A j \in 1..n : i # j
    BY <1>1
  <2>3. QED
    BY <1>1, <1>2, <1>3, <2>1, <2>2
<1>11. QED
  BY <1>6, <1>7, <1>8, <1>9, <1>10 DEF rest

\* A call for each of the positions S: their events are in calls now.
LEMMA CallsOfEvents ==
    ASSUME NEW pending, NEW evs, NEW S, NEW sent, AddsCalls(sent, pending, evs, S),
           \A i \in S : evs[i] \in ToSet(evs),
           CallsApart(pending), InCalls(pending) \cap ToSet(evs) = {}
    PROVE  /\ InCalls(sent) = InCalls(pending) \cup {evs[i] : i \in S}
           /\ CallsApart(sent)
<1>1. ASSUME NEW i
      PROVE  ToSet(<<evs[i]>>) = {evs[i]}
  <2>1. DOMAIN <<evs[i]>> = {1} /\ <<evs[i]>>[1] = evs[i]
    OBVIOUS
  <2>2. QED
    BY <2>1 DEF ToSet
<1>2. \A c : c \in sent <=> c \in pending \/ \E i \in S : c = <<evs[i]>>
  BY DEF AddsCalls
<1>3. InCalls(sent) = InCalls(pending) \cup {evs[i] : i \in S}
  <2>1. ASSUME NEW c \in sent, NEW e \in ToSet(c)
        PROVE  e \in InCalls(pending) \cup {evs[i] : i \in S}
    BY <1>1, <1>2 DEF InCalls
  <2>2. InCalls(pending) \subseteq InCalls(sent)
    BY <1>2 DEF InCalls
  <2>3. ASSUME NEW i \in S
        PROVE  evs[i] \in InCalls(sent)
    <3>1. <<evs[i]>> \in sent /\ evs[i] \in ToSet(<<evs[i]>>)
      BY <1>1, <1>2
    <3>2. QED
      BY <3>1 DEF InCalls
  <2>4. InCalls(sent) \subseteq InCalls(pending) \cup {evs[i] : i \in S}
    BY <2>1 DEF InCalls
  <2>5. QED
    BY <2>2, <2>3, <2>4
<1>4. ASSUME NEW c \in sent, NEW d \in sent, c # d
      PROVE  ToSet(c) \cap ToSet(d) = {}
  <2>1. ASSUME NEW a \in pending, NEW i \in S
        PROVE  ToSet(a) \cap ToSet(<<evs[i]>>) = {}
    <3>1. ToSet(a) \subseteq InCalls(pending)
      BY DEF InCalls
    <3>2. QED
      BY <1>1, <3>1
  <2>2. ASSUME NEW i \in S, NEW j \in S, <<evs[i]>> # <<evs[j]>>
        PROVE  ToSet(<<evs[i]>>) \cap ToSet(<<evs[j]>>) = {}
    BY <1>1, <2>2
  <2>3. CASE c \in pending /\ d \in pending
    BY <1>4, <2>3 DEF CallsApart
  <2>4. CASE c \in pending /\ d \notin pending
    <3>1. PICK i \in S : d = <<evs[i]>>
      BY <1>2, <2>4
    <3>2. QED
      BY <2>1, <2>4, <3>1
  <2>5. CASE c \notin pending /\ d \in pending
    <3>1. PICK i \in S : c = <<evs[i]>>
      BY <1>2, <2>5
    <3>2. ToSet(d) \cap ToSet(c) = {}
      BY <2>1, <2>5, <3>1
    <3>3. QED
      BY <3>2
  <2>6. CASE c \notin pending /\ d \notin pending
    <3>1. PICK i \in S : c = <<evs[i]>>
      BY <1>2, <2>6
    <3>2. PICK j \in S : d = <<evs[j]>>
      BY <1>2, <2>6
    <3>3. QED
      BY <1>4, <2>2, <3>1, <3>2
  <2>7. QED
    BY <2>3, <2>4, <2>5, <2>6
<1>5. QED
  BY <1>3, <1>4 DEF CallsApart

\* What flush() needs to know of the queue and the calls.
Apart(evs, pending) ==
    /\ evs \in Seq(Nat)
    /\ rec.kind # "batch" => \A i, j \in 1..Len(evs) : i < j => evs[i] < evs[j]
    /\ CallsApart(pending)
    /\ InCalls(pending) \cap ToSet(evs) = {}

\* A flush that leaves everything where it is.
LEMMA NothingMoved ==
    ASSUME NEW evs, NEW pending, NEW taken, Apart(evs, pending),
           events' = evs, calls' = pending, delivered' = taken, lost' = lost
    PROVE  Moved(evs, pending, taken)
<1>1. {} \in SUBSET ToSet(evs)
  OBVIOUS
<1>2. QED
  BY <1>1 DEF Moved, Apart

\* SubscriberTwoway::flush() and SubscriberOneway::flush().
LEMMA PrefixMoved ==
    ASSUME NEW evs, NEW pending, NEW taken, Apart(evs, pending), rec.kind # "batch",
           NEW n \in 0..Len(evs), NEW queued \in SUBSET (1..n),
           events' = Suffix(evs, n), AddsCalls(calls', pending, evs, queued),
           delivered' = taken \cup {evs[i] : i \in (1..n) \ queued}, lost' = lost,
           rec.kind # "oneway" => queued = 1..n
    PROVE  Moved(evs, pending, taken)
<1> DEFINE N == {evs[i] : i \in queued}
           T == {evs[i] : i \in (1..n) \ queued}
<1>1. evs \in Seq(Nat) /\ \A i, j \in 1..Len(evs) : i < j => evs[i] < evs[j]
  BY DEF Apart
<1>2. /\ N \in SUBSET ToSet(evs) /\ T \in SUBSET ToSet(evs) /\ N \cap T = {}
      /\ ToSet(events') = ToSet(evs) \ (N \cup T)
  BY <1>1, FirstEvents
<1>3. \A i \in queued : evs[i] \in ToSet(evs)
  BY <1>2
<1>4. InCalls(calls') = InCalls(pending) \cup N /\ CallsApart(calls')
  BY <1>3, CallsOfEvents DEF Apart
<1>5. rec.kind # "oneway" => T = {}
  OBVIOUS
<1>6. delivered' = taken \cup T
  OBVIOUS
<1> HIDE DEF N, T
<1>7. {} \in SUBSET ToSet(evs) /\ N \cap {} = {} /\ T \cap {} = {}
      /\ N \cup T \cup {} = N \cup T /\ lost' = lost \cup {}
  OBVIOUS
<1>8. QED
  BY <1>2, <1>4, <1>5, <1>6, <1>7 DEF Moved

\* SubscriberLink::flush().
LEMMA LinkMoved ==
    ASSUME NEW out, NEW evs, NEW pending, NEW taken, Apart(evs, pending),
           rec.kind = "link", FlushLink(out, evs, pending, taken)
    PROVE  Moved(evs, pending, taken)
<1>1. CASE out > 0
  BY <1>1, NothingMoved DEF FlushLink
<1>2. CASE ~(out > 0)
  <2> PICK k \in 0..Len(evs) : \E at \in [1..k -> 1..Len(evs)] :
          LET kept == [i \in 1..k |-> evs[at[i]]] IN
          /\ events' = <<>>
          /\ calls' = IF k = 0 THEN pending ELSE pending \cup {kept}
          /\ lost' = lost \cup (ToSet(evs) \ ToSet(kept))
    BY <1>2 DEF FlushLink
  <2>1. PICK at \in [1..k -> 1..Len(evs)] :
          LET kept == [i \in 1..k |-> evs[at[i]]] IN
          /\ events' = <<>>
          /\ calls' = IF k = 0 THEN pending ELSE pending \cup {kept}
          /\ lost' = lost \cup (ToSet(evs) \ ToSet(kept))
    OBVIOUS
  <2> DEFINE kept == [i \in 1..k |-> evs[at[i]]]
  <2>2. ToSet(kept) \subseteq ToSet(evs)
    <3>1. \A i \in 1..Len(evs) : evs[i] \in ToSet(evs)
      BY DEF Apart, ToSet
    <3>2. \A i \in 1..k : evs[at[i]] \in ToSet(evs)
      BY <3>1
    <3>3. QED
      BY <3>2 DEF ToSet
  <2>3. k = 0 => ToSet(kept) = {}
    BY DEF ToSet
  <2>4. /\ events' = <<>> /\ delivered' = taken
        /\ calls' = IF k = 0 THEN pending ELSE pending \cup {kept}
        /\ lost' = lost \cup (ToSet(evs) \ ToSet(kept))
    BY <2>1 DEF FlushLink
  <2> HIDE DEF kept
  <2>5. ToSet(events') = {}
    BY <2>4 DEF ToSet
  <2>6. InCalls(calls') = InCalls(pending) \cup ToSet(kept)
    BY <2>3, <2>4 DEF InCalls
  <2>7. CallsApart(calls')
    <3>1. \A c \in pending : ToSet(c) \subseteq InCalls(pending)
      BY DEF InCalls
    <3>2. \A c \in pending : ToSet(c) \cap ToSet(kept) = {} /\ ToSet(kept) \cap ToSet(c) = {}
      BY <2>2, <3>1 DEF Apart
    <3>3. QED
      BY <2>4, <3>2 DEF Apart, CallsApart
  <2> DEFINE L == ToSet(evs) \ ToSet(kept)
             N == ToSet(kept)
  <2>8. /\ N \in SUBSET ToSet(evs) /\ L \in SUBSET ToSet(evs) /\ {} \in SUBSET ToSet(evs)
        /\ N \cap {} = {} /\ N \cap L = {} /\ {} \cap L = {}
        /\ ToSet(events') = ToSet(evs) \ (N \cup {} \cup L)
        /\ delivered' = taken \cup {} /\ lost' = lost \cup L
        /\ InCalls(calls') = InCalls(pending) \cup N
    BY <2>2, <2>4, <2>5, <2>6
  <2> HIDE DEF L, N
  <2>9. QED
    BY <2>7, <2>8 DEF Moved
<1>3. QED
  BY <1>1, <1>2

\* flush() of every class.
LEMMA FlushMoves ==
    ASSUME NEW out, NEW evs, NEW pending, NEW taken, NEW p,
           FlushPre(out, evs, pending, taken, p), Apart(evs, pending),
           Flush(out, evs, pending, taken)
    PROVE  Moved(evs, pending, taken)
<1>1. CASE FlushNothing(out, evs, pending, taken)
  BY <1>1, NothingMoved DEF FlushNothing
<1>2. CASE rec.kind = "twoway" /\ FlushTwoway(out, evs, pending, taken)
  <2> DEFINE n == Smaller(rec.maxOutstanding - out, Len(evs))
  <2>1. n \in 0..Len(evs)
    <3>1. /\ rec.maxOutstanding \in Nat /\ out \in Nat /\ out <= rec.maxOutstanding
          /\ Len(evs) \in Nat
      BY <1>2, RecordsAssumption DEF FlushPre, Counted
    <3>2. QED
      BY <3>1 DEF Smaller
  <2>2. /\ events' = Suffix(evs, n) /\ AddsCalls(calls', pending, evs, 1..n)
        /\ delivered' = taken /\ lost' = lost
    BY <1>2 DEF FlushTwoway, AddsCalls
  <2> HIDE DEF n
  <2>3. delivered' = taken \cup {evs[i] : i \in (1..n) \ (1..n)}
    BY <2>2
  <2>4. 1..n \in SUBSET (1..n)
    OBVIOUS
  <2>5. QED
    BY <1>2, <2>1, <2>2, <2>3, <2>4, PrefixMoved
<1>3. CASE rec.kind = "oneway" /\ FlushOneway(out, evs, pending, taken)
  <2> PICK n \in 0..Len(evs) : \E queued \in SUBSET (1..n) :
          /\ events' = Suffix(evs, n) /\ AddsCalls(calls', pending, evs, queued)
          /\ delivered' = taken \cup {evs[i] : i \in (1..n) \ queued} /\ lost' = lost
    BY <1>3 DEF FlushOneway, AddsCalls
  <2>1. QED
    BY <1>3, PrefixMoved
<1>4. CASE rec.kind = "batch" /\ FlushBatch(out, evs, pending, taken)
  BY <1>4, NothingMoved DEF FlushBatch
<1>5. CASE rec.kind = "link" /\ FlushLink(out, evs, pending, taken)
  BY <1>5, LinkMoved
<1>6. QED
  BY <1>1, <1>2, <1>3, <1>4, <1>5 DEF Flush

\* A flush keeps the division.
LEMMA MovedDivided ==
    ASSUME NEW all, NEW f, NEW evs, NEW pending, NEW taken,
           Divided(all, ToSet(evs), f, InCalls(pending), taken, lost),
           Moved(evs, pending, taken)
    PROVE  /\ Divided(all, ToSet(events'), f, InCalls(calls'), delivered', lost')
           /\ CallsApart(calls')
<1> DEFINE A == ToSet(evs)
           C == InCalls(pending)
<1>1. PICK N, T, L \in SUBSET A :
        /\ N \cap T = {} /\ N \cap L = {} /\ T \cap L = {}
        /\ ToSet(events') = A \ (N \cup T \cup L)
        /\ InCalls(calls') = C \cup N
        /\ delivered' = taken \cup T
        /\ lost' = lost \cup L
        /\ CallsApart(calls')
  BY DEF Moved
<1>2. Divided(all, A, f, C, taken, lost)
  OBVIOUS
<1> HIDE DEF A, C
<1>3. Divided(all, A \ (N \cup T \cup L), f, C \cup N, taken \cup T, lost \cup L)
  <2>1. all = (A \ (N \cup T \cup L)) \cup f \cup (C \cup N) \cup (taken \cup T) \cup (lost \cup L)
    BY <1>1, <1>2 DEF Divided
  <2>2. /\ (A \ (N \cup T \cup L)) \cap f = {}
        /\ (A \ (N \cup T \cup L)) \cap (C \cup N) = {}
        /\ (A \ (N \cup T \cup L)) \cap (taken \cup T) = {}
        /\ (A \ (N \cup T \cup L)) \cap (lost \cup L) = {}
    BY <1>1, <1>2 DEF Divided
  <2>3. /\ f \cap (C \cup N) = {} /\ f \cap (taken \cup T) = {} /\ f \cap (lost \cup L) = {}
    BY <1>1, <1>2 DEF Divided
  <2>4. /\ (C \cup N) \cap (taken \cup T) = {} /\ (C \cup N) \cap (lost \cup L) = {}
        /\ (taken \cup T) \cap (lost \cup L) = {}
    BY <1>1, <1>2 DEF Divided
  <2>5. QED
    BY <2>1, <2>2, <2>3, <2>4 DEF Divided
<1>4. QED
  BY <1>1, <1>3

\* A callback takes the events of its call out of the calls.
LEMMA CallOut ==
    ASSUME PlacesInv, NEW c \in calls
    PROVE  /\ CallsApart(calls \ {c})
           /\ InCalls(calls \ {c}) \subseteq InCalls(calls)
           /\ Divided(1..published, ToSet(events), ToSet(flushing), InCalls(calls \ {c}),
                      delivered \cup ToSet(c), lost)
           /\ Divided(1..published, ToSet(events), ToSet(flushing), InCalls(calls \ {c}),
                      delivered, lost \cup ToSet(c))
<1>1. CallsApart(calls \ {c})
  BY DEF PlacesInv, CallsApart
<1>2. InCalls(calls \ {c}) = InCalls(calls) \ ToSet(c) /\ ToSet(c) \subseteq InCalls(calls)
  <2>1. ToSet(c) \subseteq InCalls(calls)
    BY DEF InCalls
  <2>2. \A d \in calls \ {c} : ToSet(d) \cap ToSet(c) = {}
    BY DEF PlacesInv, CallsApart
  <2>3. InCalls(calls \ {c}) \subseteq InCalls(calls) \ ToSet(c)
    BY <2>2 DEF InCalls
  <2>4. InCalls(calls) \ ToSet(c) \subseteq InCalls(calls \ {c})
    BY DEF InCalls
  <2>5. QED
    BY <2>1, <2>3, <2>4
<1> DEFINE C == InCalls(calls)
           S == ToSet(c)
           A == ToSet(events)
           F == ToSet(flushing)
           P == 1..published
<1>3. Divided(P, A, F, C, delivered, lost) /\ S \subseteq C
  BY <1>2 DEF PlacesInv
<1> HIDE DEF C, S, A, F, P
<1>4. Divided(P, A, F, C \ S, delivered \cup S, lost)
  BY <1>3 DEF Divided
<1>5. Divided(P, A, F, C \ S, delivered, lost \cup S)
  BY <1>3 DEF Divided
<1>6. QED
  BY <1>1, <1>2, <1>4, <1>5 DEF C, S, A, F, P

\* Before a flush by response() or sent() nothing is in two places.
LEMMA ApartBefore ==
    ASSUME IInv, PlacesInv, NEW pending, CallsApart(pending),
           InCalls(pending) \subseteq InCalls(calls)
    PROVE  Apart(events, pending)
BY DEF IInv, TypeOK, Consistent, Sorted, PlacesInv, Divided, Apart

\* queue() puts the new events into the queue.
LEMMA QueuePlaces ==
    ASSUME IInv, PlacesInv, NEW k \in 1..MaxBurst, Queue(k)
    PROVE  /\ PlacesInv'
           /\ InCalls(calls') \cup ToSet(events') \subseteq
                InCalls(calls) \cup ToSet(events) \cup (published + 1)..(published + k)
           /\ rec.kind # "oneway" => delivered' = delivered
<1> DEFINE evs == events \o [i \in 1..k |-> published + i]
           new == (published + 1)..(published + k)
<1>1. /\ k \in Nat /\ published \in Nat
      /\ published' = published + k
      /\ Flush(outstanding, evs, calls, delivered)
      /\ UNCHANGED <<rec, flushing>>
  BY BoundsAssumption DEF IInv, TypeOK, Queue
<1>2. /\ evs \in Seq(Nat) /\ ToSet(evs) = ToSet(events) \cup new
      /\ rec.kind # "batch" => Consistent(evs, calls, published + k)
  BY QueueAppends
<1>3. 1..(published + k) = (1..published) \cup new /\ (1..published) \cap new = {}
  BY <1>1
<1> HIDE DEF evs, new
<1>4. FlushPre(outstanding, evs, calls, delivered, published + k)
  <2>1. Counted(outstanding, calls, timer)
    BY DEF IInv, OutstandingCounted, Counted
  <2>2. QED
    BY <1>1, <1>2, <2>1 DEF IInv, TypeOK, FlushPre
<1>5. Divided(1..(published + k), ToSet(evs), ToSet(flushing), InCalls(calls), delivered, lost)
  <2> DEFINE A == ToSet(events)
             F == ToSet(flushing)
             C == InCalls(calls)
             P == 1..published
  <2>1. Divided(P, A, F, C, delivered, lost) /\ P \cap new = {}
    BY <1>3 DEF PlacesInv
  <2> HIDE DEF A, F, C, P
  <2>2. Divided(P \cup new, A \cup new, F, C, delivered, lost)
    BY <2>1 DEF Divided
  <2>3. QED
    BY <1>2, <1>3, <2>2 DEF A, F, C, P
<1>6. Apart(evs, calls)
  BY <1>2, <1>5 DEF Apart, PlacesInv, Divided, Consistent, Sorted
<1>7. Moved(evs, calls, delivered)
  BY <1>1, <1>4, <1>6, FlushMoves
<1>8. PlacesInv'
  BY <1>1, <1>5, <1>7, MovedDivided DEF PlacesInv
<1>9. /\ InCalls(calls') \cup ToSet(events') \subseteq InCalls(calls) \cup ToSet(evs)
      /\ rec.kind # "oneway" => delivered' = delivered
  BY <1>7 DEF Moved
<1>10. QED
  BY <1>2, <1>8, <1>9 DEF new

\* response() and sent() deliver the events of their call.
LEMMA TakenPlaces ==
    ASSUME IInv, PlacesInv, NEW c \in calls, Response(c) \/ Sent(c)
    PROVE  /\ PlacesInv'
           /\ InCalls(calls') \cup ToSet(events') \subseteq InCalls(calls \ {c}) \cup ToSet(events)
           /\ rec.kind # "oneway" => delivered' = delivered \cup ToSet(c)
<1>1. rec.kind # "batch" /\ UNCHANGED <<rec, flushing, published>>
  BY DEF Response, Sent
<1>2. /\ CallsApart(calls \ {c})
      /\ InCalls(calls \ {c}) \subseteq InCalls(calls)
      /\ Divided(1..published, ToSet(events), ToSet(flushing), InCalls(calls \ {c}),
                 delivered \cup ToSet(c), lost)
  BY CallOut
<1>3. \/ /\ calls' = calls \ {c} /\ delivered' = delivered \cup ToSet(c)
         /\ UNCHANGED <<events, lost>>
      \/ Flush(outstanding - 1, events, calls \ {c}, delivered \cup ToSet(c))
  <2>1. CASE Response(c)
    BY <2>1 DEF Response
  <2>2. CASE Sent(c)
    <3>1. outstanding = 1 => outstanding - 1 = 0
      OBVIOUS
    <3>2. QED
      BY <2>2, <3>1 DEF Sent
  <2>3. QED
    BY <2>1, <2>2
<1>4. CASE /\ calls' = calls \ {c} /\ delivered' = delivered \cup ToSet(c)
           /\ UNCHANGED <<events, lost>>
  BY <1>1, <1>2, <1>4 DEF PlacesInv
<1>5. CASE Flush(outstanding - 1, events, calls \ {c}, delivered \cup ToSet(c))
  <2>1. /\ c \in Seq(Nat) /\ ToSet(c) \in SUBSET Nat
        /\ outstanding - 1 \in Nat
        /\ Counted(outstanding - 1, calls \ {c}, timer)
        /\ Consistent(events, calls \ {c}, published)
    BY <1>1, CallRemoved
  <2>2. FlushPre(outstanding - 1, events, calls \ {c}, delivered \cup ToSet(c), published)
    <3>1. /\ calls \ {c} \in SUBSET Seq(Nat)
          /\ delivered \cup ToSet(c) \in SUBSET Nat
          /\ published \in Nat /\ lost \in SUBSET Nat
      <4>1. calls \ {c} \in SUBSET Seq(Nat)
        BY DEF IInv, TypeOK
      <4>2. delivered \cup ToSet(c) \in SUBSET Nat
        BY <2>1 DEF IInv, TypeOK
      <4>3. published \in Nat /\ lost \in SUBSET Nat
        BY BoundsAssumption DEF IInv, TypeOK
      <4>4. QED
        BY <4>1, <4>2, <4>3
    <3>2. QED
      BY <1>1, <2>1, <3>1 DEF IInv, TypeOK, FlushPre
  <2>3. Apart(events, calls \ {c})
    BY <1>2, ApartBefore
  <2>4. Moved(events, calls \ {c}, delivered \cup ToSet(c))
    BY <1>5, <2>2, <2>3, FlushMoves
  <2>5. PlacesInv'
    BY <1>1, <1>2, <2>4, MovedDivided DEF PlacesInv
  <2>6. /\ InCalls(calls') \cup ToSet(events') \subseteq InCalls(calls \ {c}) \cup ToSet(events)
        /\ rec.kind # "oneway" => delivered' = delivered \cup ToSet(c)
    BY <2>4 DEF Moved
  <2>7. QED
    BY <2>5, <2>6
<1>6. QED
  BY <1>3, <1>4, <1>5

\* error(): the events of the call and of the queue are lost.
LEMMA ErrorPlaces ==
    ASSUME IInv, PlacesInv, NEW hard, NEW gone, gone \in Seq(Nat), Error(hard, gone),
           CallsApart(calls'),
           Divided(1..published, ToSet(events), ToSet(flushing'), InCalls(calls'),
                   delivered, lost \cup ToSet(gone))
    PROVE  PlacesInv'
<1>1. events' = <<>> /\ UNCHANGED <<published, delivered>>
  BY ErrorEmpties
<1>2. ToSet(events') = {}
  BY <1>1 DEF ToSet
<1>3. lost' = (lost \cup ToSet(gone)) \cup ToSet(events)
  BY <1>2 DEF Error
<1> DEFINE A == ToSet(events)
           L == lost \cup ToSet(gone)
           P == 1..published
           F == ToSet(flushing')
           C == InCalls(calls')
<1>4. Divided(P, A, F, C, delivered, L)
  OBVIOUS
<1> HIDE DEF A, L, P, F, C
<1>5. Divided(P, {}, F, C, delivered, L \cup A)
  BY <1>4 DEF Divided
<1>6. QED
  BY <1>1, <1>2, <1>3, <1>5 DEF PlacesInv, A, L, P, F, C

\* The batch-flusher thread takes the queue, and makes a call of it.
LEMMA FlusherPlaces ==
    ASSUME IInv, PlacesInv, Flusher
    PROVE  PlacesInv'
<1>1. ToSet(<<>>) = {}
  BY DEF ToSet
<1>2. CASE DoFlush
  <2>1. /\ ToSet(flushing) = {} /\ UNCHANGED <<calls, published, delivered, lost>>
        /\ \/ ToSet(flushing') = ToSet(events) /\ ToSet(events') = {}
           \/ ToSet(flushing') = {} /\ events' = events
    BY <1>1, <1>2 DEF DoFlush, history
  <2>2. QED
    BY <2>1 DEF PlacesInv, Divided
<1>3. CASE BatchFlush
  <2>1. /\ calls' = calls \cup {flushing} /\ ToSet(flushing') = {}
        /\ UNCHANGED <<events, published, delivered, lost>>
    BY <1>1, <1>3 DEF BatchFlush, queueVars, history
  <2>2. InCalls(calls') = InCalls(calls) \cup ToSet(flushing)
    BY <2>1 DEF InCalls
  <2>3. CallsApart(calls')
    <3>1. \A c \in calls : ToSet(c) \subseteq InCalls(calls)
      BY DEF InCalls
    <3>2. \A c \in calls : ToSet(c) \cap ToSet(flushing) = {} /\ ToSet(flushing) \cap ToSet(c) = {}
      BY <3>1 DEF PlacesInv, Divided
    <3>3. QED
      BY <2>1, <3>2 DEF PlacesInv, CallsApart
  <2>4. QED
    BY <2>1, <2>2, <2>3 DEF PlacesInv, Divided
<1>4. CASE \E hard \in BOOLEAN : BatchThrew(hard)
  <2>1. PICK hard \in BOOLEAN : BatchThrew(hard)
    BY <1>4
  <2>2. /\ ToSet(flushing') = {} /\ Error(hard, flushing) /\ calls' = calls
    BY <1>1, <2>1 DEF BatchThrew
  <2>3. flushing \in Seq(Nat)
    BY DEF IInv, TypeOK
  <2>4. Divided(1..published, ToSet(events), {}, InCalls(calls), delivered,
                lost \cup ToSet(flushing))
    BY DEF PlacesInv, Divided
  <2>5. QED
    BY <2>2, <2>3, <2>4, ErrorPlaces DEF PlacesInv
<1>5. QED
  BY <1>2, <1>3, <1>4 DEF Flusher

\* A callback ends its call in one of four ways.
LEMMA CallbackPlaces ==
    ASSUME IInv, PlacesInv, Callback
    PROVE  PlacesInv'
<1>1. PICK c \in calls :
        \/ Response(c) \/ Sent(c) \/ BatchSent(c)
        \/ \E hard \in BOOLEAN : CallFailed(c, hard) \/ BatchFailed(c, hard)
  BY DEF Callback
<1>2. CASE Response(c) \/ Sent(c)
  BY <1>2, TakenPlaces
<1>3. CASE BatchSent(c)
  <2>1. /\ calls' = calls \ {c} /\ delivered' = delivered \cup ToSet(c)
        /\ UNCHANGED <<events, flushing, published, lost>>
    BY <1>3 DEF BatchSent, queueVars
  <2>2. QED
    BY <2>1, CallOut DEF PlacesInv
<1>4. CASE \E hard \in BOOLEAN : CallFailed(c, hard) \/ BatchFailed(c, hard)
  <2>1. PICK hard \in BOOLEAN : /\ calls' = calls \ {c} /\ Error(hard, c)
                                /\ flushing' = flushing
    BY <1>4 DEF CallFailed, BatchFailed
  <2>2. c \in Seq(Nat)
    BY DEF IInv, TypeOK
  <2>3. /\ CallsApart(calls')
        /\ Divided(1..published, ToSet(events), ToSet(flushing'), InCalls(calls'),
                   delivered, lost \cup ToSet(c))
    BY <2>1, CallOut
  <2>4. QED
    BY <2>1, <2>2, <2>3, ErrorPlaces
<1>5. QED
  BY <1>1, <1>2, <1>3, <1>4

\* The other steps leave the events where they are.
LEMMA QuietPlaces ==
    ASSUME PlacesInv, UNCHANGED <<events, flushing, calls, published, delivered, lost>>
    PROVE  PlacesInv'
BY DEF PlacesInv

LEMMA OtherSteps ==
    ASSUME DiscardIntervalOver \/ Topic \/ Stopper \/ UNCHANGED vars
    PROVE  UNCHANGED <<rec, events, flushing, calls, published, delivered, lost>>
BY DEF DiscardIntervalOver, Topic, QueueErrored, Reap, ReapDone, ReapFailed, Update, Stopper,
       ShutdownEnter, ShutdownWake, vars, queueVars, sendVars, history

\* Every step keeps PlacesInv.
LEMMA NextPlacesInv == IInv /\ PlacesInv /\ [Next]_vars => PlacesInv'
<1> SUFFICES ASSUME IInv, PlacesInv, [Next]_vars
             PROVE  PlacesInv'
  OBVIOUS
<1>1. CASE Publisher
  BY <1>1, QueuePlaces DEF Publisher
<1>2. CASE Callback
  BY <1>2, CallbackPlaces
<1>3. CASE Flusher
  BY <1>3, FlusherPlaces
<1>4. CASE DiscardIntervalOver \/ Topic \/ Stopper \/ UNCHANGED vars
  BY <1>4, OtherSteps, QuietPlaces
<1>5. QED
  BY <1>1, <1>2, <1>3, <1>4 DEF Next

LEMMA InitPlacesInv == Init => PlacesInv
<1> SUFFICES ASSUME Init
             PROVE  PlacesInv
  OBVIOUS
<1>1. /\ ToSet(events) = {} /\ ToSet(flushing) = {} /\ InCalls(calls) = {}
      /\ delivered = {} /\ lost = {} /\ CallsApart(calls) /\ 1..published = {}
  BY DEF Init, ToSet, InCalls, CallsApart
<1>2. QED
  BY <1>1 DEF PlacesInv, Divided

\* No event that queue() accepted is forgotten, and none is in two places:
\* not in two calls, not queued again after it was sent.
THEOREM NoEventForgotten == Spec => []EventsConserved
<1>1. Spec => []PlacesInv
  BY InitPlacesInv, NextPlacesInv, Invariance, PTL DEF Spec
<1>2. QED
  BY <1>1, PlacesConserve, PTL

-----------------------------------------------------------------------------
(***************************************************************************)
(* "ordered": with one call at a time, what was delivered is older than    *)
(* what is in the call and in the queue.                                   *)
(***************************************************************************)

OneAtATime == rec.kind \in {"twoway", "link"} /\ rec.maxOutstanding = 1

InOrder ==
    OneAtATime =>
        \A f \in delivered : \A e \in InCalls(calls) \cup ToSet(events) : f < e

OrderInv == PlacesInv /\ InOrder

\* Nothing that was delivered is a number of an event still to come.
LEMMA DeliveredPublished ==
    ASSUME PlacesInv, NEW f \in delivered
    PROVE  f \in 1..published
BY DEF PlacesInv, Divided

\* response() of the one call: its events are older than those of the queue.
LEMMA ResponseOrder ==
    ASSUME IInv, OrderInv, OneAtATime, NEW c \in calls, Response(c)
    PROVE  /\ InOrder'
           /\ \A e \in delivered' \ delivered, f \in delivered : f < e
<1>1. /\ InCalls(calls') \cup ToSet(events') \subseteq InCalls(calls \ {c}) \cup ToSet(events)
      /\ delivered' = delivered \cup ToSet(c)
  BY TakenPlaces DEF OrderInv, OneAtATime
<1>2. InCalls(calls \ {c}) = {}
  BY OnlyCall DEF OneAtATime, InCalls
<1>3. ToSet(c) \subseteq InCalls(calls)
  BY DEF InCalls
<1>4. \A f \in delivered : \A e \in ToSet(c) \cup ToSet(events) : f < e
  BY <1>3 DEF OrderInv, InOrder
<1>5. \A f \in ToSet(c) : \A e \in ToSet(events) : f < e
  <2>1. Older(events, calls, published) /\ c \in Seq(Nat) /\ events \in Seq(Nat)
    BY DEF IInv, TypeOK, Consistent, OneAtATime
  <2>2. \A i \in 1..Len(c) : \A j \in 1..Len(events) : c[i] < events[j]
    BY <2>1 DEF Older
  <2>3. DOMAIN c = 1..Len(c) /\ DOMAIN events = 1..Len(events)
    BY <2>1
  <2>4. QED
    BY <2>2, <2>3 DEF ToSet
<1>6. \A f \in delivered' : \A e \in InCalls(calls') \cup ToSet(events') : f < e
  BY <1>1, <1>2, <1>4, <1>5
<1>7. QED
  BY <1>1, <1>4, <1>6 DEF InOrder

\* error() delivers nothing and adds no call.
LEMMA ErrorOrder ==
    ASSUME IInv, OrderInv, OneAtATime, NEW c \in calls, NEW hard, CallFailed(c, hard)
    PROVE  InOrder' /\ delivered' = delivered
<1>1. calls' = calls \ {c} /\ Error(hard, c) /\ c \in Seq(Nat)
  BY DEF CallFailed, IInv, TypeOK
<1>2. events' = <<>> /\ delivered' = delivered
  BY <1>1, ErrorEmpties
<1>3. InCalls(calls') \subseteq InCalls(calls) /\ ToSet(events') = {}
  BY <1>1, <1>2 DEF InCalls, ToSet
<1>4. QED
  BY <1>2, <1>3 DEF OrderInv, InOrder, OneAtATime

\* queue() adds younger events only.
LEMMA QueueOrder ==
    ASSUME IInv, OrderInv, OneAtATime, NEW k \in 1..MaxBurst, Queue(k)
    PROVE  InOrder' /\ delivered' = delivered
<1>1. /\ InCalls(calls') \cup ToSet(events') \subseteq
           InCalls(calls) \cup ToSet(events) \cup (published + 1)..(published + k)
      /\ delivered' = delivered
  BY QueuePlaces DEF OrderInv, OneAtATime
<1>2. published \in Nat /\ k \in Nat
  BY BoundsAssumption DEF IInv, TypeOK
<1>3. \A f \in delivered : f \in 1..published
  BY DeliveredPublished DEF OrderInv
<1>4. \A f \in delivered : \A e \in (published + 1)..(published + k) : f < e
  BY <1>2, <1>3
<1>5. QED
  BY <1>1, <1>4 DEF OrderInv, InOrder, OneAtATime

\* Every step keeps OrderInv, and what it delivers is younger than what was
\* delivered before.
LEMMA NextOrderInv ==
    IInv /\ OrderInv /\ [Next]_vars =>
        OrderInv' /\ (OneAtATime => \A e \in delivered' \ delivered, f \in delivered : f < e)
<1> SUFFICES ASSUME IInv, OrderInv, [Next]_vars
             PROVE  OrderInv' /\ (OneAtATime =>
                        \A e \in delivered' \ delivered, f \in delivered : f < e)
  OBVIOUS
<1>1. PlacesInv'
  BY NextPlacesInv DEF OrderInv
<1>2. OneAtATime' = OneAtATime
  <2>1. rec' = rec
    <3>1. CASE Publisher
      BY <3>1 DEF Publisher, Queue
    <3>2. CASE Callback
      BY <3>2 DEF Callback, Response, Sent, BatchSent, CallFailed, BatchFailed, Error
    <3>3. CASE Flusher
      BY <3>3 DEF Flusher, DoFlush, BatchFlush, BatchThrew, Error
    <3>4. CASE DiscardIntervalOver \/ Topic \/ Stopper \/ UNCHANGED vars
      BY <3>4, OtherSteps
    <3>5. QED
      BY <3>1, <3>2, <3>3, <3>4 DEF Next
  <2>2. QED
    BY <2>1 DEF OneAtATime
<1>3. CASE ~OneAtATime
  BY <1>1, <1>2, <1>3 DEF OrderInv, InOrder
<1>4. CASE OneAtATime
  <2>1. SUFFICES InOrder' /\ \A e \in delivered' \ delivered, f \in delivered : f < e
    BY <1>1 DEF OrderInv
  <2>2. CASE Publisher
    BY <1>4, <2>2, QueueOrder DEF Publisher
  <2>3. CASE Callback
    <3>1. PICK c \in calls : Response(c) \/ \E hard \in BOOLEAN : CallFailed(c, hard)
      BY <1>4, <2>3 DEF Callback, Sent, BatchSent, BatchFailed, OneAtATime
    <3>2. CASE Response(c)
      BY <1>4, <3>2, ResponseOrder
    <3>3. CASE \E hard \in BOOLEAN : CallFailed(c, hard)
      BY <1>4, <3>3, ErrorOrder
    <3>4. QED
      BY <3>1, <3>2, <3>3
  <2>4. CASE Flusher
    BY <1>4, <2>4 DEF Flusher, DoFlush, BatchFlush, BatchThrew, IInv, OnlyBatchesFlush, OneAtATime
  <2>5. CASE DiscardIntervalOver \/ Topic \/ Stopper \/ UNCHANGED vars
    <3>1. UNCHANGED <<rec, events, calls, delivered>>
      BY <2>5, OtherSteps
    <3>2. QED
      BY <3>1 DEF OrderInv, InOrder, OneAtATime
  <2>6. QED
    BY <2>2, <2>3, <2>4, <2>5 DEF Next
<1>5. QED
  BY <1>3, <1>4

\* A subscriber with one outstanding call confirms the events in the order
\* in which they were published, whatever fails in between.
THEOREM DeliveredInOrder == Spec => OrderedDelivery
<1>1. Init => OrderInv
  <2>1. Init => InOrder
    BY DEF Init, InOrder
  <2>2. QED
    BY <2>1, InitPlacesInv DEF OrderInv
<1>2. IInv /\ OrderInv /\ [Next]_vars => OrderInv'
  BY NextOrderInv
<1>3. IInv /\ OrderInv /\ [Next]_vars =>
        [rec.kind \in {"twoway", "link"} /\ rec.maxOutstanding = 1 =>
           \A e \in delivered' \ delivered, f \in delivered : f < e]_vars
  BY NextOrderInv DEF OneAtATime
<1>4. QED
  BY <1>1, <1>2, <1>3, Invariance, PTL DEF Spec, OrderedDelivery
=============================================================================
