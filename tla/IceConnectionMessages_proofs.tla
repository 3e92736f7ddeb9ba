-------------------- MODULE IceConnectionMessages_proofs ---------------------
(***************************************************************************)
(* Lemmas about the messages of IceConnection: what keeps a sequence of    *)
(* messages in order, and what writing, sending, reading and finishing do  *)
(* to the messages in transit and to the send queues.                      *)
(***************************************************************************)
EXTENDS IceConnection, FiniteSetTheorems, SequenceTheorems, TLAPS

-----------------------------------------------------------------------------
(***************************************************************************)
(* Sequences of messages                                                   *)
(***************************************************************************)

\* No message of the given types occurs twice.
Once(t, types) == \A i, j \in DOMAIN t : t[i] = t[j] /\ t[i].type \in types => i = j

\* No message of another kind is sent after a close message, and no request
\* and no reply occurs twice.
Orderly(t) ==
    /\ \A i, j \in DOMAIN t : i < j /\ t[i] = Close => t[j] = Close
    /\ Once(t, {"request", "reply"})

\* The replies to the calls in R come before any close message.
Answers(t, R) ==
    \A i \in DOMAIN t : t[i] = Close =>
        \A c \in R : \E j \in DOMAIN t : j < i /\ t[j] = Reply(c)

\* The two ends.
LEMMA PeerOfPeer ==
    \A e \in Ends : /\ Peer(e) \in Ends /\ Peer(e) # e /\ Peer(Peer(e)) = e
                    /\ \A f \in Ends : f = e \/ f = Peer(e)
BY DEF Ends, Peer

\* The kinds of messages differ, and their names tell the call.
LEMMA MessageKinds ==
    /\ \A c \in Calls : Request(c) \in Messages /\ Reply(c) \in Messages
    /\ Close \in Messages /\ Validate \in Messages
    /\ \A c : Request(c).type = "request" /\ Request(c).call = c
    /\ \A c : Reply(c).type = "reply" /\ Reply(c).call = c
    /\ Close.type = "close" /\ Validate.type = "validate"
    /\ \A m \in Messages : /\ m.type = "request" => m.call \in Calls /\ m = Request(m.call)
                           /\ m.type = "reply" => m.call \in Calls /\ m = Reply(m.call)
                           /\ m.type = "close" => m = Close
BY DEF Request, Reply, Close, Validate, Messages

\* A sequence in two parts.
LEMMA Parts ==
    ASSUME NEW S, NEW s \in Seq(S), NEW n \in 0..Len(s)
    PROVE  /\ Prefix(s, n) \in Seq(S) /\ Len(Prefix(s, n)) = n
           /\ \A i \in 1..n : Prefix(s, n)[i] = s[i]
           /\ Suffix(s, n) \in Seq(S) /\ Len(Suffix(s, n)) = Len(s) - n
           /\ \A i \in 1..(Len(s) - n) : Suffix(s, n)[i] = s[n + i]
BY DEF Prefix, Suffix

LEMMA MessageParts ==
    \A s \in Seq(Messages) : \A n \in 0..Len(s) :
        /\ Prefix(s, n) \in Seq(Messages) /\ Len(Prefix(s, n)) = n
        /\ \A i \in 1..n : Prefix(s, n)[i] = s[i]
        /\ Suffix(s, n) \in Seq(Messages) /\ Len(Suffix(s, n)) = Len(s) - n
        /\ \A i \in 1..(Len(s) - n) : Suffix(s, n)[i] = s[n + i]
BY Parts

LEMMA JoiningMessages ==
    \A a, b, c \in Seq(Messages) : (a \o b) \o c = a \o (b \o c)
BY ConcatAssociative

\* Joined again the two parts are the sequence.
LEMMA PartsJoined ==
    ASSUME NEW S, NEW s \in Seq(S), NEW n \in 0..Len(s)
    PROVE  Prefix(s, n) \o Suffix(s, n) = s
<1>1. 1 \in 1..Len(s)+1 /\ n \in (1-1)..Len(s) /\ Len(s) \in n..Len(s)
  OBVIOUS
<1>2. SubSeq(s, 1, n) \o SubSeq(s, n + 1, Len(s)) = SubSeq(s, 1, Len(s))
  BY <1>1, ConcatAdjacentSubSeq
<1>3. SubSeq(s, 1, Len(s)) = s
  BY SubSeqFull
<1>4. QED
  BY <1>2, <1>3 DEF Prefix, Suffix

\* The messages of a sequence are its values.
LEMMA ElemsOf ==
    ASSUME NEW S, NEW s \in Seq(S)
    PROVE  /\ Len(s) \in Nat /\ DOMAIN s = 1..Len(s)
           /\ \A m : m \in Elems(s) <=> \E i \in 1..Len(s) : m = s[i]
           /\ Elems(s) \subseteq S
BY DEF Elems

\* The messages of a sequence with others behind it.
LEMMA ElemsJoined ==
    ASSUME NEW S, NEW s \in Seq(S), NEW t \in Seq(S)
    PROVE  \A m : m \in Elems(s \o t) <=> m \in Elems(s) \/ m \in Elems(t)
<1>1. /\ s \o t \in Seq(S) /\ Len(s \o t) = Len(s) + Len(t)
      /\ \A i \in 1..Len(s) + Len(t) :
            (s \o t)[i] = IF i <= Len(s) THEN s[i] ELSE t[i - Len(s)]
  BY ConcatProperties
<1> TAKE m
<1> DEFINE u == s \o t
<1>2. /\ Len(s) \in Nat /\ Len(t) \in Nat
      /\ m \in Elems(s) <=> \E i \in 1..Len(s) : m = s[i]
      /\ m \in Elems(t) <=> \E i \in 1..Len(t) : m = t[i]
  BY ElemsOf
<1>7. u \in Seq(S)
  BY <1>1
<1> HIDE DEF u
<1>8. m \in Elems(u) <=> \E i \in 1..Len(u) : m = u[i]
  BY <1>7, ElemsOf
<1>3. ASSUME NEW i \in 1..Len(u)
      PROVE  u[i] \in Elems(s) \/ u[i] \in Elems(t)
  <2>1. CASE i <= Len(s)
    BY <1>1, <1>2, <1>3, <2>1 DEF u, Elems
  <2>2. CASE i > Len(s)
    <3>1. i - Len(s) \in 1..Len(t) /\ u[i] = t[i - Len(s)]
      BY <1>1, <1>2, <2>2 DEF u
    <3>2. QED
      BY <3>1, ElemsOf
  <2>3. QED
    BY <1>2, <2>1, <2>2
<1>4. ASSUME NEW i \in 1..Len(s)
      PROVE  s[i] = u[i] /\ i \in 1..Len(u)
  BY <1>1, <1>2 DEF u
<1>5. ASSUME NEW i \in 1..Len(t)
      PROVE  t[i] = u[Len(s) + i] /\ Len(s) + i \in 1..Len(u)
  BY <1>1, <1>2 DEF u
<1>9. m \in Elems(u) => m \in Elems(s) \/ m \in Elems(t)
  BY <1>3, <1>8
<1>10. m \in Elems(s) \/ m \in Elems(t) => m \in Elems(u)
  BY <1>2, <1>4, <1>5, <1>8
<1>11. QED
  BY <1>9, <1>10 DEF u

\* The first message and the others.
LEMMA HeadAndTail ==
    ASSUME NEW S, NEW s \in Seq(S), s # <<>>
    PROVE  /\ Len(s) \in Nat \ {0} /\ s[1] = Head(s) /\ Head(s) \in S
           /\ Tail(s) \in Seq(S) /\ Len(Tail(s)) = Len(s) - 1
           /\ \A i \in 1..(Len(s) - 1) : Tail(s)[i] = s[i + 1]
           /\ Tail(s) = Suffix(s, 1)
           /\ \A m : m \in Elems(s) <=> m = Head(s) \/ m \in Elems(Tail(s))
<1>1. Len(s) \in Nat \ {0} /\ s[1] = Head(s)
  BY EmptySeq
<1>2. /\ Head(s) \in S /\ Tail(s) \in Seq(S) /\ Len(Tail(s)) = Len(s) - 1
      /\ \A i \in 1..Len(Tail(s)) : Tail(s)[i] = s[i + 1]
  BY HeadTailProperties
<1>3. Tail(s) = Suffix(s, 1)
  BY TailIsSubSeq DEF Suffix
<1>4. ASSUME NEW m
      PROVE  m \in Elems(s) <=> m = Head(s) \/ m \in Elems(Tail(s))
  <2>0. Tail(s) \in Seq(S)
    BY <1>2
  <2>1. /\ m \in Elems(s) <=> \E i \in 1..Len(s) : m = s[i]
        /\ m \in Elems(Tail(s)) <=> \E i \in 1..Len(Tail(s)) : m = Tail(s)[i]
    BY <2>0, ElemsOf
  <2>2. ASSUME NEW i \in 1..Len(s), i # 1
        PROVE  i - 1 \in 1..Len(Tail(s)) /\ s[i] = Tail(s)[i - 1]
    <3>1. i - 1 \in 1..Len(Tail(s)) /\ (i - 1) + 1 = i
      BY <1>1, <1>2, <2>2
    <3>2. QED
      BY <1>2, <3>1
  <2>3. \A i \in 1..Len(Tail(s)) : i + 1 \in 1..Len(s) /\ s[i + 1] = Tail(s)[i]
    BY <1>1, <1>2
  <2>4. 1 \in 1..Len(s)
    BY <1>1
  <2>5. m \in Elems(s) => m = Head(s) \/ m \in Elems(Tail(s))
    BY <1>1, <2>1, <2>2
  <2>6. m = Head(s) \/ m \in Elems(Tail(s)) => m \in Elems(s)
    BY <1>1, <2>1, <2>3, <2>4
  <2>7. QED
    BY <2>5, <2>6
<1>5. QED
  BY <1>1, <1>2, <1>3, <1>4

\* The calls of the requests in a sequence.
LEMMA RequestedAre ==
    ASSUME NEW s \in Seq(Messages)
    PROVE  /\ \A c : c \in Requested(s) <=> Request(c) \in Elems(s)
           /\ Requested(s) \subseteq Calls
<1>1. Elems(s) \subseteq Messages
  BY ElemsOf
<1>2. QED
  BY <1>1, MessageKinds DEF Requested

-----------------------------------------------------------------------------
(***************************************************************************)
(* What keeps a sequence of messages in order                              *)
(***************************************************************************)

\* Messages in the middle of t.
Segment(u, t, k) ==
    /\ k \in Nat /\ Len(u) + k <= Len(t)
    /\ \A i \in 1..Len(u) : u[i] = t[i + k]

\* The messages of a part are as orderly as those of the whole.
LEMMA SegmentOrderly ==
    ASSUME NEW t \in Seq(Messages), NEW u \in Seq(Messages), NEW k, Segment(u, t, k)
    PROVE  /\ Elems(u) \subseteq Elems(t)
           /\ Orderly(t) => Orderly(u)
           /\ \A types : Once(t, types) => Once(u, types)
<1>1. /\ Len(t) \in Nat /\ Len(u) \in Nat /\ k \in Nat
      /\ DOMAIN t = 1..Len(t) /\ DOMAIN u = 1..Len(u)
  BY ElemsOf DEF Segment
<1>2. \A i \in 1..Len(u) : i + k \in 1..Len(t) /\ u[i] = t[i + k]
  BY <1>1 DEF Segment
<1>3. ASSUME NEW i \in 1..Len(u), NEW j \in 1..Len(u)
      PROVE  /\ i + k \in 1..Len(t) /\ u[i] = t[i + k] /\ j + k \in 1..Len(t) /\ u[j] = t[j + k]
             /\ i < j => i + k < j + k
             /\ i + k = j + k => i = j
  BY <1>1, <1>2
<1>4. Elems(u) \subseteq Elems(t)
  BY <1>1, <1>2, ElemsOf DEF Elems
<1>5. ASSUME NEW types, Once(t, types)
      PROVE  Once(u, types)
  BY <1>1, <1>3, <1>5 DEF Once
<1>6. ASSUME Orderly(t)
      PROVE  Orderly(u)
  <2>1. \A i, j \in 1..Len(t) : i < j /\ t[i] = Close => t[j] = Close
    BY <1>1, <1>6 DEF Orderly
  <2>2. \A i, j \in 1..Len(u) : i < j /\ u[i] = Close => u[j] = Close
    <3>1. SUFFICES ASSUME NEW i \in 1..Len(u), NEW j \in 1..Len(u), i < j, u[i] = Close
          PROVE  u[j] = Close
      OBVIOUS
    <3>2. t[j + k] = Close
      BY <1>3, <2>1, <3>1
    <3>3. QED
      BY <1>3, <3>2
  <2>3. QED
    BY <1>1, <1>5, <1>6, <2>2 DEF Orderly
<1>7. QED
  BY <1>4, <1>5, <1>6

\* The beginning of a sequence still answers what the sequence answers.
LEMMA PrefixAnswers ==
    ASSUME NEW t \in Seq(Messages), NEW u \in Seq(Messages), Segment(u, t, 0),
           NEW R, NEW Q, Q \subseteq R, Answers(t, R)
    PROVE  Answers(u, Q)
<1>1. /\ Len(t) \in Nat /\ Len(u) \in Nat /\ Len(u) <= Len(t)
      /\ DOMAIN t = 1..Len(t) /\ DOMAIN u = 1..Len(u)
  BY ElemsOf DEF Segment
<1>2. \A i \in 1..Len(u) : i \in 1..Len(t) /\ u[i] = t[i]
  BY <1>1 DEF Segment
<1>3. SUFFICES ASSUME NEW i \in 1..Len(u), u[i] = Close, NEW c \in Q
               PROVE  \E j \in 1..Len(u) : j < i /\ u[j] = Reply(c)
  BY <1>1 DEF Answers
<1>4. PICK j \in 1..Len(t) : j < i /\ t[j] = Reply(c)
  BY <1>1, <1>2, <1>3 DEF Answers
<1>5. j \in 1..Len(u)
  BY <1>1, <1>4
<1>6. QED
  BY <1>2, <1>4, <1>5

\* When the first message has been read, what it answered is no longer asked.
LEMMA TailAnswers ==
    ASSUME NEW t \in Seq(Messages), t # <<>>, NEW R, NEW Q, Q \subseteq R,
           \A c \in Q : Head(t) # Reply(c), Answers(t, R)
    PROVE  Answers(Tail(t), Q)
<1>1. /\ Len(t) \in Nat \ {0} /\ t[1] = Head(t)
      /\ Tail(t) \in Seq(Messages) /\ Len(Tail(t)) = Len(t) - 1
      /\ \A i \in 1..(Len(t) - 1) : Tail(t)[i] = t[i + 1]
  BY HeadAndTail
<1>2. DOMAIN t = 1..Len(t) /\ DOMAIN Tail(t) = 1..(Len(t) - 1)
  BY <1>1, ElemsOf
<1>3. SUFFICES ASSUME NEW i \in 1..(Len(t) - 1), Tail(t)[i] = Close, NEW c \in Q
               PROVE  \E j \in 1..(Len(t) - 1) : j < i /\ Tail(t)[j] = Reply(c)
  BY <1>2 DEF Answers
<1>4. i + 1 \in 1..Len(t) /\ t[i + 1] = Close /\ c \in R
  BY <1>1, <1>3
<1>5. PICK j \in 1..Len(t) : j < i + 1 /\ t[j] = Reply(c)
  BY <1>2, <1>4 DEF Answers
<1>6. j # 1
  BY <1>1, <1>5
<1>7. j - 1 \in 1..(Len(t) - 1) /\ j - 1 < i /\ Tail(t)[j - 1] = t[j]
  BY <1>1, <1>5, <1>6
<1>8. QED
  BY <1>5, <1>7

\* A sequence with one message more.
LEMMA OneMore ==
    ASSUME NEW t \in Seq(Messages), NEW m \in Messages
    PROVE  LET u == t \o <<m>> IN
           /\ u \in Seq(Messages)
           /\ DOMAIN t = 1..Len(t) /\ DOMAIN u = 1..(Len(t) + 1) /\ Len(t) \in Nat
           /\ \A i \in 1..Len(t) : u[i] = t[i] /\ u[i] \in Elems(t)
           /\ u[Len(t) + 1] = m
           /\ \A i \in 1..(Len(t) + 1) : i \in 1..Len(t) \/ i = Len(t) + 1
           /\ \A x : x \in Elems(u) <=> x \in Elems(t) \/ x = m
<1>1. <<m>> \in Seq(Messages) /\ Len(<<m>>) = 1 /\ <<m>>[1] = m
  OBVIOUS
<1> DEFINE u == t \o <<m>>
<1>2. /\ u \in Seq(Messages) /\ Len(u) = Len(t) + 1
      /\ \A i \in 1..Len(t) + 1 : u[i] = IF i <= Len(t) THEN t[i] ELSE <<m>>[i - Len(t)]
  BY <1>1, ConcatProperties
<1>3. \A x : x \in Elems(<<m>>) <=> x = m
  BY <1>1 DEF Elems
<1>4. \A x : x \in Elems(u) <=> x \in Elems(t) \/ x = m
  BY <1>1, <1>3, ElemsJoined
<1> HIDE DEF u
<1>5. Len(t) \in Nat /\ DOMAIN t = 1..Len(t) /\ DOMAIN u = 1..(Len(t) + 1)
  BY <1>2, ElemsOf
<1>6. /\ \A i \in 1..Len(t) : u[i] = t[i] /\ u[i] \in Elems(t)
      /\ u[Len(t) + 1] = m
      /\ \A i \in 1..(Len(t) + 1) : i \in 1..Len(t) \/ i = Len(t) + 1
  BY <1>1, <1>2, <1>5, ElemsOf
<1>7. QED
  BY <1>2, <1>4, <1>5, <1>6 DEF u

\* A message behind others that it does not repeat.
LEMMA AppendOnce ==
    ASSUME NEW t \in Seq(Messages), NEW m \in Messages, NEW types, Once(t, types),
           m.type \in types => m \notin Elems(t)
    PROVE  Once(t \o <<m>>, types)
<1> DEFINE u == t \o <<m>>
<1>1. /\ DOMAIN t = 1..Len(t) /\ DOMAIN u = 1..(Len(t) + 1) /\ Len(t) \in Nat
      /\ \A i \in 1..Len(t) : u[i] = t[i] /\ u[i] \in Elems(t)
      /\ u[Len(t) + 1] = m
      /\ \A i \in 1..(Len(t) + 1) : i \in 1..Len(t) \/ i = Len(t) + 1
  BY OneMore
<1> HIDE DEF u
<1>2. ASSUME NEW i \in 1..(Len(t) + 1), NEW j \in 1..(Len(t) + 1), u[i] = u[j], u[i].type \in types
      PROVE  i = j
  <2>1. CASE i \in 1..Len(t) /\ j \in 1..Len(t)
    BY <1>1, <1>2, <2>1 DEF Once
  <2>2. CASE i = Len(t) + 1 \/ j = Len(t) + 1
    BY <1>1, <1>2, <2>2
  <2>3. QED
    BY <1>1, <2>1, <2>2
<1>3. QED
  BY <1>1, <1>2 DEF Once, u

\* A message behind others: only a close message follows a close message, and
\* no request and no reply is repeated.
LEMMA AppendOrderly ==
    ASSUME NEW t \in Seq(Messages), NEW m \in Messages, Orderly(t),
           Close \in Elems(t) => m = Close,
           m.type \in {"request", "reply"} => m \notin Elems(t)
    PROVE  Orderly(t \o <<m>>)
<1> DEFINE u == t \o <<m>>
<1>1. /\ DOMAIN t = 1..Len(t) /\ DOMAIN u = 1..(Len(t) + 1) /\ Len(t) \in Nat
      /\ \A i \in 1..Len(t) : u[i] = t[i] /\ u[i] \in Elems(t)
      /\ u[Len(t) + 1] = m
      /\ \A i \in 1..(Len(t) + 1) : i \in 1..Len(t) \/ i = Len(t) + 1
  BY OneMore
<1>2. Once(u, {"request", "reply"})
  BY AppendOnce DEF Orderly
<1> HIDE DEF u
<1>3. ASSUME NEW i \in 1..(Len(t) + 1), NEW j \in 1..(Len(t) + 1), i < j, u[i] = Close
      PROVE  u[j] = Close
  <2>1. i \in 1..Len(t)
    BY <1>1, <1>3
  <2>2. t[i] = Close /\ Close \in Elems(t)
    BY <1>1, <1>3, <2>1
  <2>3. QED
    BY <1>1, <1>3, <2>1, <2>2 DEF Orderly
<1>4. QED
  BY <1>1, <1>2, <1>3 DEF Orderly, u

\* A close message may follow when everything is answered before it.
LEMMA AppendAnswers ==
    ASSUME NEW t \in Seq(Messages), NEW m \in Messages, NEW R, NEW Q, Q \subseteq R,
           Answers(t, R), m = Close => \A c \in Q : Reply(c) \in Elems(t)
    PROVE  Answers(t \o <<m>>, Q)
<1> DEFINE u == t \o <<m>>
<1>3. /\ DOMAIN t = 1..Len(t) /\ DOMAIN u = 1..(Len(t) + 1) /\ Len(t) \in Nat
      /\ \A i \in 1..Len(t) : u[i] = t[i]
      /\ u[Len(t) + 1] = m
      /\ \A i \in 1..(Len(t) + 1) : i \in 1..Len(t) \/ i = Len(t) + 1
  BY OneMore
<1> HIDE DEF u
<1>4. \A i \in 1..Len(t) : i < Len(t) + 1 /\ i \in 1..(Len(t) + 1)
  BY <1>3
<1>5. SUFFICES ASSUME NEW i \in 1..(Len(t) + 1), u[i] = Close, NEW c \in Q
               PROVE  \E j \in 1..(Len(t) + 1) : j < i /\ u[j] = Reply(c)
  BY <1>3 DEF Answers, u
<1>6. CASE i \in 1..Len(t)
  <2>1. PICK j \in 1..Len(t) : j < i /\ t[j] = Reply(c)
    BY <1>3, <1>5, <1>6 DEF Answers
  <2>2. QED
    BY <1>3, <1>4, <2>1
<1>7. CASE i = Len(t) + 1
  <2>1. PICK j \in 1..Len(t) : t[j] = Reply(c)
    BY <1>3, <1>5, <1>7, ElemsOf
  <2>2. QED
    BY <1>3, <1>4, <1>7, <2>1
<1>8. QED
  BY <1>3, <1>6, <1>7

\* One message, or none of it, behind others.
LEMMA SendOne ==
    ASSUME NEW t \in Seq(Messages), NEW m \in Messages, NEW sent \in {<<>>, <<m>>},
           NEW R, NEW Q, Q \subseteq R, Orderly(t), Answers(t, R),
           Close \in Elems(t) => m = Close,
           m.type \in {"request", "reply"} => m \notin Elems(t),
           m = Close => \A c \in Q : Reply(c) \in Elems(t)
    PROVE  Orderly(t \o sent) /\ Answers(t \o sent, Q)
<1>1. CASE sent = <<>>
  <2>1. t \o sent = t
    BY <1>1, ConcatEmptySeq
  <2>2. Answers(t, Q)
    BY DEF Answers
  <2>3. QED
    BY <2>1, <2>2
<1>2. CASE sent = <<m>>
  BY <1>2, AppendOrderly, AppendAnswers
<1>3. QED
  BY <1>1, <1>2

\* A reply and a close message, or a part of them, behind others.
LEMMA SendTwo ==
    ASSUME NEW t \in Seq(Messages), NEW d \in Calls,
           NEW sent \in {<<>>, <<Reply(d)>>, <<Close>>, <<Reply(d), Close>>},
           NEW R, NEW Q, Q \subseteq R, Orderly(t), Answers(t, R),
           Close \notin Elems(t), Reply(d) \notin Elems(t),
           \A c \in Q : Reply(c) \in Elems(t) \/ c = d,
           sent = <<Close>> => Q = {}
    PROVE  Orderly(t \o sent) /\ Answers(t \o sent, Q)
<1> DEFINE r == Reply(d)
           u == t \o <<r>>
<1>1. r \in Messages /\ Close \in Messages /\ r # Close /\ r.type = "reply" /\ Close.type = "close"
  BY MessageKinds
<1>2. CASE sent \in {<<>>, <<r>>}
  BY <1>1, <1>2, SendOne
<1>3. CASE sent = <<Close>>
  <2>1. \A c \in Q : Reply(c) \in Elems(t)
    BY <1>3
  <2>2. sent \in {<<>>, <<Close>>} /\ ~(Close.type \in {"request", "reply"})
    BY <1>1, <1>3
  <2>3. QED
    BY <1>1, <2>1, <2>2, SendOne
<1>4. CASE sent = <<r, Close>>
  <2>1. u \in Seq(Messages) /\ \A x : x \in Elems(u) <=> x \in Elems(t) \/ x = r
    BY <1>1, OneMore
  <2>2. Orderly(u) /\ Answers(u, Q)
    BY <1>1, AppendOrderly, AppendAnswers
  <2>3. \A c \in Q : Reply(c) \in Elems(u)
    BY <2>1
  <2>4. ~(Close.type \in {"request", "reply"})
    BY <1>1
  <2> HIDE DEF u
  <2>5. Orderly(u \o <<Close>>) /\ Answers(u \o <<Close>>, Q)
    BY <1>1, <2>1, <2>2, <2>3, <2>4, AppendOrderly, AppendAnswers
  <2>6. t \o sent = u \o <<Close>>
    <3>1. <<r>> \in Seq(Messages) /\ <<Close>> \in Seq(Messages)
      BY <1>1
    <3>2. <<r, Close>> = <<r>> \o <<Close>>
      BY <1>1
    <3>3. (t \o <<r>>) \o <<Close>> = t \o (<<r>> \o <<Close>>)
      BY <3>1, JoiningMessages, Zenon
    <3>4. QED
      BY <1>4, <3>2, <3>3 DEF u
  <2>7. QED
    BY <2>5, <2>6
<1>5. QED
  BY <1>2, <1>3, <1>4

\* What a part of one message, or of two, can be.
LEMMA SmallSegments ==
    ASSUME NEW a \in Messages, NEW b \in Messages, NEW u \in Seq(Messages), NEW k \in Nat
    PROVE  /\ Segment(u, <<>>, k) => u = <<>>
           /\ Segment(u, <<a>>, k) => u \in {<<>>, <<a>>}
           /\ Segment(u, <<a, b>>, k) => u \in {<<>>, <<a>>, <<b>>, <<a, b>>}
           /\ Segment(u, <<a, b>>, k) /\ k = 0 => u \in {<<>>, <<a>>, <<a, b>>}
<1>1. /\ Len(u) \in Nat /\ Len(u) = 0 => u = <<>>
      /\ Len(u) = 1 => u = <<u[1]>>
      /\ Len(u) = 2 => u = <<u[1], u[2]>>
  OBVIOUS
<1>2. ASSUME Segment(u, <<>>, k)
      PROVE  u = <<>>
  BY <1>1, <1>2 DEF Segment
<1>3. ASSUME Segment(u, <<a>>, k)
      PROVE  u \in {<<>>, <<a>>}
  BY <1>1, <1>3 DEF Segment
<1>4. ASSUME Segment(u, <<a, b>>, k)
      PROVE  u \in {<<>>, <<a>>, <<b>>, <<a, b>>} /\ (k = 0 => u \in {<<>>, <<a>>, <<a, b>>})
  <2>1. /\ k \in Nat /\ Len(u) + k <= 2
        /\ \A i \in 1..Len(u) : u[i] = <<a, b>>[i + k]
    BY <1>4 DEF Segment
  <2>2. CASE Len(u) = 0
    BY <1>1, <2>2
  <2>3. CASE Len(u) = 1
    <3>1. k \in {0, 1} /\ u[1] = <<a, b>>[1 + k]
      BY <2>1, <2>3
    <3>2. u[1] = IF k = 0 THEN a ELSE b
      BY <3>1
    <3>3. QED
      BY <1>1, <2>3, <3>2
  <2>4. CASE Len(u) = 2
    <3>1. k = 0 /\ u[1] = <<a, b>>[1] /\ u[2] = <<a, b>>[2]
      BY <2>1, <2>4
    <3>2. QED
      BY <1>1, <2>4, <3>1
  <2>5. Len(u) = 0 \/ Len(u) = 1 \/ Len(u) = 2
    <3>1. Len(u) \in Nat /\ Len(u) + k <= 2
      BY <2>1
    <3>2. \A n \in Nat : n + k <= 2 => n = 0 \/ n = 1 \/ n = 2
      OBVIOUS
    <3>3. QED
      BY <3>1, <3>2
  <2>6. QED
    BY <2>2, <2>3, <2>4, <2>5
<1>5. QED
  BY <1>2, <1>3, <1>4

-----------------------------------------------------------------------------
(***************************************************************************)
(* The messages between the ends                                           *)
(***************************************************************************)

\* The messages that e has sent or queued and its peer has not read.
InT(e) == Elems(InTransit(e))

\* The state of the send queue: its head has been written only if there is
\* one, and then it is the last message on its way, if there still are any.
SendQueue(e) ==
    /\ written[e] => sendStreams[e] # <<>>
    /\ written[e] /\ channel[Peer(e)] # <<>> =>
         channel[Peer(e)][Len(channel[Peer(e)])] = Head(sendStreams[e])
    /\ Once(sendStreams[e], {"request"})
    /\ ~socketOpen[e] => channel[e] = <<>>

LEMMA TransitType ==
    ASSUME TypeOK, NEW e \in Ends, SendQueue(e)
    PROVE  /\ sendStreams[e] \in Seq(Messages) /\ channel[Peer(e)] \in Seq(Messages)
           /\ Unwritten(e) \in Seq(Messages) /\ InTransit(e) \in Seq(Messages)
           /\ InTransit(e) = channel[Peer(e)] \o Unwritten(e)
<1>1. sendStreams[e] \in Seq(Messages) /\ channel[Peer(e)] \in Seq(Messages)
  BY PeerOfPeer DEF TypeOK
<1>2. Unwritten(e) \in Seq(Messages)
  BY <1>1, HeadAndTail DEF Unwritten, SendQueue
<1>3. QED
  BY <1>1, <1>2 DEF InTransit

\* What SendMessages puts behind the messages in transit: everything, when the
\* peer is there and the write does not fail; a part from the beginning, when
\* it fails; and a part of it when the messages vanish.
Sends(e, ms) ==
    \E sent \in Seq(Messages), k \in Nat :
        /\ InTransit(e)' = InTransit(e) \o sent
        /\ Segment(sent, ms, k)
        /\ socketOpen[Peer(e)] => k = 0
        /\ socketOpen[Peer(e)] /\ state'[e] \notin Ending => sent = ms

\* The rest of what SendMessages does: the state, the exception and the queue.
SendsRest(e, ms, s, x) ==
    /\ \/ /\ state' = [state EXCEPT ![e] = s] /\ exception' = [exception EXCEPT ![e] = x]
       \/ /\ state' = [state EXCEPT ![e] = "Closed"]
          /\ exception' = [exception EXCEPT ![e] = Keep(x, "Lost")]
          /\ WriteMayFail(e) /\ sendStreams' = sendStreams /\ ms # <<>>
    /\ \E k \in Nat, q \in Seq(Messages) :
        /\ sendStreams' = [sendStreams EXCEPT ![e] = q]
        /\ \/ q = sendStreams[e]
           \/ sendStreams[e] # <<>> /\ q = sendStreams[e] \o ms
           \/ sendStreams[e] = <<>> /\ Segment(q, ms, k)
    /\ channel' \in [Ends -> Seq(Messages)]
    /\ channel'[e] = channel[e]
    /\ ~socketOpen[Peer(e)] => channel' = channel
    /\ sendStreams[e] # <<>> => channel' = channel

LEMMA ParametersOfSends ==
    ASSUME NEW e, NEW ms, NEW sent \in Seq(Messages), NEW k \in Nat,
           InTransit(e)' = InTransit(e) \o sent, Segment(sent, ms, k),
           socketOpen[Peer(e)] => k = 0,
           socketOpen[Peer(e)] /\ state'[e] \notin Ending => sent = ms
    PROVE  Sends(e, ms)
BY DEF Sends

LEMMA TailJoined ==
    ASSUME NEW S, NEW s \in Seq(S), NEW t \in Seq(S), s # <<>>
    PROVE  Tail(s \o t) = Tail(s) \o t /\ s \o t # <<>> /\ Head(s \o t) = Head(s)
<1>1. Len(s) \in Nat \ {0} /\ Len(t) \in Nat /\ Tail(s) \in Seq(S) /\ Len(Tail(s)) = Len(s) - 1
      /\ \A i \in 1..(Len(s) - 1) : Tail(s)[i] = s[i + 1]
  BY HeadAndTail
<1> DEFINE u == s \o t
           v == Tail(s) \o t
<1>2. /\ u \in Seq(S) /\ Len(u) = Len(s) + Len(t)
      /\ \A i \in 1..Len(s) + Len(t) : u[i] = IF i <= Len(s) THEN s[i] ELSE t[i - Len(s)]
  BY ConcatProperties
<1>3. /\ v \in Seq(S) /\ Len(v) = Len(Tail(s)) + Len(t)
      /\ \A i \in 1..Len(Tail(s)) + Len(t) :
            v[i] = IF i <= Len(Tail(s)) THEN Tail(s)[i] ELSE t[i - Len(Tail(s))]
  BY <1>1, ConcatProperties
<1> HIDE DEF u, v
<1>4. u # <<>> /\ Head(u) = u[1] /\ u[1] = s[1] /\ Head(s) = s[1]
  BY <1>1, <1>2
<1>5. /\ Tail(u) \in Seq(S) /\ Len(Tail(u)) = Len(u) - 1
      /\ \A i \in 1..(Len(u) - 1) : Tail(u)[i] = u[i + 1]
  BY <1>2, <1>4, HeadAndTail
<1>6. ASSUME NEW i \in 1..Len(v)
      PROVE  Tail(u)[i] = v[i]
  <2>1. i + 1 \in 1..Len(s) + Len(t) /\ i \in 1..(Len(u) - 1)
    BY <1>1, <1>2, <1>3
  <2>2. CASE i < Len(s)
    BY <1>1, <1>2, <1>3, <1>5, <2>1, <2>2
  <2>3. CASE ~(i < Len(s))
    <3>1. Tail(u)[i] = t[(i + 1) - Len(s)] /\ v[i] = t[i - (Len(s) - 1)]
      BY <1>1, <1>2, <1>3, <1>5, <2>1, <2>3
    <3>2. (i + 1) - Len(s) = i - (Len(s) - 1)
      BY <1>1
    <3>3. QED
      BY <3>1, <3>2
  <2>4. QED
    BY <2>2, <2>3
<1>7. Len(Tail(u)) = Len(v)
  BY <1>1, <1>2, <1>3, <1>5
<1>8. Tail(u) = v
  BY <1>3, <1>5, <1>6, <1>7, SeqEqual
<1>9. QED
  BY <1>4, <1>8 DEF u, v

\* Parts of a sequence at its beginning and at its end.
LEMMA PartsAreSegments ==
    ASSUME NEW s \in Seq(Messages), NEW n \in 0..Len(s)
    PROVE  Segment(Prefix(s, n), s, 0) /\ Segment(Suffix(s, n), s, n) /\ Segment(s, s, 0)
<1>0. Len(s) \in Nat /\ n \in Nat /\ n <= Len(s)
  OBVIOUS
<1>1. /\ Prefix(s, n) \in Seq(Messages) /\ Len(Prefix(s, n)) = n
      /\ \A i \in 1..n : Prefix(s, n)[i] = s[i]
      /\ Suffix(s, n) \in Seq(Messages) /\ Len(Suffix(s, n)) = Len(s) - n
      /\ \A i \in 1..(Len(s) - n) : Suffix(s, n)[i] = s[n + i]
  BY Parts
<1>2. Segment(Prefix(s, n), s, 0)
  BY <1>0, <1>1 DEF Segment
<1>3. Segment(Suffix(s, n), s, n)
  <2>1. \A i \in 1..(Len(s) - n) : Suffix(s, n)[i] = s[i + n]
    BY <1>0, <1>1
  <2>2. QED
    BY <1>0, <1>1, <2>1 DEF Segment
<1>4. Segment(s, s, 0)
  BY <1>0 DEF Segment
<1>5. QED
  BY <1>2, <1>3, <1>4

\* What SendMessages does.
LEMMA SendEffect ==
    ASSUME TypeOK, NEW e \in Ends, NEW ms \in Seq(Messages), NEW s, NEW x, s \notin Ending,
           SendQueue(e), SendQueue(Peer(e)), SendMessages(e, ms, s, x), UNCHANGED written
    PROVE  Sends(e, ms) /\ SendsRest(e, ms, s, x) /\ InTransit(Peer(e))' = InTransit(Peer(e))
<1> DEFINE p == Peer(e)
           ch == channel[p]
           q == sendStreams[e]
           w == Unwritten(e)
<1>0. p \in Ends /\ p # e /\ Peer(p) = e
  BY PeerOfPeer
<1>1. /\ q \in Seq(Messages) /\ ch \in Seq(Messages)
      /\ w \in Seq(Messages) /\ InTransit(e) \in Seq(Messages)
      /\ InTransit(e) = ch \o w
  BY TransitType
<1>2. channel \in [Ends -> Seq(Messages)] /\ sendStreams \in [Ends -> Seq(Messages)]
      /\ state \in [Ends -> States] /\ exception \in [Ends -> Exceptions]
  BY DEF TypeOK
<1>3. Len(ms) \in Nat /\ 0 \in 0..Len(ms) /\ Segment(ms, ms, 0)
  BY PartsAreSegments
<1>4. CASE q # <<>> /\ sendStreams' = [sendStreams EXCEPT ![e] = @ \o ms] /\ UNCHANGED channel
           /\ state' = [state EXCEPT ![e] = s] /\ exception' = [exception EXCEPT ![e] = x]
  <2>1. sendStreams'[e] = q \o ms /\ sendStreams'[p] = sendStreams[p]
    BY <1>0, <1>2, <1>4
  <2>2. Tail(q \o ms) = Tail(q) \o ms
    BY <1>1, <1>4, TailJoined
  <2>3. Unwritten(e)' = w \o ms
    BY <2>1, <2>2 DEF Unwritten
  <2>4. InTransit(e)' = ch \o (w \o ms)
    BY <1>4, <2>3 DEF InTransit
  <2>5. ch \o (w \o ms) = (ch \o w) \o ms
    <3> HIDE DEF ch, w
    <3>1. ch \in Seq(Messages) /\ w \in Seq(Messages)
      BY <1>1
    <3>2. QED
      BY <3>1, JoiningMessages, Zenon
  <2>6. InTransit(p)' = InTransit(p)
    <3>1. sendStreams'[p] = sendStreams[p] /\ written' = written /\ channel' = channel
      BY <1>4, <2>1
    <3>2. Unwritten(p)' = Unwritten(p)
      BY <3>1 DEF Unwritten
    <3>3. QED
      BY <3>1, <3>2 DEF InTransit
  <2>7. Sends(e, ms)
    <3>1. InTransit(e)' = InTransit(e) \o ms
      BY <1>1, <2>4, <2>5
    <3>2. QED
      BY <1>3, <3>1, ParametersOfSends
  <2>8. q \o ms \in Seq(Messages)
    BY <1>1
  <2>9. SendsRest(e, ms, s, x)
    BY <1>2, <1>4, <2>1, <2>8 DEF SendsRest
  <2>10. QED
    BY <2>6, <2>7, <2>9
<1>5. CASE /\ q = <<>>
           /\ \E n \in 0..Len(ms) :
                /\ Write(e, ms, n)
                /\ \/ /\ sendStreams' = [sendStreams EXCEPT ![e] = Suffix(ms, n)]
                      /\ state' = [state EXCEPT ![e] = s]
                      /\ exception' = [exception EXCEPT ![e] = x]
                   \/ /\ UNCHANGED sendStreams
                      /\ state' = [state EXCEPT ![e] = "Closed"]
                      /\ exception' = [exception EXCEPT ![e] = Keep(x, "Lost")]
                      /\ WriteMayFail(e) /\ ms # <<>>
  <2>0. PICK n \in 0..Len(ms) :
          /\ Write(e, ms, n)
          /\ \/ /\ sendStreams' = [sendStreams EXCEPT ![e] = Suffix(ms, n)]
                /\ state' = [state EXCEPT ![e] = s]
                /\ exception' = [exception EXCEPT ![e] = x]
             \/ /\ UNCHANGED sendStreams
                /\ state' = [state EXCEPT ![e] = "Closed"]
                /\ exception' = [exception EXCEPT ![e] = Keep(x, "Lost")]
                /\ WriteMayFail(e) /\ ms # <<>>
    BY <1>5
  <2>1. ~written[e] /\ Unwritten(e) = <<>>
    BY <1>5 DEF SendQueue, Unwritten
  <2>2. InTransit(e) = ch
    BY <1>1, <2>1, ConcatEmptySeq
  <2>3. /\ Prefix(ms, n) \in Seq(Messages) /\ Suffix(ms, n) \in Seq(Messages)
        /\ Prefix(ms, n) \o Suffix(ms, n) = ms
        /\ Segment(Prefix(ms, n), ms, 0) /\ Segment(Suffix(ms, n), ms, n)
        /\ n \in Nat
    <3>1. n \in 0..Len(ms) /\ n \in Nat
      BY <1>3
    <3>2. Prefix(ms, n) \in Seq(Messages) /\ Suffix(ms, n) \in Seq(Messages)
      BY <3>1, MessageParts
    <3>3. /\ Prefix(ms, n) \o Suffix(ms, n) = ms
          /\ Segment(Prefix(ms, n), ms, 0) /\ Segment(Suffix(ms, n), ms, n)
      BY <3>1, PartsJoined, PartsAreSegments
    <3>4. QED
      BY <3>1, <3>2, <3>3
  <2>4. /\ channel' = IF socketOpen[p] THEN [channel EXCEPT ![p] = @ \o Prefix(ms, n)] ELSE channel
        /\ socketOpen[p] => channel'[p] = ch \o Prefix(ms, n)
        /\ ~socketOpen[p] => channel'[p] = <<>> /\ ch = <<>>
        /\ channel'[e] = channel[e]
    BY <1>0, <1>2, <2>0 DEF Write, SendQueue
  <2>5. sendStreams'[p] = sendStreams[p]
    BY <1>0, <1>2, <2>0
  <2>6. InTransit(p)' = InTransit(p)
    BY <1>0, <2>4, <2>5 DEF InTransit, Unwritten
  <2>7. channel' \in [Ends -> Seq(Messages)]
    <3>1. ch \o Prefix(ms, n) \in Seq(Messages)
      BY <1>1, <2>3
    <3>2. QED
      BY <1>0, <1>2, <2>4, <3>1
  <2>8. CASE sendStreams' = [sendStreams EXCEPT ![e] = Suffix(ms, n)]
             /\ state' = [state EXCEPT ![e] = s] /\ exception' = [exception EXCEPT ![e] = x]
    <3>1. Unwritten(e)' = Suffix(ms, n)
      BY <1>2, <2>1, <2>8 DEF Unwritten
    <3>2. ASSUME socketOpen[p]
         PROVE  Sends(e, ms)
      <4>1. InTransit(e)' = (ch \o Prefix(ms, n)) \o Suffix(ms, n)
        BY <2>4, <3>1, <3>2 DEF InTransit
      <4>2. (ch \o Prefix(ms, n)) \o Suffix(ms, n) = ch \o (Prefix(ms, n) \o Suffix(ms, n))
        <5> DEFINE a == Prefix(ms, n)
                   b == Suffix(ms, n)
        <5> HIDE DEF ch, a, b
        <5>1. a \in Seq(Messages) /\ b \in Seq(Messages)
          BY <2>3 DEF a, b
        <5>2. (ch \o a) \o b = ch \o (a \o b)
          <6>1. ch \in Seq(Messages)
            BY <1>1
          <6>2. QED
            BY <5>1, <6>1, JoiningMessages, Zenon
        <5>3. QED
          BY <5>2 DEF a, b
      <4>3. InTransit(e)' = InTransit(e) \o ms
        BY <2>2, <2>3, <4>1, <4>2
      <4>4. QED
        BY <1>3, <4>3, ParametersOfSends
    <3>3. ASSUME ~socketOpen[p]
         PROVE  Sends(e, ms)
      <4>1. InTransit(e)' = <<>> \o Suffix(ms, n) /\ InTransit(e) = <<>>
        BY <2>2, <2>4, <3>1, <3>3 DEF InTransit
      <4>2. InTransit(e)' = InTransit(e) \o Suffix(ms, n)
        BY <4>1
      <4>3. QED
        BY <2>3, <3>3, <4>2, ParametersOfSends
    <3>4. Sends(e, ms)
      BY <3>2, <3>3
    <3>5. SendsRest(e, ms, s, x)
      BY <1>5, <2>3, <2>4, <2>7, <2>8 DEF SendsRest
    <3>6. QED
      BY <2>6, <3>4, <3>5
  <2>9. CASE /\ UNCHANGED sendStreams /\ state' = [state EXCEPT ![e] = "Closed"]
             /\ exception' = [exception EXCEPT ![e] = Keep(x, "Lost")] /\ WriteMayFail(e)
             /\ ms # <<>>
    <3>1. Unwritten(e)' = <<>>
      BY <1>2, <1>5, <2>1, <2>9 DEF Unwritten
    <3>2. state'[e] \in Ending
      BY <1>2, <2>9 DEF Ending
    <3>3. ASSUME socketOpen[p]
         PROVE  Sends(e, ms)
      <4>1. InTransit(e)' = (ch \o Prefix(ms, n)) \o <<>>
        BY <2>4, <3>1, <3>3 DEF InTransit
      <4>2. ch \o Prefix(ms, n) \in Seq(Messages)
        BY <1>1, <2>3
      <4>3. InTransit(e)' = InTransit(e) \o Prefix(ms, n)
        BY <2>2, <4>1, <4>2, ConcatEmptySeq
      <4>4. QED
        BY <2>3, <3>2, <4>3, ParametersOfSends
    <3>4. ASSUME ~socketOpen[p]
         PROVE  Sends(e, ms)
      <4>1. InTransit(e)' = <<>> \o <<>> /\ InTransit(e) = <<>>
        BY <2>2, <2>4, <3>1, <3>4 DEF InTransit
      <4>2. Segment(<<>>, ms, 0) /\ <<>> \in Seq(Messages)
        BY <1>3 DEF Segment
      <4>3. InTransit(e)' = InTransit(e) \o <<>>
        BY <4>1
      <4>4. QED
        BY <3>4, <4>2, <4>3, ParametersOfSends
    <3>5. Sends(e, ms)
      BY <3>3, <3>4
    <3>6. sendStreams' = [sendStreams EXCEPT ![e] = q]
      BY <1>2, <2>9
    <3>7. SendsRest(e, ms, s, x)
      BY <1>1, <1>5, <2>4, <2>7, <2>9, <3>6 DEF SendsRest
    <3>8. QED
      BY <2>6, <3>5, <3>7
  <2>10. QED
    BY <2>0, <2>8, <2>9
<1>6. QED
  <2>1. ASSUME NEW n \in 0..Len(ms) - 1
        PROVE  n \in 0..Len(ms) /\ ms # <<>>
    BY <1>3
  <2>2. QED
    BY <1>4, <1>5, <2>1 DEF SendMessages

\* The queue after SendMessages, if no request is queued a second time.
LEMMA SendKeepsQueues ==
    ASSUME TypeOK, NEW e \in Ends, NEW ms \in Seq(Messages), NEW s, NEW x,
           SendQueue(e), SendQueue(Peer(e)), SendsRest(e, ms, s, x),
           UNCHANGED <<written, socketOpen>>,
           Once(sendStreams[e] \o ms, {"request"}), Once(ms, {"request"})
    PROVE  /\ SendQueue(e)' /\ SendQueue(Peer(e))'
           /\ sendStreams' \in [Ends -> Seq(Messages)]
           /\ sendStreams'[Peer(e)] = sendStreams[Peer(e)]
           /\ Elems(sendStreams[e])' \subseteq Elems(sendStreams[e]) \cup Elems(ms)
<1> DEFINE p == Peer(e)
<1>0. p \in Ends /\ p # e /\ Peer(p) = e
  BY PeerOfPeer
<1>1. PICK k \in Nat, q \in Seq(Messages) :
        /\ sendStreams' = [sendStreams EXCEPT ![e] = q]
        /\ \/ q = sendStreams[e]
           \/ sendStreams[e] # <<>> /\ q = sendStreams[e] \o ms
           \/ sendStreams[e] = <<>> /\ Segment(q, ms, k)
  BY DEF SendsRest
<1>2. sendStreams \in [Ends -> Seq(Messages)]
  BY DEF TypeOK
<1>3. sendStreams'[e] = q /\ sendStreams'[p] = sendStreams[p]
      /\ sendStreams' \in [Ends -> Seq(Messages)]
  BY <1>0, <1>1, <1>2
<1>4. Once(q, {"request"}) /\ Elems(q) \subseteq Elems(sendStreams[e]) \cup Elems(ms)
  <2>1. CASE q = sendStreams[e]
    BY <2>1 DEF SendQueue
  <2>2. CASE q = sendStreams[e] \o ms
    BY <1>2, <2>2, ElemsJoined
  <2>3. CASE Segment(q, ms, k)
    BY <2>3, SegmentOrderly
  <2>4. QED
    BY <1>1, <2>1, <2>2, <2>3
<1>5. /\ written'[e] = written[e] /\ written'[p] = written[p]
      /\ socketOpen'[e] = socketOpen[e] /\ socketOpen'[p] = socketOpen[p]
      /\ channel'[e] = channel[e]
      /\ ~socketOpen[p] => channel' = channel
      /\ sendStreams[e] # <<>> => channel' = channel
  BY DEF SendsRest
<1>6. sendStreams[e] # <<>> => q # <<>> /\ Head(q) = Head(sendStreams[e])
  <2>1. sendStreams[e] \in Seq(Messages)
    BY <1>2
  <2>2. sendStreams[e] # <<>> =>
           sendStreams[e] \o ms # <<>> /\ Head(sendStreams[e] \o ms) = Head(sendStreams[e])
    BY <2>1, TailJoined
  <2>3. QED
    BY <1>1, <2>2
<1>7. SendQueue(e)'
  <2>1. written[e] => sendStreams[e] # <<>>
    BY DEF SendQueue
  <2>2. written'[e] => /\ q # <<>> /\ Head(q) = Head(sendStreams[e]) /\ channel' = channel
    BY <1>5, <1>6, <2>1
  <2>3. /\ written[e] /\ channel[Peer(e)] # <<>> =>
             channel[Peer(e)][Len(channel[Peer(e)])] = Head(sendStreams[e])
        /\ ~socketOpen[e] => channel[e] = <<>>
    BY DEF SendQueue
  <2>4. QED
    BY <1>3, <1>4, <1>5, <2>1, <2>2, <2>3 DEF SendQueue
<1>8. SendQueue(p)'
  <2>1. /\ written[p] => sendStreams[p] # <<>>
        /\ written[p] /\ channel[e] # <<>> =>
             channel[e][Len(channel[e])] = Head(sendStreams[p])
        /\ Once(sendStreams[p], {"request"})
        /\ ~socketOpen[p] => channel[p] = <<>>
    BY <1>0 DEF SendQueue
  <2>2. Peer(p)' = e
    BY <1>0 DEF Peer
  <2>3. QED
    BY <1>0, <1>3, <1>5, <2>1, <2>2 DEF SendQueue
<1>9. QED
  BY <1>3, <1>4, <1>7, <1>8

\* What is in transit from e becomes less at its beginning only if its peer has
\* closed its transceiver.
Shrinks(e) ==
    /\ InTransit(e)' \in Seq(Messages)
    /\ \E k \in Nat : /\ Segment(InTransit(e)', InTransit(e), k)
                      /\ k = 0 \/ ~socketOpen'[Peer(e)]

LEMMA ShrinksWith ==
    ASSUME NEW e, NEW k \in Nat, InTransit(e)' \in Seq(Messages),
           Segment(InTransit(e)', InTransit(e), k), k = 0 \/ ~socketOpen'[Peer(e)]
    PROVE  Shrinks(e)
BY DEF Shrinks

LEMMA SameShrinks ==
    ASSUME NEW e, InTransit(e) \in Seq(Messages), InTransit(e)' = InTransit(e)
    PROVE  Shrinks(e)
<1>1. Segment(InTransit(e), InTransit(e), 0)
  BY DEF Segment
<1>2. QED
  BY <1>1 DEF Shrinks

\* A step that leaves the channels and the queues alone.
LEMMA QuietEffect ==
    ASSUME TypeOK, NEW e \in Ends, SendQueue(e),
           UNCHANGED <<written, sendStreams, channel>>, UNCHANGED socketOpen
    PROVE  Shrinks(e) /\ InTransit(e)' = InTransit(e) /\ SendQueue(e)'
<1>1. Unwritten(e)' = Unwritten(e) /\ Peer(e)' = Peer(e)
  BY DEF Unwritten, Peer
<1>2. InTransit(e)' = InTransit(e)
  BY <1>1 DEF InTransit
<1>3. InTransit(e) \in Seq(Messages)
  BY TransitType
<1>4. SendQueue(e)'
  BY <1>1 DEF SendQueue
<1>5. QED
  BY <1>2, <1>3, <1>4, SameShrinks

\* The end of a sequence, counted behind its first message.
LEMMA SuffixOfTail ==
    ASSUME NEW S, NEW s \in Seq(S), s # <<>>, NEW n \in 1..Len(s)
    PROVE  n - 1 \in 0..Len(Tail(s)) /\ Suffix(Tail(s), n - 1) = Suffix(s, n)
<1>1. /\ Len(s) \in Nat \ {0} /\ Tail(s) \in Seq(S) /\ Len(Tail(s)) = Len(s) - 1
      /\ \A i \in 1..(Len(s) - 1) : Tail(s)[i] = s[i + 1]
  BY HeadAndTail
<1>2. n - 1 \in 0..Len(Tail(s)) /\ n \in 0..Len(s)
  BY <1>1
<1> DEFINE u == Tail(s)
           m == n - 1
<1> HIDE DEF u, m
<1>3. u \in Seq(S) /\ m \in 0..Len(u)
  BY <1>1, <1>2 DEF u, m
<1>4. /\ Suffix(u, m) \in Seq(S) /\ Len(Suffix(u, m)) = Len(u) - m
      /\ \A i \in 1..(Len(u) - m) : Suffix(u, m)[i] = u[m + i]
  BY <1>3, Parts
<1>5. /\ Suffix(s, n) \in Seq(S) /\ Len(Suffix(s, n)) = Len(s) - n
      /\ \A i \in 1..(Len(s) - n) : Suffix(s, n)[i] = s[n + i]
  BY <1>2, Parts
<1>6. Len(u) - m = Len(s) - n
  BY <1>1, <1>2 DEF u, m
<1>7. ASSUME NEW i \in 1..(Len(s) - n)
      PROVE  Suffix(u, m)[i] = Suffix(s, n)[i]
  <2>1. m + i \in 1..(Len(s) - 1) /\ (m + i) + 1 = n + i
    BY <1>1, <1>2 DEF m
  <2>2. u[m + i] = s[n + i]
    BY <1>1, <2>1 DEF u
  <2>3. QED
    BY <1>4, <1>5, <1>6, <2>2
<1>8. Suffix(u, m) = Suffix(s, n)
  BY <1>4, <1>5, <1>6, <1>7, SeqEqual
<1>9. QED
  BY <1>2, <1>8 DEF u, m

\* What the transceiver takes from the front of Unwritten(e) changes places.
LEMMA WriteMoves ==
    ASSUME TypeOK, NEW e \in Ends, SendQueue(e), SendQueue(Peer(e)),
           NEW m \in 0..Len(Unwritten(e)), Write(e, Unwritten(e), m),
           Unwritten(e)' = Suffix(Unwritten(e), m), UNCHANGED socketOpen
    PROVE  /\ Shrinks(e)
           /\ socketOpen[Peer(e)] => InTransit(e)' = InTransit(e)
           /\ channel' \in [Ends -> Seq(Messages)] /\ channel'[e] = channel[e]
<1> DEFINE p == Peer(e)
           ch == channel[p]
           w == Unwritten(e)
           a == Prefix(w, m)
           b == Suffix(w, m)
<1>0. p \in Ends /\ p # e /\ Peer(p) = e
  BY PeerOfPeer
<1>1. w \in Seq(Messages) /\ ch \in Seq(Messages) /\ InTransit(e) = ch \o w
      /\ InTransit(e) \in Seq(Messages)
  BY TransitType
<1>2. channel \in [Ends -> Seq(Messages)]
  BY DEF TypeOK
<1>3. /\ a \in Seq(Messages) /\ b \in Seq(Messages) /\ a \o b = w
      /\ Segment(b, w, m) /\ m \in Nat
  <2>0. m \in 0..Len(w)
    OBVIOUS
  <2> HIDE DEF w
  <2>1. a \in Seq(Messages) /\ b \in Seq(Messages) /\ m \in Nat
    BY <1>1, <2>0, Parts
  <2>2. a \o b = w
    BY <1>1, <2>0, PartsJoined
  <2>3. Segment(b, w, m)
    BY <1>1, <2>0, PartsAreSegments
  <2>4. QED
    BY <2>1, <2>2, <2>3
<1>4. /\ socketOpen[p] => channel' = [channel EXCEPT ![p] = ch \o a]
      /\ ~socketOpen[p] => channel' = channel /\ ch = <<>>
  BY <1>0 DEF Write, SendQueue
<1>5. InTransit(e)' = channel'[p] \o b
  BY DEF InTransit
<1>6. ASSUME socketOpen[p]
      PROVE  /\ channel' \in [Ends -> Seq(Messages)] /\ channel'[e] = channel[e]
             /\ InTransit(e)' = InTransit(e)
  <2>1. ch \o a \in Seq(Messages)
    BY <1>1, <1>3
  <2>2. channel' = [channel EXCEPT ![p] = ch \o a]
    BY <1>4, <1>6
  <2> HIDE DEF a, b, ch, w
  <2>3. channel' \in [Ends -> Seq(Messages)] /\ channel'[e] = channel[e] /\ channel'[p] = ch \o a
    BY <1>0, <1>2, <2>1, <2>2
  <2>4. (ch \o a) \o b = ch \o (a \o b)
    <3>1. ch \in Seq(Messages) /\ a \in Seq(Messages) /\ b \in Seq(Messages)
      BY <1>1, <1>3
    <3>2. QED
      BY <3>1, JoiningMessages, Zenon
  <2>5. QED
    BY <1>1, <1>3, <1>5, <2>3, <2>4
<1>7. ASSUME ~socketOpen[p]
      PROVE  /\ channel' \in [Ends -> Seq(Messages)] /\ channel'[e] = channel[e]
             /\ Segment(InTransit(e)', InTransit(e), m) /\ InTransit(e)' \in Seq(Messages)
  <2>1. channel' = channel /\ ch = <<>>
    BY <1>4, <1>7
  <2>2. <<>> \o b = b /\ <<>> \o w = w
    <3> HIDE DEF w, b
    <3>1. QED
      BY <1>1, <1>3, ConcatEmptySeq
  <2>3. InTransit(e)' = b /\ InTransit(e) = w
    BY <1>1, <1>5, <2>1, <2>2
  <2>4. QED
    BY <1>2, <1>3, <2>1, <2>3
<1>8. Shrinks(e)
  <2>1. CASE socketOpen[p]
    BY <1>1, <1>6, <2>1, SameShrinks
  <2>2. CASE ~socketOpen[p]
    BY <1>3, <1>7, <2>2, ShrinksWith
  <2>3. QED
    BY <2>1, <2>2
<1>9. QED
  BY <1>6, <1>7, <1>8

\* What is in transit to e does not change while e's channel, and the queue of
\* its peer, do not.
LEMMA OtherTransit ==
    ASSUME TypeOK, NEW e \in Ends, SendQueue(Peer(e)), channel'[e] = channel[e],
           sendStreams'[Peer(e)] = sendStreams[Peer(e)], written'[Peer(e)] = written[Peer(e)]
    PROVE  InTransit(Peer(e))' = InTransit(Peer(e)) /\ Shrinks(Peer(e))
<1>0. Peer(e) \in Ends /\ Peer(Peer(e)) = e
  BY PeerOfPeer
<1>1. Unwritten(Peer(e))' = Unwritten(Peer(e)) /\ Peer(Peer(e))' = e
  BY <1>0 DEF Unwritten, Peer
<1>2. InTransit(Peer(e))' = InTransit(Peer(e))
  BY <1>0, <1>1 DEF InTransit
<1>3. InTransit(Peer(e)) \in Seq(Messages)
  BY <1>0, TransitType
<1>4. QED
  BY <1>2, <1>3, SameShrinks

\* n messages of e's queue are marked as sent.
LEMMA WriteEffect ==
    ASSUME TypeOK, NEW e \in Ends, SendQueue(e), SendQueue(Peer(e)), UNCHANGED socketOpen,
           NEW n \in (IF written[e] THEN 1 ELSE 0)..Len(sendStreams[e]), WriteAndMark(e, n)
    PROVE  /\ Shrinks(e) /\ Shrinks(Peer(e)) /\ InTransit(Peer(e))' = InTransit(Peer(e))
           /\ socketOpen[Peer(e)] => InTransit(e)' = InTransit(e)
           /\ channel' \in [Ends -> Seq(Messages)] /\ channel'[e] = channel[e]
           /\ n \in 0..Len(sendStreams[e])
           /\ SendQueue(e)' /\ SendQueue(Peer(e))'
<1> DEFINE p == Peer(e)
           q == sendStreams[e]
           w == Unwritten(e)
           m == IF written[e] THEN n - 1 ELSE n
<1>0. p \in Ends /\ p # e /\ Peer(p) = e
  BY PeerOfPeer
<1>1. q \in Seq(Messages) /\ w \in Seq(Messages) /\ (written[e] => q # <<>>)
  BY TransitType DEF SendQueue
<1>2. sendStreams \in [Ends -> Seq(Messages)] /\ written \in [Ends -> BOOLEAN]
  BY DEF TypeOK
<1>3. /\ sendStreams' = [sendStreams EXCEPT ![e] = Suffix(@, n)]
      /\ written' = [written EXCEPT ![e] = FALSE]
      /\ Write(e, w, m)
  BY DEF WriteAndMark, Sent
<1>4. sendStreams'[e] = Suffix(q, n) /\ sendStreams'[p] = sendStreams[p]
      /\ written'[e] = FALSE /\ written'[p] = written[p]
  BY <1>0, <1>2, <1>3
<1>5. n \in 0..Len(q) /\ (written[e] => n \in 1..Len(q))
  <2>1. CASE written[e]
    BY <2>1, <1>1
  <2>2. CASE ~written[e]
    BY <2>2, <1>1
  <2>3. QED
    BY <2>1, <2>2
<1>6. m \in 0..Len(w) /\ Suffix(w, m) = Suffix(q, n)
  <2>1. CASE written[e]
    <3>1. n - 1 \in 0..Len(Tail(q)) /\ Suffix(Tail(q), n - 1) = Suffix(q, n)
      BY <1>1, <1>5, <2>1, SuffixOfTail
    <3>2. QED
      BY <2>1, <3>1 DEF Unwritten
  <2>2. CASE ~written[e]
    BY <1>5, <2>2 DEF Unwritten
  <2>3. QED
    BY <2>1, <2>2
<1>7. Unwritten(e)' = Suffix(w, m)
  BY <1>4, <1>6 DEF Unwritten
<1>8. /\ Shrinks(e) /\ (socketOpen[p] => InTransit(e)' = InTransit(e))
      /\ channel' \in [Ends -> Seq(Messages)] /\ channel'[e] = channel[e]
  <2> HIDE DEF m
  <2>1. QED
    BY <1>3, <1>6, <1>7, WriteMoves
<1>9. InTransit(p)' = InTransit(p) /\ Shrinks(p)
  BY <1>4, <1>8, OtherTransit
<1>10. SendQueue(e)'
  <2>1. Once(sendStreams'[e], {"request"})
    <3>1. Suffix(q, n) \in Seq(Messages) /\ Segment(Suffix(q, n), q, n) /\ Once(q, {"request"})
      BY <1>1, <1>5, Parts, PartsAreSegments DEF SendQueue
    <3>2. n \in Nat
      BY <1>5
    <3>3. QED
      BY <1>1, <1>4, <3>1, <3>2, SegmentOrderly
  <2>2. ~socketOpen'[e] => channel'[e] = <<>>
    BY <1>8 DEF SendQueue
  <2>3. QED
    BY <1>4, <2>1, <2>2 DEF SendQueue
<1>11. SendQueue(p)'
  <2>1. /\ written[p] => sendStreams[p] # <<>>
        /\ written[p] /\ channel[e] # <<>> =>
             channel[e][Len(channel[e])] = Head(sendStreams[p])
        /\ Once(sendStreams[p], {"request"})
        /\ ~socketOpen[p] => channel[p] = <<>>
    BY <1>0 DEF SendQueue
  <2>2. Peer(p)' = e
    BY <1>0 DEF Peer
  <2>3. ~socketOpen[p] => channel' = channel
    BY <1>3 DEF Write
  <2>4. QED
    BY <1>4, <1>8, <2>1, <2>2, <2>3 DEF SendQueue
<1>12. QED
  BY <1>5, <1>8, <1>9, <1>10, <1>11

\* The beginning of a sequence in two parts.
LEMMA FirstPart ==
    ASSUME NEW s \in Seq(Messages), NEW t \in Seq(Messages)
    PROVE  s \o t \in Seq(Messages) /\ Segment(s, s \o t, 0) /\ Segment(t, s \o t, Len(s))
<1>1. /\ s \o t \in Seq(Messages) /\ Len(s \o t) = Len(s) + Len(t)
      /\ \A i \in 1..Len(s) + Len(t) :
            (s \o t)[i] = IF i <= Len(s) THEN s[i] ELSE t[i - Len(s)]
  BY ConcatProperties
<1> DEFINE u == s \o t
<1> HIDE DEF u
<1>2. Len(s) \in Nat /\ Len(t) \in Nat
  OBVIOUS
<1>3. \A i \in 1..Len(s) : u[i] = s[i]
  BY <1>1, <1>2 DEF u
<1>4. \A i \in 1..Len(t) : u[i + Len(s)] = t[i]
  <2> TAKE i \in 1..Len(t)
  <2>1. i + Len(s) \in 1..Len(s) + Len(t) /\ ~(i + Len(s) <= Len(s)) /\ (i + Len(s)) - Len(s) = i
    BY <1>2
  <2>2. QED
    BY <1>1, <2>1 DEF u
<1>5. Len(u) = Len(s) + Len(t)
  BY <1>1 DEF u
<1>6. Segment(s, u, 0) /\ Segment(t, u, Len(s))
  <2>1. Len(s) + 0 <= Len(u) /\ Len(t) + Len(s) <= Len(u) /\ \A i \in 1..Len(s) : s[i] = u[i + 0]
    BY <1>2, <1>3, <1>5
  <2>2. QED
    BY <1>2, <1>4, <2>1 DEF Segment
<1>7. QED
  BY <1>1, <1>6 DEF u

\* The head of e's queue has been written, but it is not marked as sent.
LEMMA WriteHeadEffect ==
    ASSUME TypeOK, NEW e \in Ends, SendQueue(e), SendQueue(Peer(e)),
           sendStreams[e] # <<>>, ~written[e], Write(e, sendStreams[e], 1),
           written' = [written EXCEPT ![e] = TRUE], UNCHANGED <<sendStreams, socketOpen>>
    PROVE  /\ Shrinks(e) /\ Shrinks(Peer(e)) /\ InTransit(Peer(e))' = InTransit(Peer(e))
           /\ socketOpen[Peer(e)] => InTransit(e)' = InTransit(e)
           /\ channel' \in [Ends -> Seq(Messages)] /\ channel'[e] = channel[e]
           /\ SendQueue(e)' /\ SendQueue(Peer(e))'
<1> DEFINE p == Peer(e)
           q == sendStreams[e]
           ch == channel[p]
<1>0. p \in Ends /\ p # e /\ Peer(p) = e
  BY PeerOfPeer
<1>1. q \in Seq(Messages) /\ Unwritten(e) = q /\ ch \in Seq(Messages)
  BY TransitType DEF Unwritten
<1>2. channel \in [Ends -> Seq(Messages)] /\ written \in [Ends -> BOOLEAN]
  BY DEF TypeOK
<1>3. written'[e] = TRUE /\ written'[p] = written[p]
  BY <1>0, <1>2
<1>4. 1 \in 0..Len(q) /\ Tail(q) = Suffix(q, 1) /\ q[1] = Head(q)
  <2>1. Len(q) \in Nat \ {0} /\ Tail(q) = Suffix(q, 1) /\ q[1] = Head(q)
    BY <1>1, HeadAndTail
  <2>2. QED
    BY <2>1
<1>5. Unwritten(e)' = Suffix(Unwritten(e), 1)
  BY <1>1, <1>3, <1>4 DEF Unwritten
<1>6. /\ Shrinks(e) /\ (socketOpen[p] => InTransit(e)' = InTransit(e))
      /\ channel' \in [Ends -> Seq(Messages)] /\ channel'[e] = channel[e]
  BY <1>1, <1>4, <1>5, WriteMoves
<1>7. InTransit(p)' = InTransit(p) /\ Shrinks(p)
  BY <1>3, <1>6, OtherTransit
<1>8. SendQueue(e)'
  <2>1. channel'[p] # <<>> => channel'[p][Len(channel'[p])] = Head(q)
    <3>1. CASE socketOpen[p]
      <4>1. channel'[p] = ch \o Prefix(q, 1)
        BY <1>0, <1>2, <3>1 DEF Write
      <4> DEFINE a == Prefix(q, 1)
      <4>2. a \in Seq(Messages) /\ Len(a) = 1 /\ a[1] = Head(q)
        <5> HIDE DEF q
        <5>1. a \in Seq(Messages) /\ Len(a) = 1 /\ \A i \in 1..1 : a[i] = q[i]
          BY <1>1, <1>4, Parts
        <5>2. QED
          BY <1>4, <5>1
      <4> HIDE DEF a, ch
      <4>3. /\ Len(ch \o a) = Len(ch) + Len(a)
            /\ \A i \in 1..Len(ch) + Len(a) :
                 (ch \o a)[i] = IF i <= Len(ch) THEN ch[i] ELSE a[i - Len(ch)]
        BY <1>1, <4>2, ConcatProperties
      <4>4. Len(ch) \in Nat
        BY <1>1
      <4>5. (ch \o a)[Len(ch) + 1] = a[1]
        <5>1. Len(ch) + 1 \in 1..Len(ch) + Len(a) /\ ~(Len(ch) + 1 <= Len(ch))
              /\ (Len(ch) + 1) - Len(ch) = 1
          BY <4>2, <4>4
        <5>2. QED
          BY <4>3, <5>1
      <4>6. QED
        BY <4>1, <4>2, <4>3, <4>5 DEF a
    <3>2. CASE ~socketOpen[p]
      BY <1>0, <3>2 DEF Write, SendQueue
    <3>3. QED
      BY <3>1, <3>2
  <2>2. Once(q, {"request"}) /\ (~socketOpen[e] => channel'[e] = <<>>) /\ sendStreams' = sendStreams
    BY <1>6 DEF SendQueue
  <2>3. QED
    BY <2>1, <2>2 DEF SendQueue
<1>9. SendQueue(p)'
  <2>1. /\ written[p] => sendStreams[p] # <<>>
        /\ written[p] /\ channel[e] # <<>> =>
             channel[e][Len(channel[e])] = Head(sendStreams[p])
        /\ Once(sendStreams[p], {"request"})
        /\ ~socketOpen[p] => channel[p] = <<>>
    BY <1>0 DEF SendQueue
  <2>2. Peer(p)' = e
    BY <1>0 DEF Peer
  <2>3. ~socketOpen[p] => channel' = channel
    BY DEF Write
  <2>4. QED
    BY <1>3, <1>6, <2>1, <2>2, <2>3 DEF SendQueue
<1>10. QED
  BY <1>6, <1>7, <1>8, <1>9

\* e has read the head of its channel.
LEMMA ReadEffect ==
    ASSUME TypeOK, NEW e \in Ends, SendQueue(e), SendQueue(Peer(e)), channel[e] # <<>>,
           channel' = [channel EXCEPT ![e] = Tail(@)],
           UNCHANGED <<sendStreams, written, socketOpen>>
    PROVE  /\ InTransit(e)' = InTransit(e) /\ Shrinks(e)
           /\ InTransit(Peer(e)) # <<>> /\ Head(InTransit(Peer(e))) = Head(channel[e])
           /\ InTransit(Peer(e))' = Tail(InTransit(Peer(e)))
           /\ Head(channel[e]) \in Messages
           /\ channel' \in [Ends -> Seq(Messages)]
           /\ SendQueue(e)' /\ SendQueue(Peer(e))'
<1> DEFINE p == Peer(e)
           ch == channel[e]
           w == Unwritten(p)
<1>0. p \in Ends /\ p # e /\ Peer(p) = e
  BY PeerOfPeer
<1>1. /\ ch \in Seq(Messages) /\ w \in Seq(Messages) /\ InTransit(p) = ch \o w
      /\ InTransit(e) \in Seq(Messages)
  BY <1>0, TransitType
<1>2. channel \in [Ends -> Seq(Messages)]
  BY DEF TypeOK
<1>3. /\ Len(ch) \in Nat \ {0} /\ Head(ch) \in Messages /\ Tail(ch) \in Seq(Messages)
      /\ Len(Tail(ch)) = Len(ch) - 1
      /\ \A i \in 1..(Len(ch) - 1) : Tail(ch)[i] = ch[i + 1]
  BY <1>1, HeadAndTail
<1>4. channel'[e] = Tail(ch) /\ channel'[p] = channel[p] /\ channel' \in [Ends -> Seq(Messages)]
  BY <1>0, <1>2, <1>3
<1>5. Unwritten(e)' = Unwritten(e) /\ Unwritten(p)' = w /\ Peer(p)' = e /\ Peer(e)' = p
  BY <1>0 DEF Unwritten, Peer
<1>6. InTransit(e)' = InTransit(e) /\ Shrinks(e)
  <2>1. InTransit(e)' = InTransit(e)
    BY <1>4, <1>5 DEF InTransit
  <2>2. QED
    BY <1>1, <2>1, SameShrinks
<1>7. InTransit(p) # <<>> /\ Head(InTransit(p)) = Head(ch) /\ InTransit(p)' = Tail(InTransit(p))
  <2>1. InTransit(p)' = Tail(ch) \o w
    BY <1>4, <1>5 DEF InTransit
  <2>2. Tail(ch \o w) = Tail(ch) \o w /\ ch \o w # <<>> /\ Head(ch \o w) = Head(ch)
    <3> HIDE DEF ch, w
    <3>1. ch # <<>>
      BY DEF ch
    <3>2. QED
      BY <1>1, <3>1, TailJoined
  <2>3. QED
    BY <1>1, <2>1, <2>2
<1>8. SendQueue(e)'
  BY <1>4, <1>5 DEF SendQueue
<1>9. SendQueue(p)'
  <2>1. /\ written[p] => sendStreams[p] # <<>>
        /\ written[p] /\ ch # <<>> => ch[Len(ch)] = Head(sendStreams[p])
        /\ Once(sendStreams[p], {"request"})
        /\ ~socketOpen[p] => channel[p] = <<>>
    BY <1>0 DEF SendQueue
  <2>2. Tail(ch) # <<>> => Tail(ch)[Len(Tail(ch))] = ch[Len(ch)]
    <3>1. ASSUME Tail(ch) # <<>>
          PROVE  Len(ch) - 1 \in 1..(Len(ch) - 1) /\ (Len(ch) - 1) + 1 = Len(ch)
      <4>1. Len(Tail(ch)) # 0
        BY <1>3, <3>1, EmptySeq
      <4>2. Len(ch) - 1 # 0
        BY <1>3, <4>1
      <4>3. \A l \in Nat \ {0} : l - 1 # 0 => l - 1 \in 1..(l - 1) /\ (l - 1) + 1 = l
        OBVIOUS
      <4>4. QED
        BY <1>3, <4>2, <4>3
    <3>2. QED
      BY <1>3, <3>1
  <2>3. QED
    BY <1>4, <1>5, <2>1, <2>2 DEF SendQueue
<1>10. QED
  BY <1>3, <1>4, <1>6, <1>7, <1>8, <1>9

\* finish() has taken e's messages out of the queue.
LEMMA FinishCallsEffect ==
    ASSUME TypeOK, NEW e \in Ends, SendQueue(e), SendQueue(Peer(e)),
           sendStreams' = [sendStreams EXCEPT ![e] = <<>>],
           written' = [written EXCEPT ![e] = FALSE], UNCHANGED <<channel, socketOpen>>
    PROVE  /\ Shrinks(e) /\ InTransit(e)' = channel[Peer(e)]
           /\ Shrinks(Peer(e)) /\ InTransit(Peer(e))' = InTransit(Peer(e))
           /\ sendStreams' \in [Ends -> Seq(Messages)] /\ written' \in [Ends -> BOOLEAN]
           /\ SendQueue(e)' /\ SendQueue(Peer(e))'
<1> DEFINE p == Peer(e)
           ch == channel[p]
           w == Unwritten(e)
<1>0. p \in Ends /\ p # e /\ Peer(p) = e
  BY PeerOfPeer
<1>1. /\ ch \in Seq(Messages) /\ w \in Seq(Messages) /\ InTransit(e) = ch \o w
  BY TransitType
<1>2. <<>> \in Seq(Messages) /\ Segment(ch, ch \o w, 0)
  <2> HIDE DEF ch, w
  <2>1. QED
    BY <1>1, FirstPart
<1>3. sendStreams \in [Ends -> Seq(Messages)] /\ written \in [Ends -> BOOLEAN]
  BY DEF TypeOK
<1>4. /\ sendStreams'[e] = <<>> /\ sendStreams'[p] = sendStreams[p]
      /\ written'[e] = FALSE /\ written'[p] = written[p]
      /\ sendStreams' \in [Ends -> Seq(Messages)] /\ written' \in [Ends -> BOOLEAN]
  BY <1>0, <1>2, <1>3
<1>5. Unwritten(e)' = <<>> /\ Peer(p)' = e /\ Peer(e)' = p
  BY <1>0, <1>4 DEF Unwritten, Peer
<1>6. InTransit(e)' = ch
  <2>1. InTransit(e)' = ch \o <<>>
    BY <1>5 DEF InTransit
  <2>2. QED
    BY <1>1, <2>1, ConcatEmptySeq
<1>7. Shrinks(e)
  BY <1>1, <1>2, <1>6, ShrinksWith
<1>8. InTransit(p)' = InTransit(p) /\ Shrinks(p)
  BY <1>4, OtherTransit
<1>9. SendQueue(e)'
  <2>1. Once(<<>>, {"request"})
    BY DEF Once
  <2>2. QED
    BY <1>4, <2>1 DEF SendQueue
<1>10. SendQueue(p)'
  BY <1>4, <1>5 DEF SendQueue
<1>11. QED
  BY <1>4, <1>6, <1>7, <1>8, <1>9, <1>10

\* e has closed its transceiver.
LEMMA FinishDoneEffect ==
    ASSUME TypeOK, NEW e \in Ends, SendQueue(e), SendQueue(Peer(e)), sendStreams[e] = <<>>,
           socketOpen' = [socketOpen EXCEPT ![e] = FALSE],
           NEW n \in 0..Len(channel[Peer(e)]),
           channel' = [channel EXCEPT ![e] = <<>>, ![Peer(e)] = Prefix(@, n)],
           UNCHANGED <<sendStreams, written>>
    PROVE  /\ Shrinks(e) /\ Shrinks(Peer(e))
           /\ channel[e] = <<>> /\ n = Len(channel[Peer(e)]) => InTransit(e)' = InTransit(e)
           /\ channel' \in [Ends -> Seq(Messages)]
           /\ SendQueue(e)' /\ SendQueue(Peer(e))'
<1> DEFINE p == Peer(e)
           ch == channel[p]
           a == Prefix(ch, n)
<1>0. p \in Ends /\ p # e /\ Peer(p) = e
  BY PeerOfPeer
<1>1. /\ ch \in Seq(Messages) /\ channel[e] \in Seq(Messages)
      /\ Unwritten(p) \in Seq(Messages) /\ InTransit(p) = channel[e] \o Unwritten(p)
      /\ InTransit(e) = ch \o Unwritten(e)
  BY <1>0, TransitType
<1>2. /\ channel \in [Ends -> Seq(Messages)] /\ socketOpen \in [Ends -> BOOLEAN]
      /\ sendStreams \in [Ends -> Seq(Messages)] /\ written \in [Ends -> BOOLEAN]
  BY DEF TypeOK
<1>3. /\ a \in Seq(Messages) /\ Segment(a, ch, 0) /\ (n = Len(ch) => a = ch)
      /\ Len(a) = n /\ n \in Nat
  <2>1. n = Len(ch) => a = ch
    BY <1>1, SubSeqFull DEF Prefix
  <2>2. a \in Seq(Messages) /\ Segment(a, ch, 0) /\ Len(a) = n
    <3> HIDE DEF ch
    <3>1. n \in 0..Len(ch)
      BY DEF ch
    <3>2. QED
      BY <1>1, <3>1, Parts, PartsAreSegments
  <2>3. QED
    BY <2>1, <2>2
<1>4. /\ channel'[e] = <<>> /\ channel'[p] = a /\ channel' \in [Ends -> Seq(Messages)]
  <2> HIDE DEF a, ch
  <2>1. channel' = [channel EXCEPT ![e] = <<>>, ![p] = a]
    BY DEF a, ch
  <2>2. <<>> \in Seq(Messages)
    OBVIOUS
  <2>3. QED
    BY <1>0, <1>2, <1>3, <2>1, <2>2
<1>5. ~written[e] /\ Unwritten(e) = <<>>
  BY DEF SendQueue, Unwritten
<1>6. Unwritten(e)' = <<>> /\ Unwritten(p)' = Unwritten(p) /\ Peer(p)' = e /\ Peer(e)' = p
  BY <1>0, <1>5 DEF Unwritten, Peer
<1>7. InTransit(e)' = a /\ InTransit(e) = ch
  <2>1. InTransit(e)' = a \o <<>> /\ InTransit(e) = ch \o <<>>
    BY <1>1, <1>4, <1>5, <1>6 DEF InTransit
  <2> HIDE DEF a, ch
  <2>2. QED
    BY <1>1, <1>3, <2>1, ConcatEmptySeq
<1>8. Shrinks(e)
  BY <1>3, <1>7, ShrinksWith
<1>9. InTransit(p)' = Unwritten(p)
  <2>1. InTransit(p)' = <<>> \o Unwritten(p)
    BY <1>4, <1>6 DEF InTransit
  <2>2. QED
    BY <1>1, <2>1, ConcatEmptySeq
<1>10. Shrinks(p)
  <2>1. Segment(Unwritten(p), channel[e] \o Unwritten(p), Len(channel[e])) /\ Len(channel[e]) \in Nat
    <3> DEFINE s == channel[e]
               t == Unwritten(p)
    <3> HIDE DEF s, t
    <3>1. s \in Seq(Messages) /\ t \in Seq(Messages)
      BY <1>1 DEF s, t
    <3>2. Segment(t, s \o t, Len(s)) /\ Len(s) \in Nat
      BY <3>1, FirstPart
    <3>3. QED
      BY <3>2 DEF s, t
  <2>2. ~socketOpen'[Peer(p)]
    BY <1>0, <1>2
  <2>3. QED
    BY <1>1, <1>9, <2>1, <2>2, ShrinksWith
<1>11. SendQueue(e)'
  BY <1>2, <1>4, <1>5 DEF SendQueue
<1>12. SendQueue(p)'
  <2>1. ~socketOpen'[p] => channel'[p] = <<>>
    <3>1. ASSUME ~socketOpen[p]
          PROVE  a = <<>>
      <4>1. ch = <<>>
        BY <1>0, <3>1 DEF SendQueue
      <4>2. Len(a) = 0
        BY <1>3, <4>1
      <4>3. QED
        BY <1>3, <4>2, EmptySeq
    <3>2. QED
      BY <1>0, <1>2, <1>4, <3>1
  <2>2. QED
    BY <1>4, <1>6, <2>1 DEF SendQueue
<1>13. QED
  BY <1>3, <1>4, <1>7, <1>8, <1>10, <1>11, <1>12

-----------------------------------------------------------------------------
(***************************************************************************)
(* The order of the messages in transit                                    *)
(***************************************************************************)

\* The calls of e that wait for a reply and have been executed.
Executed(e) == {c \in requests[e] : executions[c] # 0}

\* The messages from e are orderly, and what its peer still waits for has been
\* answered before e's close message.
Ordering(e) == Orderly(InTransit(e)) /\ Answers(InTransit(e), Executed(Peer(e)))

LEMMA ShrinkingKeepsOrdering ==
    ASSUME TypeOK, NEW e \in Ends, SendQueue(e), Ordering(e), Shrinks(e),
           Executed(Peer(e))' \subseteq Executed(Peer(e)),
           ~socketOpen'[Peer(e)] => requests'[Peer(e)] = {}
    PROVE  /\ Ordering(e)' /\ InT(e)' \subseteq InT(e)
           /\ InTransit(e) = <<>> => InTransit(e)' = <<>>
<1>1. PICK k \in Nat : /\ Segment(InTransit(e)', InTransit(e), k)
                       /\ k = 0 \/ ~socketOpen'[Peer(e)]
  BY DEF Shrinks
<1>2. InTransit(e) \in Seq(Messages) /\ InTransit(e)' \in Seq(Messages)
  BY TransitType DEF Shrinks
<1>3. Orderly(InTransit(e)') /\ Elems(InTransit(e)') \subseteq Elems(InTransit(e))
  BY <1>1, <1>2, SegmentOrderly DEF Ordering
<1>4. Answers(InTransit(e)', Executed(Peer(e))')
  <2>1. CASE k = 0
    BY <1>1, <1>2, <2>1, PrefixAnswers DEF Ordering
  <2>2. CASE ~socketOpen'[Peer(e)]
    <3>1. Peer(e)' = Peer(e)
      BY DEF Peer
    <3>2. Executed(Peer(e))' = {}
      BY <2>2, <3>1 DEF Executed
    <3>3. QED
      BY <3>2 DEF Answers
  <2>3. QED
    BY <1>1, <2>1, <2>2
<1>5. Ordering(e)'
  BY <1>3, <1>4 DEF Ordering
<1>6. InTransit(e) = <<>> => InTransit(e)' = <<>>
  <2>1. ASSUME InTransit(e) = <<>>
        PROVE  Len(InTransit(e)') = 0
    <3>1. Len(InTransit(e)') \in Nat /\ Len(InTransit(e)') + k <= 0
      BY <1>1, <1>2, <2>1 DEF Segment
    <3>2. \A l \in Nat : l + k <= 0 => l = 0
      OBVIOUS
    <3>3. QED
      BY <3>1, <3>2
  <2>2. QED
    BY <1>2, <2>1, EmptySeq
<1>7. QED
  BY <1>3, <1>5, <1>6 DEF InT

\* A message that has been read does not come a second time.
LEMMA ReadingKeepsOrdering ==
    ASSUME TypeOK, NEW e \in Ends, SendQueue(e), Ordering(e),
           InTransit(e) # <<>>, InTransit(e)' = Tail(InTransit(e)),
           Executed(Peer(e))' \subseteq Executed(Peer(e)),
           \A c \in Executed(Peer(e))' : Head(InTransit(e)) # Reply(c)
    PROVE  /\ Ordering(e)' /\ InT(e)' \subseteq InT(e) /\ Head(InTransit(e)) \in InT(e)
           /\ Head(InTransit(e)).type \in {"request", "reply"} =>
                 Head(InTransit(e)) \notin InT(e)'
           /\ \A m : m \in InT(e) => m = Head(InTransit(e)) \/ m \in InT(e)'
<1> DEFINE t == InTransit(e)
<1>1. t \in Seq(Messages)
  BY TransitType
<1>2. /\ Len(t) \in Nat \ {0} /\ t[1] = Head(t)
      /\ Tail(t) \in Seq(Messages) /\ Len(Tail(t)) = Len(t) - 1
      /\ \A i \in 1..(Len(t) - 1) : Tail(t)[i] = t[i + 1]
      /\ Tail(t) = Suffix(t, 1)
      /\ \A m : m \in Elems(t) <=> m = Head(t) \/ m \in Elems(Tail(t))
  <2> HIDE DEF t
  <2>1. t # <<>>
    BY DEF t
  <2>2. QED
    BY <1>1, <2>1, HeadAndTail
<1>3. Orderly(Tail(t)) /\ Elems(Tail(t)) \subseteq Elems(t)
  <2>1. 1 \in 0..Len(t)
    BY <1>2
  <2>2. Orderly(t)
    BY DEF Ordering
  <2> HIDE DEF t
  <2>3. Segment(Suffix(t, 1), t, 1)
    BY <1>1, <2>1, PartsAreSegments
  <2>4. QED
    BY <1>1, <1>2, <2>2, <2>3, SegmentOrderly
<1>4. Answers(Tail(t), Executed(Peer(e))')
  <2> DEFINE Q == Executed(Peer(e))'
             R == Executed(Peer(e))
  <2>1. /\ Answers(t, R) /\ Q \subseteq R
        /\ \A c \in Q : Head(t) # Reply(c)
        /\ t # <<>>
    BY DEF Ordering
  <2> HIDE DEF t, Q, R
  <2>2. Answers(Tail(t), Q)
    BY <1>1, <2>1, TailAnswers
  <2>3. QED
    BY <2>2 DEF Q
<1>5. Ordering(e)'
  BY <1>3, <1>4 DEF Ordering
<1>6. Head(t).type \in {"request", "reply"} => Head(t) \notin Elems(Tail(t))
  <2>1. ASSUME Head(t).type \in {"request", "reply"}, Head(t) \in Elems(Tail(t))
        PROVE  FALSE
    <3>1. Orderly(t)
      BY DEF Ordering
    <3> HIDE DEF t
    <3>2. PICK i \in 1..(Len(t) - 1) : Tail(t)[i] = Head(t)
      <4>1. \A m : m \in Elems(Tail(t)) <=> \E i \in 1..Len(Tail(t)) : m = Tail(t)[i]
        BY <1>2, ElemsOf
      <4>2. QED
        BY <1>2, <2>1, <4>1
    <3>3. DOMAIN t = 1..Len(t)
      BY <1>1, ElemsOf
    <3>4. i + 1 \in 1..Len(t) /\ 1 \in 1..Len(t) /\ i + 1 # 1 /\ t[i + 1] = t[1]
      BY <1>2, <3>2
    <3>5. QED
      BY <1>2, <2>1, <3>1, <3>3, <3>4 DEF Orderly, Once
  <2>2. QED
    BY <2>1
<1>7. InT(e)' = Elems(Tail(t)) /\ InT(e) = Elems(t)
  BY DEF InT
<1>8. QED
  BY <1>2, <1>3, <1>5, <1>6, <1>7

\* The messages in transit after some have been sent.
LEMMA SendsElems ==
    ASSUME TypeOK, NEW e \in Ends, SendQueue(e), NEW ms \in Seq(Messages), Sends(e, ms)
    PROVE  /\ InT(e) \subseteq InT(e)' /\ InT(e)' \subseteq InT(e) \cup Elems(ms)
           /\ socketOpen[Peer(e)] /\ state'[e] \notin Ending => Elems(ms) \subseteq InT(e)'
<1>1. PICK sent \in Seq(Messages), k \in Nat :
        /\ InTransit(e)' = InTransit(e) \o sent
        /\ Segment(sent, ms, k)
        /\ socketOpen[Peer(e)] => k = 0
        /\ socketOpen[Peer(e)] /\ state'[e] \notin Ending => sent = ms
  BY DEF Sends
<1>2. InTransit(e) \in Seq(Messages)
  BY TransitType
<1>3. \A m : m \in Elems(InTransit(e) \o sent) <=> m \in Elems(InTransit(e)) \/ m \in Elems(sent)
  BY <1>2, ElemsJoined
<1>4. Elems(sent) \subseteq Elems(ms)
  BY <1>1, SegmentOrderly
<1>5. \A m : m \in InT(e)' <=> m \in InT(e) \/ m \in Elems(sent)
  BY <1>1, <1>3 DEF InT
<1>6. QED
  BY <1>1, <1>4, <1>5

\* Nothing is sent.
LEMMA SendingNothing ==
    ASSUME TypeOK, NEW e \in Ends, SendQueue(e), Sends(e, <<>>)
    PROVE  InTransit(e)' = InTransit(e) /\ Shrinks(e)
<1>1. PICK sent \in Seq(Messages), k \in Nat :
        InTransit(e)' = InTransit(e) \o sent /\ Segment(sent, <<>>, k)
  BY DEF Sends
<1>2. sent = <<>>
  BY <1>1, MessageKinds, SmallSegments
<1>3. InTransit(e) \in Seq(Messages)
  BY TransitType
<1>4. InTransit(e)' = InTransit(e)
  BY <1>1, <1>2, <1>3, ConcatEmptySeq
<1>5. QED
  BY <1>3, <1>4, SameShrinks

\* A message is sent that may follow those in transit.
LEMMA SendingOneKeepsOrdering ==
    ASSUME TypeOK, NEW e \in Ends, SendQueue(e), Ordering(e), NEW m \in Messages,
           Sends(e, <<m>>), Executed(Peer(e))' \subseteq Executed(Peer(e)),
           Close \in InT(e) => m = Close,
           m.type \in {"request", "reply"} => m \notin InT(e),
           m = Close => \A c \in Executed(Peer(e))' : Reply(c) \in InT(e)
    PROVE  Ordering(e)'
<1>1. PICK sent \in Seq(Messages), k \in Nat :
        InTransit(e)' = InTransit(e) \o sent /\ Segment(sent, <<m>>, k)
  BY DEF Sends
<1>2. sent \in {<<>>, <<m>>}
  BY <1>1, SmallSegments
<1>3. InTransit(e) \in Seq(Messages)
  BY TransitType
<1> DEFINE t == InTransit(e)
           R == Executed(Peer(e))
           Q == Executed(Peer(e))'
<1>4. /\ Orderly(t) /\ Answers(t, R) /\ Q \subseteq R
      /\ Close \in Elems(t) => m = Close
      /\ m.type \in {"request", "reply"} => m \notin Elems(t)
      /\ m = Close => \A c \in Q : Reply(c) \in Elems(t)
  BY DEF Ordering, InT
<1>5. Orderly(t \o sent) /\ Answers(t \o sent, Q)
  <2>1. t \in Seq(Messages)
    BY <1>3
  <2> HIDE DEF t, R, Q
  <2>2. QED
    BY <1>2, <1>4, <2>1, SendOne
<1>6. QED
  BY <1>1, <1>5 DEF Ordering

\* The reply to d is sent, with the close message behind it.
LEMMA SendingTwoKeepsOrdering ==
    ASSUME TypeOK, NEW e \in Ends, SendQueue(e), Ordering(e), NEW d \in Calls,
           Sends(e, <<Reply(d), Close>>), Executed(Peer(e))' \subseteq Executed(Peer(e)),
           Close \notin InT(e), Reply(d) \notin InT(e),
           \A c \in Executed(Peer(e))' : Reply(c) \in InT(e) \/ c = d,
           ~socketOpen[Peer(e)] => Executed(Peer(e))' = {}
    PROVE  Ordering(e)'
<1>1. PICK sent \in Seq(Messages), k \in Nat :
        /\ InTransit(e)' = InTransit(e) \o sent /\ Segment(sent, <<Reply(d), Close>>, k)
        /\ socketOpen[Peer(e)] => k = 0
  BY DEF Sends
<1>2. /\ sent \in {<<>>, <<Reply(d)>>, <<Close>>, <<Reply(d), Close>>}
      /\ k = 0 => sent \in {<<>>, <<Reply(d)>>, <<Reply(d), Close>>}
  BY <1>1, MessageKinds, SmallSegments
<1>3. InTransit(e) \in Seq(Messages)
  BY TransitType
<1>4. sent = <<Close>> => ~socketOpen[Peer(e)]
  <2>1. <<Close>> # <<>> /\ <<Close>> # <<Reply(d)>> /\ <<Close>> # <<Reply(d), Close>>
    <3>1. Close # Reply(d)
      BY MessageKinds
    <3>2. QED
      BY <3>1
  <2>2. QED
    BY <1>1, <1>2, <2>1
<1> DEFINE t == InTransit(e)
           R == Executed(Peer(e))
           Q == Executed(Peer(e))'
<1>5. /\ Orderly(t) /\ Answers(t, R) /\ Q \subseteq R
      /\ Close \notin Elems(t) /\ Reply(d) \notin Elems(t)
      /\ \A c \in Q : Reply(c) \in Elems(t) \/ c = d
      /\ sent = <<Close>> => Q = {}
  BY <1>4 DEF Ordering, InT
<1>6. Orderly(t \o sent) /\ Answers(t \o sent, Q)
  <2>1. t \in Seq(Messages)
    BY <1>3
  <2> HIDE DEF t, R, Q
  <2>2. QED
    BY <1>2, <1>5, <2>1, SendTwo
<1>7. QED
  BY <1>1, <1>6 DEF Ordering
=============================================================================
