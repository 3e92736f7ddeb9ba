---------------------- MODULE IceStormSurvival_proofs ----------------------
(***************************************************************************)
(* Proofs about IceStormElection: an update that a client was told of is   *)
(* served by every later master that a majority follows, unless one of its *)
(* subscribers has failed.  As in a consensus protocol the argument is     *)
(* that two majorities meet: the nodes that have taken the update, and     *)
(* those on whose LLUs the coordinator of a newer generation has counted.  *)
(* A slave that was counted on must then take no more updates of an older  *)
(* generation; the code does not see to that, and the lapse "overruled"    *)
(* names the runs where it happens.                                        *)
(***************************************************************************)
EXTENDS IceStormElection_proofs

-----------------------------------------------------------------------------
(***************************************************************************)
(* The inductive invariant                                                 *)
(***************************************************************************)

\* More than half of the nodes.
Quorum(s) == Cardinality(s) > Majority
\* The database of node s is not older than LLU l.
Reached(l, s) == ~Newer(l, llu[s])

\* Who has stamped a generation has counted on the LLUs of a majority, and a database has
\* the generation of a stamp.
CountedOK ==
    /\ counted \in [Nodes -> Nat]
    /\ \A y \in stamped : Quorum({x \in Nodes : counted[x] >= y.generation})
    /\ \A s \in Nodes : llu[s][1] = 0 \/ \E y \in stamped : y.generation = llu[s][1]

\* The LLU of an update is one that the master of its generation has given.
LedBy(l) == \E c \in Nodes, group \in 0..MaxMerges : Won(c, group, l[1]) /\ Reached(l, c)
IterationsOK ==
    /\ \A n \in Nodes : Synced(n) => llu[n][2] = 0
    /\ \A s \in Nodes : llu[s][2] = 0 \/ LedBy(llu[s])

\* The observers of a node are finitely many, each once, and not among those to be initialised.
ObserversOK(n) ==
    /\ Distinct(observers[n])
    /\ merging[n].step = "init" => \A o \in observers[n], a \in merging[n].todo : o.id # a.id

\* The updates whose clients wait.
UnderWay(m) == committed[m] \cup
    (IF sending[m] = None THEN {} ELSE {[id |-> sending[m].id, llu |-> sending[m].llu]})

\* The updates that node s serves, for which a subscriber has failed, or that it is the
\* master of: a topic that it creates is in its database, and not yet in _topics.
Served(s) == topics[s] \cup errored \cup Ids(UnderWay(s))

\* Nothing else is in a database but topics that were not installed, and those only on
\* the node that created them.
InstalledOK(n) ==
    /\ data[n] \subseteq topics[n] \cup creations \cup errored
    /\ \/ data[n] \subseteq topics[n] \cup errored
       \/ \E x \in stamped : x.id = n /\ x.coord = n /\ x.generation = llu[n][1]
ErroredOK == \A n \in Nodes : InstalledOK(n)

\* Observer x has answered that it has taken update v.
Answered(m, v, x) ==
    sending[m] # None /\ sending[m].id = v.id /\ \E o \in observers[m] \ sending[m].todo : o.id = x

\* No majority will take update v: newer coordinators have counted on too many nodes.
Lost(m, v) == Quorum({x \in Others(m) : counted[x] > llu[m][1] /\ ~Answered(m, v, x)})

\* An update is served by every node whose database is as new, or lost.
VersionOK(m, v) ==
    /\ v.llu[2] > 0
    /\ \A s \in Nodes : Reached(v.llu, s) => v.id \in Served(s) \/ Lost(m, v)
    /\ \A x \in Nodes : Answered(m, v, x) => Reached(v.llu, x)
PendingOK(m) == \A v \in UnderWay(m) : VersionOK(m, v)
PendingApart ==
    \A m, n \in Nodes : m # n => \A v \in UnderWay(m), w \in UnderWay(n) : v.id # w.id

\* An update that a client was told of has reached a majority, and is served by every node
\* whose database is as new.
AckedOK(v) ==
    /\ Quorum({s \in Nodes : Reached(v.llu, s)})
    /\ \A s \in Nodes : Reached(v.llu, s) => v.id \in Served(s)
    /\ LedBy(v.llu)
    /\ \A m \in Nodes : \A w \in UnderWay(m) : w.id # v.id

HeldOK ==
    /\ CountedOK /\ IterationsOK /\ PendingApart
    /\ \A n \in Nodes : ObserversOK(n) /\ PendingOK(n)
    /\ \A v \in acked : AckedOK(v)

\* A coordinator is not a member of its own group.
ApartOK(n) ==
    /\ merging[n].step # "none" =>
          /\ \A a \in node[n].up : a.id # n
          /\ \A msg \in mail : msg.type = "accept" /\ msg.group = node[n].group => msg.info.id # n
    /\ merging[n].step \in {"sync", "init", "ready"} => \A a \in merging[n].members : a.id # n

\* Who has told its LLU to a coordinator is no master until it has another.
ToldOK(i) ==
    /\ ~Newer(i.llu, llu[i.id])
    /\ llu[i.id] = i.llu => ~Master(i.id) /\ ~Synced(i.id)
InfosOK ==
    /\ \A n \in Nodes : \A i \in node[n].up : ToldOK(i)
    /\ \A n \in Nodes : merging[n].step = "sync" => \A i \in merging[n].members : ToldOK(i)
    /\ \A msg \in mail : msg.type = "accept" => ToldOK(msg.info)

SurvivalOK == HeldOK /\ ErroredOK /\ InfosOK /\ \A n \in Nodes : ApartOK(n)
-----------------------------------------------------------------------------
(***************************************************************************)
(* Majorities                                                              *)
(***************************************************************************)

\* Two majorities have a node in common.
LEMMA QuorumsMeet ==
    ASSUME NEW A \in SUBSET Nodes, NEW B \in SUBSET Nodes, Quorum(A), Quorum(B)
    PROVE  \E s \in Nodes : s \in A /\ s \in B
<1>1. A \subseteq Nodes /\ B \subseteq Nodes /\ IsFiniteSet(Nodes)
  BY NodesAssumption
<1>2. Cardinality(A) \in Nat /\ Cardinality(B) \in Nat
  BY <1>1, FS_Subset, FS_CardinalityType
<1>3. Cardinality(A) + Cardinality(B) > Cardinality(Nodes)
  BY <1>2, MajorityType DEF Quorum
<1>4. A \cap B # {}
  BY <1>1, <1>3, FS_MajoritiesIntersect
<1>5. QED
  BY <1>4

\* A set that holds a majority is one.
LEMMA QuorumGrows ==
    ASSUME NEW A, NEW B \in SUBSET Nodes, A \subseteq B, Quorum(A)
    PROVE  Quorum(B)
<1>1. IsFiniteSet(B) /\ IsFiniteSet(A)
  BY NodesAssumption, FS_Subset
<1>2. Cardinality(A) <= Cardinality(B)
  BY <1>1, FS_Subset
<1>3. QED
  BY <1>1, <1>2, MajorityType, FS_CardinalityType DEF Quorum

\* The larger of two numbers.
LEMMA MaxIsLarger == \A a, b \in Nat : Max({a, b}) \in Nat /\ Max({a, b}) >= a /\ Max({a, b}) >= b
<1> SUFFICES ASSUME NEW a \in Nat, NEW b \in Nat
             PROVE  Max({a, b}) \in Nat /\ Max({a, b}) >= a /\ Max({a, b}) >= b
  OBVIOUS
<1>1. \E x \in {a, b} : \A y \in {a, b} : x >= y
  OBVIOUS
<1>2. Max({a, b}) \in {a, b} /\ \A y \in {a, b} : Max({a, b}) >= y
  BY <1>1 DEF Max
<1>3. QED
  BY <1>2

(***************************************************************************)
(* What a step keeps of an update                                          *)
(***************************************************************************)

\* No stamp is lost, no database gets older, and who was counted on stays so.
Grows ==
    /\ stamped \subseteq stamped'
    /\ \A s \in Nodes :
          ~Newer(llu[s], llu'[s]) /\ counted'[s] \in Nat /\ counted[s] <= counted'[s]

\* A node whose database is as new as an update after a step serves it, or has got it from
\* one whose database was as new.
Inherits(v) ==
    \A s \in Nodes : Reached(v.llu, s)' =>
        \/ v.id \in Served(s)'
        \/ \E t \in Nodes : Reached(v.llu, t) /\ (v.id \in Served(t) => v.id \in Served(s)')

\* Who has reached an LLU stays there, and who has given one has given it.
LEMMA GrowsKeeps ==
    ASSUME TypesOK, TypesOK', Grows
    PROVE  /\ \A l \in Stamps : \A s \in Nodes : Reached(l, s) => Reached(l, s)'
           /\ \A l \in Stamps : LedBy(l) => LedBy(l)'
<1>1. ASSUME NEW l \in Stamps, NEW s \in Nodes, Reached(l, s)
      PROVE  Reached(l, s)'
  <2>1. llu[s] \in Stamps /\ llu'[s] \in Stamps
    BY DEF TypesOK, DataOK
  <2>2. ~Newer(l, llu[s]) /\ ~Newer(llu[s], llu'[s])
    BY <1>1 DEF Reached, Grows
  <2>3. ~Newer(l, llu'[s])
    BY <2>1, <2>2, NewerOrder
  <2>4. QED
    BY <2>3 DEF Reached
<1>2. ASSUME NEW l \in Stamps, LedBy(l)
      PROVE  LedBy(l)'
  <2>1. PICK c \in Nodes, group \in 0..MaxMerges : Won(c, group, l[1]) /\ Reached(l, c)
    BY <1>2 DEF LedBy
  <2>2. Reached(l, c)'
    BY <1>1, <2>1
  <2>3. PICK g : g = l[1]
    OBVIOUS
  <2>4. Won(c, group, g)'
    BY <2>1, <2>3, WonStays DEF Grows
  <2>5. QED
    BY <2>2, <2>3, <2>4 DEF LedBy
<1>3. QED
  BY <1>1, <1>2

\* CountedOK is kept when a new generation has counted on a majority, and an LLU is
\* one of the old ones or of a stamp.
LEMMA CountedKept ==
    ASSUME TypesOK, CountedOK, Grows, counted' \in [Nodes -> Nat],
           \A y \in stamped' : y \in stamped
              \/ (\E z \in stamped : z.generation = y.generation)
              \/ Quorum({x \in Nodes : counted'[x] >= y.generation}),
           \A s \in Nodes : \/ llu'[s][1] = llu[s][1]
                            \/ \E t \in Nodes : llu'[s][1] = llu[t][1]
                            \/ \E y \in stamped' : y.generation = llu'[s][1]
    PROVE  CountedOK'
<1>1. ASSUME NEW y \in stamped'
      PROVE  Quorum({x \in Nodes : counted'[x] >= y.generation})
  <2>1. ASSUME NEW z \in stamped, z.generation = y.generation
        PROVE  Quorum({x \in Nodes : counted'[x] >= y.generation})
    <3>1. z.generation \in Nat
      BY DEF TypesOK, StampedOK
    <3>2. \A x \in Nodes : counted[x] \in Nat /\ counted'[x] \in Nat /\ counted[x] <= counted'[x]
      BY DEF CountedOK, Grows
    <3>3. {x \in Nodes : counted[x] >= z.generation} \subseteq
             {x \in Nodes : counted'[x] >= y.generation}
      BY <2>1, <3>1, <3>2
    <3>4. Quorum({x \in Nodes : counted[x] >= z.generation})
      BY DEF CountedOK
    <3>5. QED
      BY <3>3, <3>4, QuorumGrows
  <2>2. QED
    BY <2>1
<1>2. \A s \in Nodes : llu'[s][1] = 0 \/ \E y \in stamped' : y.generation = llu'[s][1]
  BY DEF CountedOK, Grows
<1>3. QED
  BY <1>1, <1>2 DEF CountedOK, Quorum

\* IterationsOK is kept when an LLU is one of the old ones, has no iteration, or is
\* one that a master has given.
LEMMA IterationsKept ==
    ASSUME TypesOK, TypesOK', IterationsOK, Grows,
           \A n \in Nodes : Synced(n)' => llu'[n][2] = 0 \/ (Synced(n) /\ llu'[n] = llu[n]),
           \A s \in Nodes : \/ llu'[s][2] = 0 \/ LedBy(llu[s])'
                            \/ \E t \in Nodes : llu'[s] = llu[t]
    PROVE  IterationsOK'
<1>1. \A s \in Nodes : llu'[s][2] = 0 \/ LedBy(llu[s])'
  <2>1. ASSUME NEW s \in Nodes, NEW t \in Nodes, llu'[s] = llu[t]
        PROVE  llu'[s][2] = 0 \/ LedBy(llu[s])'
    <3>1. PICK l \in Stamps : l = llu[t]
      BY DEF TypesOK, DataOK
    <3>2. l[2] = 0 \/ LedBy(l)
      BY <3>1 DEF IterationsOK
    <3>3. l[2] = 0 \/ LedBy(l)'
      BY <3>2, GrowsKeeps
    <3>4. QED
      BY <2>1, <3>1, <3>3 DEF LedBy, Reached
  <2>2. QED
    BY <2>1
<1>2. QED
  BY <1>1 DEF IterationsOK

\* An update under way is a master's, has been shared with its group, and is of its
\* generation.
LEMMA PendingFacts ==
    ASSUME TypesOK, ElectionOK, NamesOK, NEW m \in Nodes, NEW v \in UnderWay(m)
    PROVE  /\ Master(m) /\ v.llu \in Stamps /\ v.llu[1] = llu[m][1] /\ v.id \in shared[m]
           /\ v.id \in 1..updates /\ Reached(v.llu, m) /\ LedBy(v.llu)
<1>1. Master(m) /\ UpdateOK(m) /\ MasterOK(m) /\ RoleOK(m)
  BY DEF UnderWay, ElectionOK, UpdateOK, NamesOK, Quiet
<1>2. /\ v.llu \in Stamps /\ v.llu[1] = llu[m][1] /\ v.id \in shared[m] /\ v.id \in 1..updates
      /\ ~Newer(v.llu, llu[m])
  <2>1. CASE v \in committed[m]
    BY <1>1, <2>1, Facts DEF UpdateOK, MasterOK, VersionsInOrder, Versions
  <2>2. CASE sending[m] # None /\ v = [id |-> sending[m].id, llu |-> sending[m].llu]
    BY <1>1, <2>2, SendingKinds DEF UpdateOK, MasterOK, VersionsInOrder, TypesOK
  <2>3. QED
    BY <2>1, <2>2 DEF UnderWay
<1>3. PICK g : g = llu[m][1]
  OBVIOUS
<1>4. Won(node[m].coord, node[m].group, g)
  BY <1>1, <1>3 DEF RoleOK, Master
<1>5. node[m].coord \in Nodes /\ node[m].group \in 0..MaxMerges
  BY Facts DEF NodeRecords
<1>6. LedBy(v.llu)
  <2>1. Reached(v.llu, m) /\ v.llu[1] = g
    BY <1>2, <1>3 DEF Reached
  <2>2. node[m].coord = m
    BY <1>1 DEF RoleOK, Master
  <2>3. QED
    BY <1>4, <1>5, <2>1, <2>2 DEF LedBy
<1>7. QED
  BY <1>1, <1>2, <1>6 DEF Reached

\* A generation has one master.
LEMMA OneMaster ==
    ASSUME TypesOK, ElectionOK, NEW m \in Nodes, NEW n \in Nodes, Master(m), Master(n),
           llu[m][1] = llu[n][1]
    PROVE  m = n
<1>1. node[m].coord = m /\ node[n].coord = n /\ node[m].generation = node[n].generation
  BY DEF ElectionOK, RoleOK, Master
<1>2. QED
  BY <1>1, SameGeneration DEF Master

\* The LLUs of a master's generation have been given by it.
LEMMA LedByMaster ==
    ASSUME TypesOK, ElectionOK, NEW m \in Nodes, Master(m), NEW l \in Stamps, LedBy(l),
           l[1] = llu[m][1]
    PROVE  Reached(l, m)
<1>1. PICK c \in Nodes, group \in 0..MaxMerges : Won(c, group, llu[m][1]) /\ Reached(l, c)
  BY DEF LedBy
<1>2. node[m].coord = c
  BY <1>1, GroupOfGeneration DEF OnDuty, Master
<1>3. node[m].coord = m
  BY DEF ElectionOK, RoleOK, Master
<1>4. QED
  BY <1>1, <1>2, <1>3

\* An update under way keeps its argument when no node answers without it, and the
\* nodes whose databases get as new as the update serve it.
LEMMA VersionKept ==
    ASSUME TypesOK, TypesOK', ElectionOK, NamesOK, CountedOK, Grows, NEW m \in Nodes,
           NEW v \in UnderWay(m), VersionOK(m, v), llu'[m][1] = llu[m][1],
           \A x \in Nodes : Answered(m, v, x)' =>
              Answered(m, v, x) \/ (Reached(v.llu, x)' /\ ~(counted[x] > llu[m][1])),
           Inherits(v) \/ Lost(m, v)'
    PROVE  VersionOK(m, v)'
<1>1. v.llu \in Stamps
  BY PendingFacts
<1>2. v.llu[2] > 0
  BY DEF VersionOK
<1>3. Lost(m, v) => Lost(m, v)'
  <2> DEFINE A == {x \in Others(m) : counted[x] > llu[m][1] /\ ~Answered(m, v, x)}
             B == {x \in Others(m) : counted'[x] > llu'[m][1] /\ ~Answered(m, v, x)'}
  <2>1. ASSUME NEW x \in A
        PROVE  x \in B
    <3>1. x \in Nodes /\ counted[x] \in Nat /\ counted'[x] \in Nat /\ counted[x] <= counted'[x]
      BY DEF CountedOK, Grows, Others
    <3>2. counted[x] > llu[m][1] /\ ~Answered(m, v, x) /\ x \in Others(m)
      OBVIOUS
    <3>3. ~Answered(m, v, x)'
      BY <3>1, <3>2
    <3>4. llu[m][1] \in Nat
      BY Facts
    <3>5. QED
      BY <3>1, <3>2, <3>3, <3>4
  <2>2. A \subseteq B /\ B \subseteq Nodes
    BY <2>1 DEF Others
  <2>3. (Lost(m, v) <=> Quorum(A)) /\ (Lost(m, v)' <=> Quorum(B))
    BY DEF Lost, Quorum
  <2> HIDE DEF A, B
  <2>4. QED
    BY <2>2, <2>3, QuorumGrows
<1>4. ASSUME NEW s \in Nodes, Reached(v.llu, s)'
      PROVE  v.id \in Served(s)' \/ Lost(m, v)'
  BY <1>3, <1>4 DEF VersionOK, Inherits
<1>5. ASSUME NEW x \in Nodes, Answered(m, v, x)'
      PROVE  Reached(v.llu, x)'
  <2>1. CASE Answered(m, v, x)
    BY <1>1, <2>1, GrowsKeeps DEF VersionOK
  <2>2. QED
    BY <1>5, <2>1
<1>6. QED
  BY <1>2, <1>4, <1>5 DEF VersionOK

\* The same of all the updates under way at a node.
LEMMA PendingKept ==
    ASSUME TypesOK, TypesOK', ElectionOK, NamesOK, CountedOK, Grows, NEW m \in Nodes,
           PendingOK(m), UnderWay(m)' \subseteq UnderWay(m), llu'[m][1] = llu[m][1],
           \A v \in UnderWay(m)' : \A x \in Nodes : Answered(m, v, x)' =>
              Answered(m, v, x) \/ (Reached(v.llu, x)' /\ ~(counted[x] > llu[m][1])),
           \A v \in UnderWay(m)' : Inherits(v) \/ Lost(m, v)'
    PROVE  PendingOK(m)'
<1> SUFFICES ASSUME NEW v \in UnderWay(m)'
             PROVE  VersionOK(m, v)'
  BY DEF PendingOK
<1>1. v \in UnderWay(m) /\ VersionOK(m, v)
  BY DEF PendingOK
<1>2. QED
  BY <1>1, VersionKept

\* An update that a client was told of keeps its argument when every node whose database
\* is as new served it before the step, or has it from one that did.
LEMMA AckedKept ==
    ASSUME TypesOK, TypesOK', Grows, NEW v \in acked, AckedOK(v), Inherits(v),
           \A m \in Nodes : \A w \in UnderWay(m)' : w \in UnderWay(m) \/ w.id # v.id
    PROVE  AckedOK(v)'
<1>1. PICK l \in Stamps : l = v.llu
  BY DEF TypesOK, DataOK, Versions
<1>2. LedBy(l)' /\ \A s \in Nodes : Reached(l, s) => Reached(l, s)'
  BY <1>1, GrowsKeeps DEF AckedOK
<1>3. {s \in Nodes : Reached(l, s)} \subseteq {s \in Nodes : Reached(l, s)'}
  BY <1>2
<1>4. Quorum({s \in Nodes : Reached(l, s)'})
  BY <1>1, <1>3, QuorumGrows DEF AckedOK
<1>5. \A s \in Nodes : Reached(v.llu, s)' => v.id \in Served(s)'
  BY DEF AckedOK, Inherits
<1>6. \A m \in Nodes : \A w \in UnderWay(m)' : w.id # v.id
  BY DEF AckedOK
<1>7. QED
  BY <1>1, <1>2, <1>4, <1>5, <1>6 DEF AckedOK, Quorum

\* A step that changes no LLU, makes no update and no answer, and after which the nodes
\* serve what they have served, but for updates that are not under way any more.
Still ==
    /\ UNCHANGED <<llu, stamped, counted>>
    /\ \A x \in Nodes :
          /\ Synced(x)' => Synced(x)
          /\ merging'[x].step = "init" => merging'[x] = merging[x]
          /\ observers'[x] \subseteq observers[x] /\ UnderWay(x)' \subseteq UnderWay(x)
          /\ \A v \in UnderWay(x)' : \A y \in Nodes : Answered(x, v, y)' => Answered(x, v, y)
          /\ Served(x) \subseteq Served(x)' \cup Ids(UnderWay(x) \ UnderWay(x)')

\* The updates under way at a master are apart.
LEMMA UnderWayDistinct ==
    ASSUME TypesOK, ElectionOK, NamesOK, NEW m \in Nodes, NEW v \in UnderWay(m),
           NEW w \in UnderWay(m), v.id = w.id
    PROVE  v = w
<1>1. Master(m) /\ VersionsInOrder(m)
  BY PendingFacts DEF NamesOK, MasterOK
<1>2. PICK u : u = [id |-> sending[m].id, llu |-> sending[m].llu]
  OBVIOUS
<1>3. /\ v \in committed[m] \/ (sending[m] # None /\ v = u)
      /\ w \in committed[m] \/ (sending[m] # None /\ w = u)
      /\ u.id = sending[m].id
  BY <1>2 DEF UnderWay
<1>4. QED
  BY <1>1, <1>3 DEF VersionsInOrder

\* Such a step leaves an update that is still under way, or is no more, with those who
\* serve it.
LEMMA StillInherits ==
    ASSUME TypesOK, ElectionOK, NamesOK, PendingApart, Still, NEW v,
           \/ \E m \in Nodes : v \in UnderWay(m)'
           \/ \A m \in Nodes : \A w \in UnderWay(m) : w.id # v.id
    PROVE  Inherits(v)
<1>1. ASSUME NEW s \in Nodes, v.id \in Served(s), v.id \notin Served(s)'
      PROVE  FALSE
  <2>1. v.id \in Ids(UnderWay(s) \ UnderWay(s)')
    BY <1>1 DEF Still
  <2>2. PICK w \in UnderWay(s) : w \notin UnderWay(s)' /\ w.id = v.id
    BY <2>1 DEF Ids
  <2>3. PICK m \in Nodes : v \in UnderWay(m)'
    BY <2>2
  <2>4. v \in UnderWay(m)
    BY <2>3 DEF Still
  <2>5. m = s
    BY <2>2, <2>4 DEF PendingApart
  <2>6. v = w
    BY <2>2, <2>4, <2>5, UnderWayDistinct
  <2>7. QED
    BY <2>2, <2>3, <2>5, <2>6
<1>2. \A s \in Nodes : Reached(v.llu, s)' => Reached(v.llu, s)
  BY DEF Still, Reached
<1>3. QED
  BY <1>1, <1>2 DEF Inherits

\* Such a step keeps the argument, if the updates that the clients are told of have it.
LEMMA StillHeld ==
    ASSUME TypesOK, TypesOK', ElectionOK, NamesOK, HeldOK, Still,
           \A v \in acked' : v \in acked \/ AckedOK(v)'
    PROVE  HeldOK'
<1>1. \A s \in Nodes : llu[s] \in Stamps /\ counted[s] \in Nat
  BY DEF TypesOK, DataOK, HeldOK, CountedOK
<1>2. Grows
  BY <1>1, NewerOrder DEF Still, Grows
<1>3. /\ \A x \in Nodes : \A v \in UnderWay(x)' : Inherits(v)
      /\ \A v \in acked : Inherits(v)
  BY StillInherits DEF HeldOK, AckedOK
<1>4. CountedOK'
  BY DEF HeldOK, CountedOK, Still, Quorum
<1>5. IterationsOK'
  BY <1>2, IterationsKept DEF HeldOK, Still
<1>6. PendingApart'
  <2>1. \A x \in Nodes : UnderWay(x)' \subseteq UnderWay(x)
    BY DEF Still
  <2>2. PendingApart
    BY DEF HeldOK
  <2>3. QED
    BY <2>1, <2>2 DEF PendingApart
<1>7. ASSUME NEW n \in Nodes
      PROVE  ObserversOK(n)' /\ PendingOK(n)'
  <2>1. ObserversOK(n)'
    <3>1. IsFiniteSet(observers'[n])
      BY FS_Subset DEF Still, HeldOK, ObserversOK, Distinct
    <3>2. QED
      BY <3>1 DEF Still, HeldOK, ObserversOK, Distinct
  <2>2. PendingOK(n)'
    BY <1>2, <1>3, PendingKept DEF HeldOK, Still
  <2>3. QED
    BY <2>1, <2>2
<1>8. \A v \in acked : AckedOK(v)'
  BY <1>2, <1>3, AckedKept DEF HeldOK, Still
<1>9. QED
  BY <1>4, <1>5, <1>6, <1>7, <1>8 DEF HeldOK

-----------------------------------------------------------------------------
(***************************************************************************)
(* The steps that touch no replica                                         *)
(***************************************************************************)

\* Steps that leave what the nodes serve, the updates and the observers alone.
LEMMA StillIf ==
    ASSUME UNCHANGED <<llu, topics, errored, stamped, counted, committed, sending, observers>>,
           \A x \in Nodes : \/ merging'[x] = merging[x]
                            \/ merging'[x].step \notin {"init", "ready"}
                            \/ merging[x].step = "ready" /\ merging'[x].step = "ready"
    PROVE  Still
<1>1. \A x \in Nodes : UnderWay(x)' = UnderWay(x) /\ Served(x)' = Served(x)
  BY DEF UnderWay, Served
<1>2. QED
  BY <1>1 DEF Still, Synced, Answered

\* recovery() in the middle of a merge leaves them alone.
LEMMA GiveUpStill ==
    ASSUME TypesOK, NEW n \in Nodes, GiveUp(n),
           UNCHANGED <<llu, topics, errored, stamped, counted, committed, sending, observers>>
    PROVE  Still
<1>1. \A x \in Nodes : merging'[x] = merging[x] \/ merging'[x] = None
  BY GiveUpFacts DEF Others
<1>2. QED
  BY <1>1, StillIf DEF None

\* So do the timer's tasks, but for the initialisation of the databases.
LEMMA TimerStill ==
    ASSUME TypesOK, NEW n \in Nodes,
           \/ Check(n) \/ Merge(n) \/ TimeoutAsk(n) \/ TimeoutRecover(n) \/ MergeContinue(n)
           \/ ReadySlave(n) \/ ReadyDone(n)
    PROVE  Still
<1>1. CASE Check(n) \/ TimeoutAsk(n) \/ TimeoutRecover(n)
  BY <1>1, StillIf DEF Check, TimeoutAsk, TimeoutRecover, processVars, replicaVars, history
<1>2. CASE Merge(n)
  <2>1. UNCHANGED <<llu, topics, errored, stamped, counted, committed, sending, observers>>
    BY <1>2 DEF Merge, replicaVars, history
  <2>2. \A x \in Nodes : merging'[x] = merging[x] \/ merging'[x].step = "pending"
    BY <1>2 DEF Merge, TypesOK, MergingsOK
  <2>3. QED
    BY <2>1, <2>2, StillIf
<1>3. CASE MergeContinue(n)
  <2>1. UNCHANGED <<llu, topics, errored, stamped, counted, committed, sending, observers>>
    BY <1>3 DEF MergeContinue, replicaVars, history
  <2>2. CASE GiveUp(n)
    BY <2>1, <2>2, GiveUpStill
  <2>3. CASE merging' = [merging EXCEPT ![n] =
                            [step |-> "sync", group |-> node[n].group, members |-> node[n].up]]
    <3>1. \A x \in Nodes : merging'[x] = merging[x] \/ merging'[x].step = "sync"
      BY <2>3 DEF TypesOK, MergingsOK
    <3>2. QED
      BY <2>1, <3>1, StillIf
  <2>4. QED
    BY <1>3, <2>2, <2>3 DEF MergeContinue
<1>4. CASE ReadySlave(n)
  <2>1. UNCHANGED <<llu, topics, errored, stamped, counted, committed, sending, observers>>
    BY <1>4 DEF ReadySlave, replicaVars
  <2>2. merging[n].step = "ready" /\ merging[n] \in Inits
    BY <1>4, MergingKinds DEF ReadySlave, TypesOK
  <2>3. CASE merging' = [merging EXCEPT ![n] = None]
    <3>1. \A x \in Nodes : merging'[x] = merging[x] \/ merging'[x] = None
      BY <2>3 DEF TypesOK, MergingsOK
    <3>2. QED
      BY <2>1, <3>1, StillIf DEF None
  <2>4. CASE merging' = [merging EXCEPT ![n].todo = @ \ {NextOf(merging[n].todo)}]
    <3>1. /\ \A x \in Others(n) : merging'[x] = merging[x]
          /\ merging'[n] = [merging[n] EXCEPT !.todo = @ \ {NextOf(merging[n].todo)}]
      BY <2>4 DEF TypesOK, MergingsOK, Others
    <3>2. merging'[n].step = "ready"
      BY <2>2, <3>1 DEF Inits
    <3>3. QED
      BY <2>1, <2>2, <3>1, <3>2, StillIf DEF Others
  <2>5. QED
    BY <1>4, <2>3, <2>4 DEF ReadySlave
<1>5. CASE ReadyDone(n)
  <2>1. UNCHANGED <<llu, topics, errored, stamped, counted, committed, sending, observers>>
    BY <1>5 DEF ReadyDone, replicaVars, history
  <2>2. \A x \in Nodes : merging'[x] = merging[x] \/ merging'[x] = None
    BY <1>5 DEF ReadyDone, TypesOK, MergingsOK
  <2>3. QED
    BY <2>1, <2>2, StillIf DEF None
<1>6. QED
  BY <1>1, <1>2, <1>3, <1>4, <1>5

\* So do invitation() and accept().
LEMMA DispatchStill == Dispatch => Still
<1>1. ASSUME NEW msg \in mail, Invitation(msg) \/ Accept(msg)
      PROVE  Still
  BY <1>1, StillIf DEF Invitation, Accept, processVars, replicaVars, history
<1>2. ASSUME NEW n \in Nodes, Join(n)
      PROVE  Still
  BY <1>2, StillIf DEF Join, replicaVars
<1>3. QED
  BY <1>1, <1>2 DEF Dispatch

\* So does a crash, and a restart that resets no LLU serves no less.
LEMMA CrashStill ==
    ASSUME TypesOK, ReplicasOK, ContentOK, NEW n \in Nodes, Crash(n) \/ Restart(n), lapses' = {}
    PROVE  Still
<1>1. CASE Crash(n)
  <2>1. UNCHANGED <<llu, topics, errored, stamped, counted>>
    BY <1>1 DEF Crash, history
  <2>2. /\ observers'[n] = {} /\ committed'[n] = {} /\ sending'[n] = None /\ merging'[n] = None
        /\ \A x \in Others(n) : /\ UNCHANGED <<committed[x], sending[x], observers[x]>>
                                /\ merging'[x] = merging[x]
    BY <1>1 DEF Crash, TypesOK, DataOK, VersionsOK, MergingsOK, Others
  <2>3. UnderWay(n)' = {} /\ \A x \in Others(n) : UnderWay(x)' = UnderWay(x)
    BY <2>2 DEF UnderWay
  <2>4. \A x \in Nodes : Served(x) \subseteq Served(x)' \cup Ids(UnderWay(x) \ UnderWay(x)')
    <3>1. \A x \in Nodes : UnderWay(x)' = UnderWay(x) \/ UnderWay(x)' = {}
      BY <2>3 DEF Others
    <3>2. ASSUME NEW x \in Nodes
          PROVE  Served(x) \subseteq Served(x)' \cup Ids(UnderWay(x) \ UnderWay(x)')
      <4>1. topics'[x] = topics[x] /\ errored' = errored
        BY <2>1
      <4>2. CASE UnderWay(x)' = UnderWay(x)
        BY <4>1, <4>2 DEF Served
      <4>3. CASE UnderWay(x)' = {}
        BY <4>1, <4>3 DEF Served
      <4>4. QED
        BY <3>1, <4>2, <4>3
    <3>3. QED
      BY <3>2
  <2>5. QED
    BY <2>1, <2>2, <2>3, <2>4 DEF Still, Synced, None, Others, Answered
<1>2. CASE Restart(n)
  <2>1. llu[n] = <<0, 0>>
    BY <1>2 DEF Restart, Lapse
  <2>2. /\ UNCHANGED <<llu, errored, stamped, counted, committed, sending, observers, merging>>
    BY <1>2, <2>1 DEF Restart, TypesOK, DataOK, processVars
  <2>3. \A x \in Nodes : topics[x] \subseteq topics'[x]
    BY <1>2 DEF Restart, ReplicasOK, ContentOK
  <2>4. \A x \in Nodes : UnderWay(x)' = UnderWay(x)
    BY <2>2 DEF UnderWay
  <2>5. \A x \in Nodes : Served(x) \subseteq Served(x)'
    BY <2>2, <2>3, <2>4 DEF Served
  <2>6. QED
    BY <2>2, <2>4, <2>5 DEF Still, Synced, Answered
<1>3. QED
  BY <1>1, <1>2

\* The first steps of an update leave them alone.
LEMMA ObserversStill ==
    ASSUME TypesOK, ReplicasOK, NEW n \in Nodes,
           CheckObservers(n) \/ UpdateStart(n) \/ SubscriberFails(n)
    PROVE  Still
<1>1. /\ UNCHANGED <<llu, stamped, counted, committed, sending, merging>>
      /\ \A x \in Nodes : observers'[x] \subseteq observers[x]
  <2>1. UNCHANGED <<llu, stamped, counted, committed, sending, merging>>
    BY DEF CheckObservers, UpdateStart, SubscriberFails, processVars, history
  <2>2. CASE CheckObservers(n)
    <3>1. PICK gone : observers' = [observers EXCEPT ![n] = @ \ gone]
      BY <2>2 DEF CheckObservers
    <3>2. QED
      BY <2>1, <3>1 DEF TypesOK, DataOK
  <2>3. CASE UpdateStart(n) \/ SubscriberFails(n)
    BY <2>1, <2>3 DEF UpdateStart, SubscriberFails
  <2>4. QED
    BY <2>2, <2>3
<1>2. \A x \in Nodes : topics[x] \cup errored \subseteq topics'[x] \cup errored'
  BY DEF CheckObservers, UpdateStart, SubscriberFails, history, ReplicasOK
<1>3. \A x \in Nodes : UnderWay(x)' = UnderWay(x)
  BY <1>1 DEF UnderWay
<1>4. \A x \in Nodes : Served(x) \subseteq Served(x)'
  BY <1>2, <1>3 DEF Served
<1>5. QED
  BY <1>1, <1>3, <1>4 DEF Still, Synced, Answered

-----------------------------------------------------------------------------
(***************************************************************************)
(* Updates                                                                 *)
(***************************************************************************)

\* Observers::wait() returns: the observers that are left have answered, so a majority
\* has the update, and no majority was counted on for a newer generation.
LEMMA UpdateFinishHeld ==
    ASSUME TypesOK, TypesOK', ReplicasOK, ElectionOK, NamesOK, ContentOK, ErroredOK, HeldOK,
           NEW m \in Nodes, UpdateFinish(m)
    PROVE  HeldOK'
<1>1. PICK v : v = [id |-> sending[m].id, llu |-> sending[m].llu]
  OBVIOUS
<1>2. /\ UNCHANGED <<node, merging, observers, llu, shared, data, committed, stamped, counted,
                   errored>>
      /\ sending[m] # None /\ sending[m].todo = {}
      /\ sending' = [sending EXCEPT ![m] = None]
      /\ acked' = IF Replicated(m) THEN acked \cup {v} ELSE acked
  BY <1>1 DEF UpdateFinish, processVars
<1>3. sending'[m] = None /\ \A x \in Others(m) : sending'[x] = sending[x]
  BY <1>2 DEF TypesOK, VersionsOK, Others
<1>4. /\ UnderWay(m)' = committed[m] /\ v \in UnderWay(m)
      /\ \A x \in Nodes : UnderWay(x)' \subseteq UnderWay(x)
  BY <1>1, <1>2, <1>3 DEF UnderWay, Others
<1>5. \A x \in Nodes : \A w \in UnderWay(x)' : \A y \in Nodes :
         Answered(x, w, y)' => Answered(x, w, y)
  BY <1>2, <1>3 DEF Answered, Others
<1>6. /\ \A x \in Others(m) : topics'[x] = topics[x] /\ UnderWay(x)' = UnderWay(x)
      /\ topics[m] \subseteq topics'[m]
      /\ Replicated(m) /\ v.id \in creations => v.id \in topics'[m]
  <2>1. topics' = IF Replicated(m) /\ v.id \in creations
                  THEN [topics EXCEPT ![m] = @ \cup {v.id}] ELSE topics
    BY <1>1 DEF UpdateFinish
  <2>2. QED
    BY <1>2, <1>3, <2>1 DEF ReplicasOK, UnderWay, Others
<1>7. UnderWay(m) = UnderWay(m)' \cup {v}
  BY <1>1, <1>2, <1>4 DEF UnderWay
<1>8. Ids(UnderWay(m)) \subseteq Ids(UnderWay(m)') \cup Ids(UnderWay(m) \ UnderWay(m)')
  BY DEF Ids
<1>9. \A x \in Nodes : Served(x) \subseteq Served(x)' \cup Ids(UnderWay(x) \ UnderWay(x)')
  <2>1. ASSUME NEW x \in Others(m)
        PROVE  Served(x)' = Served(x)
    BY <1>2, <1>6 DEF Served
  <2>2. Served(m) \subseteq Served(m)' \cup Ids(UnderWay(m) \ UnderWay(m)')
    BY <1>2, <1>6, <1>8 DEF Served
  <2>3. QED
    BY <2>1, <2>2 DEF Others
<1>10. Still
  BY <1>2, <1>4, <1>5, <1>9 DEF Still, Synced
<1>11. ASSUME Replicated(m)
       PROVE  AckedOK(v)'
  <2>1. PICK l : l = v.llu
    OBVIOUS
  <2>2. /\ l \in Stamps /\ Reached(l, m) /\ LedBy(l) /\ VersionOK(m, v) /\ Master(m)
    BY <1>4, <2>1, PendingFacts DEF HeldOK, PendingOK
  <2> DEFINE A == Ids(observers[m]) \cup {m}
  <2>3. A \in SUBSET Nodes /\ m \notin Ids(observers[m])
    BY Facts DEF Ids, Infos, ElectionOK, UpdateOK
  <2>4. Quorum(A)
    BY <1>11, <2>3, QuorumCounts DEF Quorum, Replicated, HeldOK, ObserversOK
  <2>5. ASSUME NEW x \in A, x # m
        PROVE  Answered(m, v, x)
    BY <1>1, <1>2, <2>5 DEF Ids, Answered
  <2>6. \A x \in A : Reached(l, x)
    BY <2>1, <2>2, <2>3, <2>5 DEF VersionOK
  <2>7. Quorum({s \in Nodes : Reached(l, s)})
    BY <2>3, <2>4, <2>6, QuorumGrows
  <2>8. ~Lost(m, v)
    <3> SUFFICES ASSUME Lost(m, v) PROVE FALSE
      OBVIOUS
    <3> DEFINE B == {x \in Others(m) : counted[x] > llu[m][1] /\ ~Answered(m, v, x)}
    <3>1. B \in SUBSET Nodes /\ Quorum(B)
      BY DEF Lost, Others
    <3> HIDE DEF A
    <3>2. PICK x \in Nodes : x \in A /\ x \in B
      BY <2>3, <2>4, <3>1, QuorumsMeet
    <3>3. QED
      BY <2>5, <3>2 DEF Others
  <2>9. \A s \in Nodes : Reached(l, s) => v.id \in Served(s)
    BY <2>1, <2>2, <2>8 DEF VersionOK
  <2>10. LedBy(l)'
    BY <1>2, <2>2 DEF LedBy, Reached, Won, Stamped
  <2>11. ASSUME NEW x \in Nodes, NEW w \in UnderWay(x)'
         PROVE  w.id # v.id
    <3>1. CASE x = m
      BY <1>1, <1>2, <1>4, <2>2, <3>1 DEF NamesOK, MasterOK, VersionsInOrder
    <3>2. CASE x # m
      BY <1>4, <2>11, <3>2 DEF HeldOK, PendingApart
    <3>3. QED
      BY <3>1, <3>2
  <2>12. Quorum({s \in Nodes : Reached(l, s)'})
    BY <1>2, <2>7 DEF Reached
  <2>13. \A s \in Nodes : Reached(l, s)' => v.id \in Served(s)'
    <3>1. v.id \in topics'[m] \cup errored
      <4>1. v.id \in data[m]
        BY <1>4, PendingFacts DEF ContentOK
      <4>2. QED
        BY <1>11, <1>6, <4>1 DEF ErroredOK, InstalledOK
    <3>2. \A s \in Others(m) : Served(s)' = Served(s)
      BY <1>2, <1>6 DEF Served
    <3>3. \A s \in Nodes : Reached(l, s)' => Reached(l, s)
      BY <1>2 DEF Reached
    <3>4. v.id \in Served(m)'
      BY <1>2, <3>1 DEF Served
    <3>5. QED
      BY <2>9, <3>2, <3>3, <3>4 DEF Others
  <2>14. QED
    BY <2>1, <2>10, <2>11, <2>12, <2>13 DEF AckedOK, Quorum
<1>12. QED
  BY <1>2, <1>10, <1>11, StillHeld

\* An update that is sent is one of those committed, and has no answer yet.
LEMMA UpdateSendStill ==
    ASSUME TypesOK, NEW m \in Nodes, UpdateSend(m)
    PROVE  Still
<1>1. /\ UNCHANGED <<node, merging, observers, llu, topics, errored, stamped, counted>>
      /\ sending[m] = None
  BY DEF UpdateSend, processVars
<1>2. PICK u \in committed[m] :
         /\ committed' = [committed EXCEPT ![m] = @ \ {u}]
         /\ sending' = [sending EXCEPT ![m] =
                          [step |-> "sending", id |-> u.id, llu |-> u.llu, todo |-> observers[m]]]
  BY DEF UpdateSend
<1>3. /\ committed'[m] = committed[m] \ {u}
      /\ sending'[m] # None /\ sending'[m].id = u.id /\ sending'[m].llu = u.llu
      /\ sending'[m].todo = observers[m]
      /\ \A x \in Others(m) : committed'[x] = committed[x] /\ sending'[x] = sending[x]
  BY <1>2 DEF TypesOK, VersionsOK, Others, None
<1>4. u = [id |-> u.id, llu |-> u.llu]
  BY <1>2, Facts DEF Versions
<1>5. \A x \in Nodes : UnderWay(x)' \subseteq UnderWay(x)
  BY <1>1, <1>2, <1>3, <1>4 DEF UnderWay, Others
<1>6. \A x \in Nodes : \A w \in UnderWay(x)' : \A y \in Nodes :
         Answered(x, w, y)' => Answered(x, w, y)
  BY <1>1, <1>3 DEF Answered, Others
<1>7. u \in UnderWay(m)' /\ UnderWay(m)' = UnderWay(m)
        /\ \A x \in Others(m) : UnderWay(x)' = UnderWay(x)
  BY <1>1, <1>2, <1>3, <1>4 DEF UnderWay, Others
<1>8. \A x \in Nodes : Served(x)' = Served(x)
  BY <1>1, <1>7 DEF Served, Others
<1>9. QED
  BY <1>1, <1>5, <1>6, <1>8 DEF Still, Synced

\* The LLU of a master's new update is reached by no other database, or by one of a newer
\* generation: then the update is lost, for the master itself was not counted on.
LEMMA UpdateCommitHeld ==
    ASSUME TypesOK, TypesOK', ReplicasOK, ElectionOK, NamesOK, HeldOK, NEW m \in Nodes,
           UpdateCommit(m), lapses' = {}
    PROVE  HeldOK'
<1> DEFINE stamp == <<llu[m][1], llu[m][2] + 1>>
<1>1. /\ UNCHANGED <<merging, sending, observers, errored, stamped, counted, acked>>
      /\ Master(m)
  BY DEF UpdateCommit, processVars, ElectionOK, UpdateOK, Quiet
<1>2. /\ updates' = updates + 1
      /\ llu' = [llu EXCEPT ![m] = stamp]
      /\ ~Overruled(m)
      /\ committed' = [committed EXCEPT ![m] = @ \cup {[id |-> updates + 1, llu |-> stamp]}]
  BY DEF UpdateCommit, Lapse
<1>3. \A x \in Nodes : topics[x] \subseteq topics'[x]
  BY DEF UpdateCommit, ReplicasOK
<1>4. PICK u : u = [id |-> updates + 1, llu |-> stamp]
  OBVIOUS
<1>5. /\ u.id = updates + 1 /\ u.llu[1] = llu[m][1] /\ u.llu[2] = llu[m][2] + 1
      /\ llu[m][1] \in Nat /\ llu[m][2] \in Nat /\ u.llu \in Stamps /\ updates \in Nat
  BY <1>4, Facts, BoundsAssumption DEF Stamps, TypesOK, CountsOK
<1>6. /\ llu'[m] = u.llu /\ committed'[m] = committed[m] \cup {u}
      /\ \A x \in Others(m) : llu'[x] = llu[x] /\ committed'[x] = committed[x]
  BY <1>2, <1>4 DEF TypesOK, DataOK, VersionsOK, Others
<1> HIDE DEF stamp
<1>7. \A s \in Nodes : llu[s] \in Stamps /\ counted[s] \in Nat
  BY DEF TypesOK, DataOK, HeldOK, CountedOK
<1>8. Newer(u.llu, llu[m])
  BY <1>5 DEF Newer
<1>9. Grows
  BY <1>1, <1>5, <1>6, <1>7, <1>8, NewerOrder DEF Grows, Others
\* No LLU is between the one that the master had and the next.
<1>10. ASSUME NEW l \in Stamps, LedBy(l), ~Newer(l, u.llu)
      PROVE  Reached(l, m)
  <2>1. l[1] \in Nat /\ l[2] \in Nat
    BY DEF Stamps
  <2>2. CASE l[1] = llu[m][1]
    BY <1>1, <1>10, <2>2, LedByMaster
  <2>3. CASE l[1] # llu[m][1]
    BY <1>5, <1>10, <2>1, <2>3 DEF Reached, Newer
  <2>4. QED
    BY <2>2, <2>3
<1>11. /\ UnderWay(m)' = UnderWay(m) \cup {u}
      /\ \A x \in Others(m) : UnderWay(x)' = UnderWay(x)
  BY <1>1, <1>6 DEF UnderWay, Others
<1>12. ASSUME NEW v, v.llu \in Stamps, LedBy(v.llu)
      PROVE  Inherits(v)
  <2>1. ASSUME NEW s \in Nodes, Reached(v.llu, s)'
        PROVE  Reached(v.llu, s)
    <3>1. CASE s = m
      BY <1>6, <1>10, <1>12, <2>1, <3>1 DEF Reached
    <3>2. CASE s # m
      BY <1>6, <2>1, <3>2 DEF Reached, Others
    <3>3. QED
      BY <3>1, <3>2
  <2>2. \A s \in Nodes : Ids(UnderWay(s)) \subseteq Ids(UnderWay(s)')
    BY <1>11 DEF Others, Ids
  <2>3. \A s \in Nodes : Served(s) \subseteq Served(s)'
    BY <1>1, <1>3, <2>2 DEF Served
  <2>4. QED
    BY <2>1, <2>3 DEF Inherits
<1>13. \A x \in Nodes : \A v \in UnderWay(x) : v.id \in 1..updates
  BY PendingFacts
<1>14. CountedOK'
  <2>1. \A s \in Nodes : llu'[s][1] = llu[s][1]
    BY <1>5, <1>6 DEF Others
  <2>2. QED
    BY <1>1, <1>9, <2>1, CountedKept DEF HeldOK, CountedOK
<1>15. IterationsOK'
  <2>1. ~Synced(m)
    BY <1>1 DEF ElectionOK, MergeOK, Synced, Master
  <2>2. \A n \in Nodes : Synced(n)' => Synced(n) /\ llu'[n] = llu[n]
    BY <1>1, <1>6, <2>1 DEF Synced, Others
  <2>3. LedBy(llu[m])'
    <3>1. PICK g : g = llu[m][1]
      OBVIOUS
    <3>2. PICK group : group = node[m].group
      OBVIOUS
    <3>3. Won(m, group, g) /\ group \in 0..MaxMerges
      <4>1. node[m].coord = m /\ Won(node[m].coord, node[m].group, g)
        BY <1>1, <3>1 DEF ElectionOK, RoleOK, Master
      <4>2. QED
        BY <3>2, <4>1, Facts DEF NodeRecords
    <3>4. Won(m, group, g)'
      BY <1>1, <3>3, WonStays
    <3>5. llu'[m][1] = g /\ ~Newer(llu'[m], llu'[m])
      BY <1>5, <1>6, <3>1, NewerOrder
    <3>6. QED
      BY <3>3, <3>4, <3>5 DEF LedBy, Reached
  <2>4. \A s \in Nodes : s = m \/ llu'[s] = llu[s]
    BY <1>6 DEF Others
  <2>5. QED
    BY <1>9, <2>2, <2>3, <2>4, IterationsKept DEF HeldOK
<1>16. PendingApart'
  <2>1. ASSUME NEW x \in Nodes, NEW v \in UnderWay(x)'
        PROVE  v \in UnderWay(x) \/ (x = m /\ v.id = updates + 1)
    BY <1>5, <1>11, <2>1 DEF Others
  <2>2. \A x, y \in Nodes : \A v \in UnderWay(x), w \in UnderWay(y) :
           v.id # updates + 1 /\ w.id # updates + 1 /\ (x # y => v.id # w.id)
    BY <1>5, <1>13 DEF HeldOK, PendingApart
  <2>3. QED
    BY <2>1, <2>2 DEF PendingApart
\* The new update: who is as new as it has been counted on, and most nodes have.
<1>17. VersionOK(m, u)'
  <2>1. \A y : ~Answered(m, u, y)'
    <3>1. sending[m] # None => sending[m].id \in 1..updates
      BY SendingKinds DEF TypesOK
    <3>2. sending[m] # None => sending[m].id # u.id
      BY <1>5, <3>1
    <3>3. QED
      BY <1>1, <3>2 DEF Answered
  <2>2. ASSUME NEW s \in Others(m), Reached(u.llu, s)'
        PROVE  Lost(m, u)'
    <3>1. s \in Nodes /\ llu[s] \in Stamps /\ llu[s][1] \in Nat /\ llu[s][2] \in Nat
      BY Facts DEF Others
    <3>2. ~Newer(u.llu, llu[s])
      BY <1>6, <2>2 DEF Reached
    <3>3. llu[s][1] > llu[m][1]
      <4>1. CASE llu[s][1] = llu[m][1]
        <5>1. llu[s][2] > llu[m][2] /\ llu[s][2] # 0
          BY <1>5, <3>1, <3>2, <4>1 DEF Newer
        <5>2. Reached(llu[s], m)
          BY <1>1, <3>1, <4>1, <5>1, LedByMaster DEF HeldOK, IterationsOK
        <5>3. QED
          BY <4>1, <5>1, <5>2 DEF Reached, Newer
      <4>2. QED
        BY <1>5, <3>1, <3>2, <4>1 DEF Newer
    <3>4. PICK y \in stamped : y.generation = llu[s][1]
      BY <1>5, <3>1, <3>3 DEF HeldOK, CountedOK
    <3> DEFINE A == {x \in Nodes : counted[x] >= y.generation}
               B == {x \in Others(m) : counted'[x] > llu'[m][1] /\ ~Answered(m, u, x)'}
    <3>5. counted[m] <= llu[m][1]
      BY <1>2, <1>5, <1>7 DEF Overruled
    <3>6. A \subseteq B /\ B \subseteq Nodes
      BY <1>1, <1>5, <1>6, <1>7, <2>1, <3>1, <3>3, <3>4, <3>5 DEF Others
    <3>7. Quorum(A) /\ (Lost(m, u)' <=> Quorum(B))
      BY <3>4 DEF HeldOK, CountedOK, Lost, Quorum
    <3> HIDE DEF A, B
    <3>8. QED
      BY <3>6, <3>7, QuorumGrows
  <2>3. u.id \in Served(m)'
    <3>1. u \in UnderWay(m)'
      BY <1>11
    <3>2. QED
      BY <3>1 DEF Served, Ids
  <2>4. \A s \in Nodes : Reached(u.llu, s)' => u.id \in Served(s)' \/ Lost(m, u)'
    BY <2>2, <2>3 DEF Others
  <2>5. u.llu[2] > 0
    BY <1>5
  <2>6. QED
    BY <2>1, <2>4, <2>5 DEF VersionOK
<1>18. ASSUME NEW n \in Nodes
       PROVE  ObserversOK(n)' /\ PendingOK(n)'
  <2>1. ObserversOK(n)'
    BY <1>1 DEF HeldOK, ObserversOK, Distinct
  <2>2. ASSUME NEW v \in UnderWay(n)
        PROVE  VersionOK(n, v)'
    <3>1. Inherits(v)
      BY <1>12, PendingFacts
    <3>2. llu'[n][1] = llu[n][1]
      BY <1>5, <1>6 DEF Others
    <3>3. \A x \in Nodes : Answered(n, v, x)' => Answered(n, v, x)
      BY <1>1 DEF Answered
    <3>4. VersionOK(n, v)
      BY DEF HeldOK, PendingOK
    <3>5. QED
      BY <1>9, <3>1, <3>2, <3>3, <3>4, VersionKept DEF HeldOK
  <2>3. \A v \in UnderWay(n)' : v \in UnderWay(n) \/ (n = m /\ v = u)
    BY <1>11 DEF Others
  <2>4. PendingOK(n)'
    BY <1>17, <2>2, <2>3 DEF PendingOK
  <2>5. QED
    BY <2>1, <2>4
<1>19. ASSUME NEW v \in acked
       PROVE  AckedOK(v)'
  <2>1. v.llu \in Stamps /\ v.id \in 1..updates /\ AckedOK(v)
    BY DEF TypesOK, DataOK, Versions, HeldOK
  <2>2. Inherits(v)
    BY <1>12, <2>1 DEF AckedOK
  <2>3. \A x \in Nodes : \A w \in UnderWay(x)' : w \in UnderWay(x) \/ w.id # v.id
    BY <1>5, <1>11, <2>1 DEF Others
  <2>4. QED
    BY <1>9, <2>1, <2>2, <2>3, AckedKept
<1>20. QED
  BY <1>1, <1>14, <1>15, <1>16, <1>18, <1>19 DEF HeldOK

\* A slave that takes an update has not been counted on for a newer generation, so its
\* answer is one of the majority's; one that does not answer is no observer any more.
LEMMA ReplicateHeld ==
    ASSUME TypesOK, TypesOK', ReplicasOK, ElectionOK, NamesOK, ContentOK, ErroredOK, HeldOK,
           NEW m \in Nodes, NEW o \in observers[m], Replicate(m, o), lapses' = {}
    PROVE  HeldOK'
<1>1. PICK s : s = o.id
  OBVIOUS
<1>2. PICK u : u = sending[m]
  OBVIOUS
<1>3. /\ UNCHANGED <<merging, committed, stamped, updates, counted, errored, acked>>
      /\ u # None /\ sending' = [sending EXCEPT ![m] = [u EXCEPT !.todo = @ \ {o}]]
  BY <1>2 DEF Replicate, processVars
<1>4. /\ s \in Nodes /\ s # m /\ Master(m) /\ u.llu[1] = llu[m][1]
      /\ node[m].generation = llu[m][1] /\ u.llu \in Stamps
  BY <1>1, <1>2, <1>3, Facts, SendingFacts, SendingKinds DEF ElectionOK, UpdateOK, Infos, TypesOK
<1>5. /\ sending'[m] # None /\ sending'[m].id = u.id /\ sending'[m].llu = u.llu
      /\ sending'[m].todo = u.todo \ {o}
      /\ \A x \in Others(m) : sending'[x] = sending[x]
  <2>1. u \in [step : {"sending"}, id : 1..updates, llu : Stamps, todo : SUBSET Infos]
    BY <1>2, <1>3, SendingKinds DEF TypesOK
  <2>2. sending'[m] = [u EXCEPT !.todo = @ \ {o}] /\ \A x \in Others(m) : sending'[x] = sending[x]
    BY <1>3 DEF TypesOK, VersionsOK, Others
  <2>3. sending'[m].step = "sending" /\ sending'[m].id = u.id /\ sending'[m].llu = u.llu
        /\ sending'[m].todo = u.todo \ {o}
    BY <2>1, <2>2
  <2>4. QED
    BY <2>2, <2>3 DEF None
<1>6. \A x \in Nodes : observers'[x] \subseteq observers[x]
  BY DEF Replicate, TypesOK, DataOK
<1>7. \A x \in Nodes : UnderWay(x)' = UnderWay(x)
  BY <1>2, <1>3, <1>5 DEF UnderWay, Others
<1>8. CASE UNCHANGED <<llu, topics>> /\ o \notin observers'[m]
  <2>1. \A x \in Nodes : \A v \in UnderWay(x)' : \A y \in Nodes :
           Answered(x, v, y)' => Answered(x, v, y)
    BY <1>2, <1>3, <1>5, <1>6, <1>8 DEF Answered, Others
  <2>2. \A x \in Nodes : Served(x)' = Served(x)
    BY <1>3, <1>7, <1>8 DEF Served
  <2>3. Still
    BY <1>3, <1>6, <1>7, <1>8, <2>1, <2>2 DEF Still, Synced
  <2>4. QED
    BY <1>3, <2>3, StillHeld
<1>9. CASE /\ TakesUpdate(s, u) /\ ~Overruled(s)
           /\ topics' = [topics EXCEPT ![s] = @ \cup {u.id}]
           /\ llu' = [llu EXCEPT ![s] = u.llu]
  <2>1. /\ llu'[s] = u.llu /\ topics'[s] = topics[s] \cup {u.id}
        /\ \A x \in Others(s) : llu'[x] = llu[x] /\ topics'[x] = topics[x]
    BY <1>4, <1>9 DEF TypesOK, ReplicasOK, DataOK, Others
  <2>2. OnDuty(s) /\ llu[s][1] = llu[m][1] /\ s \in Others(m)
    <3>1. OnDuty(s) /\ node[s].generation = u.llu[1]
      BY <1>9 DEF TakesUpdate, OnDuty
    <3>2. QED
      BY <1>4, <3>1 DEF ElectionOK, RoleOK, OnDuty, Others
  <2>3. s \in SlavesOf(m)
    BY <1>4, <2>2, SlaveOfGeneration
  <2>4. VersionsInOrder(m) /\ SlaveOK(m, s) /\ ObserverOK(m, o)
    BY <1>1, <1>4, <2>3 DEF NamesOK, MasterOK
  <2>5. \A x \in Nodes : llu[x] \in Stamps /\ counted[x] \in Nat
    BY DEF TypesOK, DataOK, HeldOK, CountedOK
  <2>6. PICK w : w = [id |-> u.id, llu |-> u.llu]
    OBVIOUS
  <2>7. /\ w \in UnderWay(m) /\ w.id = u.id /\ w.llu = u.llu
        /\ \A v \in UnderWay(m) : v = w \/ (Newer(v.llu, u.llu) /\ v.id # u.id)
    BY <1>2, <1>3, <2>4, <2>6 DEF UnderWay, VersionsInOrder
  <2>8. Grows
    <3>1. ~Newer(llu[s], u.llu)
      BY <1>2, <1>3, <2>4 DEF SlaveOK
    <3>2. QED
      BY <1>3, <2>1, <2>5, <3>1, NewerOrder DEF Grows, Others
  <2>9. (\A x \in Nodes : Served(x) \subseteq Served(x)') /\ u.id \in Served(s)'
    BY <1>3, <1>4, <1>7, <2>1 DEF Served, Others
  \* Who takes the update has what the master has, but for later updates.
  <2>10. ASSUME NEW v, v.llu \in Stamps, Reached(v.llu, s)', v.llu[1] # llu[m][1]
         PROVE  Reached(v.llu, s)
    <3>1. v.llu[1] \in Nat /\ u.llu[1] \in Nat /\ ~Newer(v.llu, u.llu)
      BY <1>4, <2>1, <2>10 DEF Reached, Stamps
    <3>2. v.llu[1] < llu[s][1]
      BY <1>4, <2>2, <2>10, <3>1 DEF Newer
    <3>3. QED
      BY <2>2, <3>1, <3>2, <1>4 DEF Reached, Newer
  <2>11. ASSUME NEW v, \A x \in Nodes : x = s /\ Reached(v.llu, x)' =>
                           v.id \in Served(x)' \/ Reached(v.llu, x)
         PROVE  Inherits(v)
    <3>1. ASSUME NEW x \in Nodes, Reached(v.llu, x)'
          PROVE  v.id \in Served(x)' \/ Reached(v.llu, x)
      BY <2>1, <2>11, <3>1 DEF Reached, Others
    <3>2. QED
      BY <2>9, <3>1 DEF Inherits
  <2>12. ASSUME NEW n \in Nodes, NEW v \in UnderWay(n)
         PROVE  Inherits(v)
    <3>1. v.llu \in Stamps /\ Master(n) /\ v.llu[1] = llu[n][1]
      BY PendingFacts
    <3>2. ASSUME Reached(v.llu, s)', v.llu[1] = llu[m][1]
          PROVE  v.id \in Served(s)'
      <4>1. n = m
        BY <1>4, <3>1, <3>2, OneMaster
      <4>2. ~Newer(v.llu, u.llu)
        BY <2>1, <3>2 DEF Reached
      <4>3. QED
        BY <2>7, <2>9, <4>1, <4>2
    <3>3. QED
      BY <2>10, <2>11, <3>1, <3>2
  \* A slave has not stamped its database itself.
  <2>13. ~\E x \in stamped : x.id = s /\ x.coord = s /\ x.generation = llu[s][1]
    <3>1. node[s].slave /\ RoleOK(s) /\ StampsOK
      BY <1>4, <1>9 DEF TakesUpdate, ElectionOK
    <3>2. node[s].coord # s /\ Stamped(s, node[s].coord, node[s].group, llu[s][1])
      BY <2>2, <3>1 DEF RoleOK, OnDuty
    <3>3. QED
      BY <3>1, <3>2 DEF StampsOK, Stamped
  <2>14. ASSUME NEW v \in acked
         PROVE  Inherits(v)
    <3>1. v.llu \in Stamps /\ AckedOK(v)
      BY DEF TypesOK, DataOK, Versions, HeldOK
    <3>2. ASSUME v.llu[1] = llu[m][1], Reached(v.llu, s)'
          PROVE  v.id \in Served(s)' \/ Reached(v.llu, s)
      <4>1. v.id \in Served(m)
        BY <1>4, <3>1, <3>2, LedByMaster DEF AckedOK
      <4>2. v.id \notin Ids(UnderWay(m)) /\ v.id \notin Ids(committed[m]) /\ v.id # u.id
        BY <2>7, <3>1 DEF AckedOK, Ids, UnderWay
      <4>3. CASE llu[s] = u.llu
        BY <2>1, <3>2, <4>3 DEF Reached
      <4>4. CASE v.id \in errored
        BY <1>3, <4>4 DEF Served
      <4>5. CASE llu[s] # u.llu /\ v.id \notin errored
        <5>1. shared[s] = shared[m] \ (Ids(committed[m]) \cup {u.id})
          BY <1>1, <1>2, <1>3, <2>4, <4>5 DEF ObserverOK
        <5>2. v.id \in topics[m]
          BY <4>1, <4>2, <4>5 DEF Served
        <5>3. v.id \in data[s]
          BY <1>4, <4>2, <5>1, <5>2 DEF ContentOK
        <5>4. v.id \in topics[s]
          BY <1>4, <2>13, <4>5, <5>3 DEF ErroredOK, InstalledOK
        <5>5. QED
          BY <2>1, <5>4 DEF Served
      <4>6. QED
        BY <4>3, <4>4, <4>5
    <3>3. QED
      BY <2>10, <2>11, <3>1, <3>2
  <2>15. \A x \in Nodes : llu'[x][1] = llu[x][1]
    BY <1>4, <2>1, <2>2 DEF Others
  <2>16. CountedOK'
    BY <1>3, <2>8, <2>15, CountedKept DEF HeldOK, CountedOK
  <2>17. IterationsOK'
    <3>1. ~Synced(s)
      BY <1>4, <2>2 DEF ElectionOK, MergeOK, Synced, OnDuty
    <3>2. \A n \in Nodes : Synced(n)' => Synced(n) /\ llu'[n] = llu[n]
      BY <1>3, <2>1, <3>1 DEF Synced, Others
    <3>3. LedBy(llu[s])'
      <4>1. PICK l \in Stamps : l = u.llu
        BY <1>4
      <4>2. LedBy(l)
        BY <2>7, <4>1, PendingFacts
      <4>3. LedBy(l)'
        BY <2>8, <4>2, GrowsKeeps
      <4>4. QED
        BY <2>1, <4>1, <4>3 DEF LedBy, Reached
    <3>4. \A x \in Nodes : x = s \/ llu'[x] = llu[x]
      BY <2>1 DEF Others
    <3>5. QED
      BY <2>8, <3>2, <3>3, <3>4, IterationsKept DEF HeldOK
  <2>18. ASSUME NEW n \in Nodes
         PROVE  ObserversOK(n)' /\ PendingOK(n)'
    <3>1. ObserversOK(n)'
      <4>1. IsFiniteSet(observers'[n])
        BY <1>6, FS_Subset DEF HeldOK, ObserversOK, Distinct
      <4>2. QED
        BY <1>3, <1>6, <4>1 DEF HeldOK, ObserversOK, Distinct
    <3>2. ASSUME NEW v \in UnderWay(n)', NEW x \in Nodes, Answered(n, v, x)'
          PROVE  Answered(n, v, x) \/ (Reached(v.llu, x)' /\ ~(counted[x] > llu[n][1]))
      <4>1. v \in UnderWay(n)
        BY <1>7
      <4>2. CASE n = m
        <5>1. v.id = u.id /\ \E p \in observers[m] : p.id = x /\ p \notin u.todo \ {o}
          BY <1>5, <1>6, <3>2, <4>2 DEF Answered
        <5>2. CASE x = s
          <6>1. v.llu = u.llu
            BY <2>7, <4>1, <4>2, <5>1
          <6>2. ~Newer(u.llu, u.llu)
            BY <1>4, NewerOrder
          <6>3. ~(counted[s] > llu[m][1])
            BY <1>9, <2>2 DEF Overruled
          <6>4. QED
            BY <2>1, <4>2, <5>2, <6>1, <6>2, <6>3 DEF Reached
        <5>3. CASE x # s
          BY <1>1, <1>2, <1>3, <4>2, <5>1, <5>3 DEF Answered
        <5>4. QED
          BY <5>2, <5>3
      <4>3. CASE n # m
        BY <1>5, <1>6, <3>2, <4>3 DEF Answered, Others
      <4>4. QED
        BY <4>2, <4>3
    <3>3. \A v \in UnderWay(n)' : Inherits(v)
      BY <1>7, <2>12
    <3>4. PendingOK(n)'
      BY <1>7, <2>8, <2>15, <3>2, <3>3, PendingKept DEF HeldOK
    <3>5. QED
      BY <3>1, <3>4
  <2>19. \A v \in acked' : AckedOK(v)'
    BY <1>3, <1>7, <2>8, <2>14, AckedKept DEF HeldOK
  <2>20. PendingApart'
    BY <1>7 DEF HeldOK, PendingApart
  <2>21. QED
    BY <2>16, <2>17, <2>18, <2>19, <2>20 DEF HeldOK
<1>10. QED
  <2>1. \/ /\ TakesUpdate(s, u) /\ ~Overruled(s)
           /\ topics' = [topics EXCEPT ![s] = @ \cup {u.id}]
           /\ llu' = [llu EXCEPT ![s] = u.llu]
        \/ UNCHANGED <<llu, topics>> /\ observers' = [observers EXCEPT ![m] = @ \ {o}]
    BY <1>1, <1>2 DEF Replicate, Lapse
  <2>2. observers' = [observers EXCEPT ![m] = @ \ {o}] => o \notin observers'[m]
    BY DEF TypesOK, DataOK
  <2>3. QED
    BY <1>8, <1>9, <2>1, <2>2

-----------------------------------------------------------------------------
(***************************************************************************)
(* The forming of a group                                                  *)
(***************************************************************************)

\* mergeContinue() stamps its generation: it has counted on a majority, one of which has
\* reached each update that a client was told of, and takes what the best serves, which
\* is no master any more: but for failed subscribers that is all it has.
LEMMA SyncHeld ==
    ASSUME TypesOK, TypesOK', ReplicasOK, ElectionOK, NamesOK, ErroredOK, InfosOK, HeldOK,
           NEW n \in Nodes, ApartOK(n), Sync(n), lapses' = {}
    PROVE  HeldOK'
<1>1. /\ UNCHANGED <<committed, sending, acked, errored>>
      /\ merging[n].step = "sync"
  BY DEF Sync
<1>2. CASE GiveUp(n) /\ UNCHANGED <<topics, llu, stamped, counted, lapses, reaped, observers>>
  BY <1>1, <1>2, GiveUpStill, StillHeld
<1>3. PICK members : members = merging[n].members
  OBVIOUS
<1>4. PICK best : best = Best(members)
  OBVIOUS
<1>5. PICK stamp : stamp = NextStamp(best.llu)
  OBVIOUS
<1>6. CASE /\ topics' = IF Newer(best.llu, llu[n])
                         THEN [topics EXCEPT ![n] = topics[best.id] \ InError(n)] ELSE topics
           /\ llu' = [llu EXCEPT ![n] = stamp]
           /\ stamped' = stamped \cup {Stamp(n, n, stamp)}
           /\ counted' = [s \in Nodes |->
                IF s \in {n} \cup Ids(members) THEN Max({counted[s], stamp[1]}) ELSE counted[s]]
           /\ lapses' = lapses
                \cup Lapse("reused", best.llu[1] < llu[n][1])
                \cup Lapse("deserted", CountedOn(n, n) \/ \E m \in members : llu[m.id] # m.llu)
           /\ observers' = [observers EXCEPT ![n] = {}]
           /\ merging' = [merging EXCEPT ![n] =
                            [step |-> "init", group |-> merging[n].group, members |-> members,
                             todo |-> members, stamp |-> stamp, content |-> topics'[n]]]
  <2>1. /\ members \in SUBSET Members /\ Distinct(members) /\ Cardinality(members) >= Majority
        /\ members # {} /\ \A a \in members : a.id # n
    BY <1>1, <1>3, MergingKinds DEF TypesOK, MergingsOK, MergingOK, Syncs, ApartOK
  <2>2. /\ best \in members /\ best.id \in Nodes /\ best.llu \in Stamps
        /\ \A a \in members : ~Newer(a.llu, best.llu)
    BY <1>4, <2>1, BestIsNewest DEF Distinct, Members
  <2>3. /\ stamp \in Stamps /\ stamp[1] = best.llu[1] + 1 /\ stamp[2] = 0
        /\ stamp[1] \in Nat /\ best.llu[1] \in Nat
    BY <1>5, <2>2 DEF NextStamp, Stamps
  <2>4. ~(best.llu[1] < llu[n][1]) /\ \A a \in members : llu[a.id] = a.llu
    BY <1>6 DEF Lapse
  <2>5. /\ llu'[n] = stamp /\ observers'[n] = {}
        /\ topics'[n] = IF Newer(best.llu, llu[n]) THEN topics[best.id] \ InError(n) ELSE topics[n]
        /\ \A x \in Others(n) :
              /\ llu'[x] = llu[x] /\ topics'[x] = topics[x] /\ observers'[x] = observers[x]
              /\ merging'[x] = merging[x]
    BY <1>6 DEF TypesOK, ReplicasOK, DataOK, MergingsOK, Others
  <2>6. \A x \in Nodes : llu[x] \in Stamps /\ counted[x] \in Nat /\ llu[x][1] \in Nat
    BY Facts DEF TypesOK, DataOK, HeldOK, CountedOK
  <2> DEFINE A == Ids(members) \cup {n}
  <2>7. A \in SUBSET Nodes /\ Quorum(A) /\ n \in A
    <3>1. A \in SUBSET Nodes /\ n \notin Ids(members)
      BY <2>1 DEF Ids, Members
    <3>2. QED
      BY <2>1, <3>1, QuorumCounts DEF Quorum
  <2>8. /\ \A x \in A : llu[x] = llu[n] \/ \E a \in members : llu[x] = a.llu
        /\ llu[best.id] = best.llu
    BY <2>2, <2>4 DEF Ids
  <2>9. /\ counted' \in [Nodes -> Nat] /\ \A x \in Nodes : counted[x] <= counted'[x]
        /\ \A x \in A : counted'[x] >= stamp[1]
    <3>1. \A x \in Nodes : /\ Max({counted[x], stamp[1]}) \in Nat
                           /\ Max({counted[x], stamp[1]}) >= counted[x]
                           /\ Max({counted[x], stamp[1]}) >= stamp[1]
      BY <2>3, <2>6, MaxIsLarger
    <3>2. \A x \in Nodes : counted'[x] = IF x \in A THEN Max({counted[x], stamp[1]}) ELSE counted[x]
      BY <1>6
    <3> HIDE DEF A
    <3>3. ASSUME NEW x \in Nodes
          PROVE  /\ counted'[x] \in Nat /\ counted[x] <= counted'[x]
                 /\ x \in A => counted'[x] >= stamp[1]
      <4>1. PICK k : k = Max({counted[x], stamp[1]})
        OBVIOUS
      <4>2. k \in Nat /\ k >= counted[x] /\ k >= stamp[1]
        BY <3>1, <4>1
      <4>3. counted'[x] = IF x \in A THEN k ELSE counted[x]
        BY <3>2, <4>1
      <4>4. QED
        BY <2>6, <4>2, <4>3
    <3>4. counted' = [x \in Nodes |-> counted'[x]]
      BY <1>6
    <3>5. counted' \in [Nodes -> Nat]
      BY <3>3, <3>4
    <3>6. QED
      BY <2>7, <3>3, <3>5
  <2> HIDE DEF A
  <2>10. Grows
    <3>1. ~Newer(llu[n], stamp)
      BY <2>3, <2>4, <2>6 DEF Newer
    <3>2. QED
      BY <1>6, <2>5, <2>6, <2>9, <3>1, NewerOrder DEF Grows, Others
  <2>11. \A x \in Nodes : UnderWay(x)' = UnderWay(x)
    BY <1>1 DEF UnderWay
  <2>12. \A x \in Others(n) : Served(x)' = Served(x)
    BY <1>1, <2>5, <2>11 DEF Served, Others
  <2>13. IF Newer(best.llu, llu[n]) THEN Served(best.id) \subseteq Served(n)'
                                    ELSE Served(n)' = Served(n)
    <3>1. CASE ~Newer(best.llu, llu[n])
      BY <1>1, <2>5, <2>11, <3>1 DEF Served
    <3>2. CASE Newer(best.llu, llu[n])
      <4>1. ToldOK(best)
        BY <1>1, <1>3, <2>2 DEF InfosOK
      <4>2. ~Master(best.id)
        BY <2>2, <2>4, <4>1 DEF ToldOK
      <4>3. UnderWay(best.id) = {}
        BY <2>2, <4>2, PendingFacts
      <4>4. InError(n) \subseteq errored
        BY DEF InError, ErroredOK, InstalledOK
      <4>5. QED
        BY <1>1, <2>5, <3>2, <4>3, <4>4 DEF Served, Ids
    <3>3. QED
      BY <3>1, <3>2
  \* The database that the coordinator has now is as new as any that was counted on.
  <2>14. ASSUME NEW v, v.llu \in Stamps, NEW x \in A, Reached(v.llu, x)
         PROVE  Inherits(v)
    <3>1. x \in Nodes /\ ~Newer(v.llu, llu[x])
      BY <2>7, <2>14 DEF Reached
    <3>2. CASE Newer(best.llu, llu[n])
      <4>1. ~Newer(llu[x], best.llu)
        BY <2>2, <2>6, <2>8, <3>2, NewerOrder
      <4>2. Reached(v.llu, best.id)
        BY <2>2, <2>6, <2>8, <2>14, <3>1, <4>1, NewerOrder DEF Reached
      <4>3. \A s \in Nodes :
               Reached(v.llu, s)' => s = n \/ (Reached(v.llu, s) /\ Served(s)' = Served(s))
        BY <2>5, <2>12 DEF Reached, Others
      <4>4. v.id \in Served(best.id) => v.id \in Served(n)'
        BY <2>13, <3>2
      <4>5. QED
        BY <2>2, <4>2, <4>3, <4>4 DEF Inherits
    <3>3. CASE ~Newer(best.llu, llu[n])
      <4>1. ~Newer(llu[x], llu[n])
        <5>1. ~Newer(llu[n], llu[n])
          BY <2>6, NewerOrder
        <5>2. ASSUME NEW a \in members, llu[x] = a.llu
              PROVE  ~Newer(llu[x], llu[n])
          BY <2>2, <2>6, <3>1, <3>3, <5>2, NewerOrder
        <5>3. QED
          BY <2>8, <5>1, <5>2
      <4>2. Reached(v.llu, n)
        BY <2>6, <2>14, <3>1, <4>1, NewerOrder DEF Reached
      <4>3. \A s \in Nodes :
               Reached(v.llu, s)' => s = n \/ (Reached(v.llu, s) /\ Served(s)' = Served(s))
        BY <2>5, <2>12 DEF Reached, Others
      <4>4. v.id \in Served(n) => v.id \in Served(n)'
        BY <2>13, <3>3
      <4>5. QED
        BY <4>2, <4>3, <4>4 DEF Inherits
    <3>4. QED
      BY <3>2, <3>3
  <2>15. \A x \in Nodes : UnderWay(x) # {} => x # n
    BY <1>1, PendingFacts DEF ElectionOK, MergeOK, Master
  <2>16. CountedOK'
    <3>1. Stamp(n, n, stamp).generation = stamp[1]
      BY DEF Stamp
    <3>2. Quorum({x \in Nodes : counted'[x] >= stamp[1]})
      BY <2>7, <2>9, QuorumGrows
    <3>3. \A y \in stamped' : y \in stamped \/ Quorum({x \in Nodes : counted'[x] >= y.generation})
      BY <1>6, <3>1, <3>2
    <3>4. \A s \in Nodes : llu'[s][1] = llu[s][1] \/ \E y \in stamped' : y.generation = llu'[s][1]
      BY <1>6, <2>5, <3>1 DEF Others
    <3>5. QED
      BY <2>9, <2>10, <3>3, <3>4, CountedKept DEF HeldOK
  <2>17. IterationsOK'
    <3>1. \A x \in Nodes : x = n \/ (llu'[x] = llu[x] /\ merging'[x] = merging[x])
      BY <2>5 DEF Others
    <3>2. \A x \in Nodes : Synced(x)' => llu'[x][2] = 0 \/ (Synced(x) /\ llu'[x] = llu[x])
      BY <2>3, <2>5, <3>1 DEF Synced
    <3>3. \A x \in Nodes : llu'[x][2] = 0 \/ llu'[x] = llu[x]
      BY <2>3, <2>5, <3>1
    <3>4. QED
      BY <2>10, <3>2, <3>3, IterationsKept DEF HeldOK
  \* An update that no member has is lost.
  <2>18. ASSUME NEW m \in Nodes, NEW v \in UnderWay(m), Reached(v.llu, n)',
                \A x \in A : ~Reached(v.llu, x)
         PROVE  Lost(m, v)'
    <3>1. /\ v.llu \in Stamps /\ v.llu[1] = llu[m][1] /\ Reached(v.llu, m) /\ m # n
          /\ VersionOK(m, v)
      BY <2>15, PendingFacts DEF HeldOK, PendingOK
    <3>2. stamp[1] > llu'[m][1]
      <4>1. v.llu[1] \in Nat /\ v.llu[2] \in Nat /\ v.llu[2] > 0
        BY <3>1 DEF VersionOK, Stamps
      <4>2. ~Newer(v.llu, stamp)
        BY <2>5, <2>18 DEF Reached
      <4>3. llu'[m] = llu[m]
        BY <2>5, <3>1 DEF Others
      <4>4. QED
        BY <2>3, <3>1, <4>1, <4>2, <4>3 DEF Newer
    <3> DEFINE B == {x \in Others(m) : counted'[x] > llu'[m][1] /\ ~Answered(m, v, x)'}
    <3>3. ASSUME NEW x \in A
          PROVE  x \in B
      <4>1. x \in Nodes /\ x # m /\ ~Answered(m, v, x)
        BY <2>7, <2>18, <3>1 DEF VersionOK
      <4>2. observers'[m] = observers[m] /\ llu'[m][1] \in Nat
        BY <2>5, <2>6, <3>1 DEF Others
      <4>3. ~Answered(m, v, x)'
        BY <1>1, <4>1, <4>2 DEF Answered
      <4>4. counted'[x] \in Nat /\ counted'[x] >= stamp[1]
        BY <2>9, <4>1
      <4>5. QED
        BY <2>3, <3>2, <4>1, <4>2, <4>3, <4>4 DEF Others
    <3>4. A \subseteq B /\ B \subseteq Nodes /\ (Lost(m, v)' <=> Quorum(B))
      BY <3>3 DEF Others, Lost, Quorum
    <3> HIDE DEF B
    <3>5. QED
      BY <2>7, <3>4, QuorumGrows
  <2>19. ASSUME NEW m \in Nodes
         PROVE  ObserversOK(m)' /\ PendingOK(m)'
    <3>1. ObserversOK(m)'
      <4>1. CASE m = n
        BY <2>5, <4>1, NoneDistinct DEF ObserversOK
      <4>2. CASE m # n
        BY <2>5, <4>2 DEF HeldOK, ObserversOK, Others
      <4>3. QED
        BY <4>1, <4>2
    <3>2. CASE UnderWay(m) = {}
      BY <2>11, <3>1, <3>2 DEF PendingOK
    <3>3. CASE UnderWay(m) # {}
      <4>1. m \in Others(n)
        BY <2>15, <3>3 DEF Others
      <4>2. \A v \in UnderWay(m)' : \A x \in Nodes : Answered(m, v, x)' => Answered(m, v, x)
        BY <1>1, <2>5, <4>1 DEF Answered
      <4>3. ASSUME NEW v \in UnderWay(m)
            PROVE  Inherits(v) \/ Lost(m, v)'
        <5>1. CASE \E x \in A : Reached(v.llu, x)
          BY <2>14, <5>1, PendingFacts
        <5>2. CASE ~Reached(v.llu, n)'
          <6>1. \A s \in Nodes :
                   Reached(v.llu, s)' => Reached(v.llu, s) /\ Served(s)' = Served(s)
            BY <2>5, <2>12, <5>2 DEF Reached, Others
          <6>2. QED
            BY <6>1 DEF Inherits
        <5>3. QED
          BY <2>18, <5>1, <5>2
      <4>4. PendingOK(m)'
        BY <2>5, <2>10, <2>11, <4>1, <4>2, <4>3, PendingKept DEF HeldOK
      <4>5. QED
        BY <3>1, <4>4
    <3>4. QED
      BY <3>1, <3>2, <3>3
  <2>20. ASSUME NEW v \in acked
         PROVE  AckedOK(v)'
    <3>1. v.llu \in Stamps /\ AckedOK(v)
      BY DEF TypesOK, DataOK, Versions, HeldOK
    <3>2. {s \in Nodes : Reached(v.llu, s)} \in SUBSET Nodes
      OBVIOUS
    <3>3. PICK x \in A : Reached(v.llu, x)
      BY <2>7, <3>1, <3>2, QuorumsMeet DEF AckedOK
    <3>4. QED
      BY <2>10, <2>14, <2>11, <3>1, <3>3, AckedKept
  <2>21. PendingApart'
    BY <2>11 DEF HeldOK, PendingApart
  <2>22. QED
    BY <1>1, <2>16, <2>17, <2>19, <2>20, <2>21 DEF HeldOK
<1>7. QED
  BY <1>2, <1>3, <1>4, <1>5, <1>6 DEF Sync

\* Observers::init() gives a member what the coordinator serves, which is newer.
LEMMA InitSlaveHeld ==
    ASSUME TypesOK, TypesOK', ReplicasOK, ElectionOK, NamesOK, ContentOK, ErroredOK, HeldOK,
           NEW n \in Nodes, InitSlave(n), lapses' = {}
    PROVE  HeldOK'
<1>1. PICK k : k = merging[n]
  OBVIOUS
<1>2. PICK a : a = NextOf(k.todo)
  OBVIOUS
<1>3. PICK s : s = a.id
  OBVIOUS
<1>4. PICK left : left = k.todo \ {a}
  OBVIOUS
<1>5. PICK m : m = IF left # {} THEN [k EXCEPT !.todo = left]
                   ELSE [k EXCEPT !.step = "ready", !.todo = k.members]
  OBVIOUS
<1>6. /\ UNCHANGED <<committed, sending, counted, acked, errored>>
      /\ k.step = "init"
  BY <1>1 DEF InitSlave
<1>7. /\ a \in k.todo /\ s \in Nodes /\ k \in Inits
      /\ k.todo \subseteq k.members /\ Distinct(k.members)
  <2>1. k.todo # {}
    BY <1>1, <1>6 DEF TypesOK, MergingsOK, MergingOK
  <2>2. QED
    BY <1>1, <1>2, <1>3, <1>6, <2>1, NextOfTodo
<1>8. node[n].state = "Reorganization"
  BY <1>1, <1>6 DEF ElectionOK, MergeOK, Synced
<1>9. CASE GiveUp(n) /\ UNCHANGED <<topics, llu, stamped, observers>>
  BY <1>6, <1>9, GiveUpStill, StillHeld
<1>10. ASSUME node[s].state = "Reorganization", node[s].coord # s, Initialized(s, n),
              \/ /\ merging' = [merging EXCEPT ![n] = m]
                 /\ observers' = [observers EXCEPT ![n] = @ \cup {[id |-> s, inc |-> a.inc]},
                                                   ![s] = {}]
              \/ GiveUp(n) /\ observers' = [observers EXCEPT ![s] = {}]
       PROVE  HeldOK'
  <2>1. /\ s # n /\ merging[s] = None
        /\ llu'[s] = llu[n] /\ llu[s][1] < llu[n][1]
        /\ \A x \in Others(s) : llu'[x] = llu[x]
        /\ stamped' = stamped \cup {Stamp(s, n, llu[n])}
    BY <1>1, <1>3, <1>6, <1>7, <1>10, InitializedFacts
  <2>2. Stamp(s, n, llu[n]).generation = llu[n][1]
    BY DEF Stamp
  <2>3. \E y \in stamped : y.generation = llu[n][1]
    <3>1. Stamped(n, n, k.group, llu[n][1])
      BY <1>1, <1>6 DEF ElectionOK, InitOK, Synced
    <3>2. QED
      BY <3>1 DEF Stamped
  <2>4. /\ \A x \in Others(n) : merging'[x] = merging[x]
        /\ merging'[n] = m \/ merging'[n] = None
        /\ observers'[s] = {}
        /\ \/ observers'[n] = observers[n]
           \/ observers'[n] = observers[n] \cup {[id |-> s, inc |-> a.inc]}
        /\ \A x \in Nodes : x \in {n, s} \/ observers'[x] = observers[x]
    <3>1. CASE GiveUp(n) /\ observers' = [observers EXCEPT ![s] = {}]
      BY <1>7, <2>1, <3>1, GiveUpFacts DEF TypesOK, DataOK, Others
    <3>2. CASE /\ merging' = [merging EXCEPT ![n] = m]
               /\ observers' = [observers EXCEPT ![n] = @ \cup {[id |-> s, inc |-> a.inc]},
                                                 ![s] = {}]
      BY <1>7, <2>1, <3>2 DEF TypesOK, DataOK, MergingsOK, Others
    <3>3. QED
      BY <1>10, <3>1, <3>2
  <2>5. \A x \in Nodes : llu[x] \in Stamps /\ counted[x] \in Nat /\ llu[x][1] \in Nat
    BY Facts DEF TypesOK, DataOK, HeldOK, CountedOK
  <2>6. Grows
    <3>1. ~Newer(llu[s], llu[n])
      BY <1>7, <2>1, <2>5 DEF Newer
    <3>2. QED
      BY <1>6, <2>1, <2>5, <3>1, NewerOrder DEF Grows, Others
  <2>7. \A x \in Nodes : UnderWay(x)' = UnderWay(x)
    BY <1>6 DEF UnderWay
  <2>8. \A x \in Nodes : UnderWay(x) # {} => x \notin {n, s}
    BY <1>8, <1>10, PendingFacts DEF Master
  \* The content has what the coordinator serves.
  <2>9. \A v : Inherits(v)
    <3>1. /\ topics'[s] = k.content \ InError(s)
          /\ \A x \in Others(s) : topics'[x] = topics[x]
      BY <1>1, <1>7, <1>10 DEF Initialized, ReplicasOK, Others
    <3>2. topics[n] \subseteq k.content
      BY <1>1, <1>6 DEF ElectionOK, InitOK, Synced, ContentOK
    <3>3. InError(s) \subseteq errored
      BY <1>7 DEF InError, ErroredOK, InstalledOK
    <3>4. UnderWay(n) = {}
      BY <2>8
    <3>5. Served(n) \subseteq Served(s)'
      BY <1>6, <3>1, <3>2, <3>3, <3>4 DEF Served, Ids
    <3>6. \A x \in Others(s) : Served(x)' = Served(x)
      BY <1>6, <2>7, <3>1 DEF Served, Others
    <3>7. \A x \in Nodes : \E t \in Nodes : llu'[x] = llu[t] /\ Served(t) \subseteq Served(x)'
      BY <2>1, <3>5, <3>6 DEF Others
    <3>8. QED
      BY <3>7 DEF Inherits, Reached
  <2>10. CountedOK'
    <3>1. \A y \in stamped' : y \in stamped \/ \E z \in stamped : z.generation = y.generation
      BY <2>1, <2>2, <2>3
    <3>2. \A x \in Nodes : llu'[x][1] = llu[x][1] \/ \E t \in Nodes : llu'[x][1] = llu[t][1]
      BY <2>1 DEF Others
    <3>3. QED
      BY <1>6, <2>6, <3>1, <3>2, CountedKept DEF HeldOK, CountedOK
  <2>11. IterationsOK'
    <3>1. Synced(n) /\ ~Synced(s)
      BY <1>1, <1>6, <2>1 DEF Synced, None
    <3>2. \A x \in Nodes : Synced(x)' => Synced(x) /\ llu'[x] = llu[x]
      BY <2>1, <2>4, <3>1 DEF Synced, Others
    <3>3. \A x \in Nodes : \E t \in Nodes : llu'[x] = llu[t]
      BY <2>1 DEF Others
    <3>4. QED
      BY <2>6, <3>2, <3>3, IterationsKept DEF HeldOK
  <2>12. ASSUME NEW x \in Nodes
         PROVE  PendingOK(x)'
    <3>1. CASE UnderWay(x) = {}
      BY <2>7, <3>1 DEF PendingOK
    <3>2. CASE UnderWay(x) # {}
      <4>1. llu'[x] = llu[x] /\ observers'[x] = observers[x]
        BY <2>1, <2>4, <2>8, <3>2 DEF Others
      <4>2. \A v \in UnderWay(x)' : \A y \in Nodes : Answered(x, v, y)' => Answered(x, v, y)
        BY <1>6, <4>1 DEF Answered
      <4>3. QED
        BY <2>6, <2>9, <2>7, <4>1, <4>2, PendingKept DEF HeldOK
    <3>3. QED
      BY <3>1, <3>2
  <2>13. ASSUME NEW x \in Nodes
         PROVE  ObserversOK(x)'
    <3>1. CASE x = s
      BY <2>4, <3>1, NoneDistinct DEF ObserversOK
    <3>2. CASE x \notin {n, s}
      BY <2>4, <3>2 DEF HeldOK, ObserversOK, Others
    <3>3. CASE x = n
      <4>1. /\ IsFiniteSet(observers[n]) /\ \A p, q \in observers[n] : p.id = q.id => p = q
            /\ \A p \in observers[n], b \in k.todo : p.id # b.id
        BY <1>1, <1>6 DEF HeldOK, ObserversOK, Distinct
      <4>2. PICK o : o = [id |-> s, inc |-> a.inc]
        OBVIOUS
      <4>3. IsFiniteSet(observers'[n])
        <5>1. IsFiniteSet(observers[n] \cup {o})
          BY <4>1, FS_AddElement
        <5>2. QED
          BY <2>4, <4>1, <4>2, <5>1
      <4>4. \A p \in observers'[n] : p \in observers[n] \/ (p = o /\ p.id = s)
        BY <2>4, <4>2
      <4>5. Distinct(observers'[n])
        BY <1>3, <1>7, <4>1, <4>3, <4>4 DEF Distinct
      <4>6. ASSUME merging'[n].step = "init", NEW p \in observers'[n], NEW b \in merging'[n].todo
            PROVE  p.id # b.id
        <5>1. merging'[n].todo = left
          <6>1. m.step = "init" => m.todo = left
            BY <1>5, <1>6, <1>7 DEF Inits
          <6>2. QED
            BY <2>4, <4>6, <6>1 DEF None
        <5>2. b \in k.todo /\ b # a /\ b.id # s
          BY <1>3, <1>4, <1>7, <4>6, <5>1 DEF Distinct
        <5>3. QED
          BY <4>1, <4>4, <4>6, <5>2
      <4>7. QED
        BY <3>3, <4>5, <4>6 DEF ObserversOK
    <3>4. QED
      BY <3>1, <3>2, <3>3
  <2>14. \A v \in acked' : AckedOK(v)'
    BY <1>6, <2>6, <2>9, <2>7, AckedKept DEF HeldOK
  <2>15. PendingApart'
    BY <2>7 DEF HeldOK, PendingApart
  <2>16. QED
    BY <2>10, <2>11, <2>12, <2>13, <2>14, <2>15 DEF HeldOK
<1>11. QED
  BY <1>1, <1>2, <1>3, <1>4, <1>5, <1>9, <1>10 DEF InitSlave

-----------------------------------------------------------------------------
(***************************************************************************)
(* A coordinator is apart from its members                                 *)
(***************************************************************************)

\* No acceptance by x is sent.
NoAcceptance(x) == \A msg \in mail' : msg.type = "accept" => msg \in mail \/ msg.info.id # x
\* The group of x is the same or gone, and has no new members.
SameGroup(x) ==
    \/ node'[x].up \subseteq node[x].up /\ node'[x].group = node[x].group
    \/ node'[x].up = {} /\ node'[x].group = 0

\* A coordinator stays apart from its members when its group is the same or gone, and no
\* acceptance of its own is sent.
LEMMA ApartKept ==
    ASSUME TypesOK', NEW x \in Nodes, ApartOK(x), NoAcceptance(x), SameGroup(x),
           \/ merging'[x] = merging[x] \/ merging'[x] = None
           \/ /\ merging[x].step \in {"sync", "init", "ready"}
              /\ merging'[x].members = merging[x].members
    PROVE  ApartOK(x)'
<1> SUFFICES ASSUME merging'[x].step # "none"
             PROVE  ApartOK(x)'
  BY DEF ApartOK
<1>1. /\ merging[x].step # "none"
      /\ merging'[x].step \in {"sync", "init", "ready"} => \A a \in merging'[x].members : a.id # x
  BY DEF ApartOK, None
<1>2. \A a \in node'[x].up : a.id # x
  BY <1>1 DEF ApartOK, SameGroup
<1>3. ASSUME NEW msg \in mail', msg.type = "accept", msg.group = node'[x].group
      PROVE  msg.info.id # x
  <2>1. msg.group # 0
    BY <1>3, MailKinds, Facts DEF TypesOK, CallsOK, Invitations, Accepts
  <2>2. QED
    BY <1>1, <1>3, <2>1 DEF ApartOK, SameGroup, NoAcceptance
<1>4. QED
  BY <1>1, <1>2, <1>3 DEF ApartOK

\* Updates, crashes and recoveries keep a coordinator apart from its members.
LEMMA UpdateApart ==
    ASSUME TypesOK, TypesOK', NEW x \in Nodes, ApartOK(x), NEW m \in Nodes,
           Update(m) \/ Check(m) \/ TimeoutAsk(m) \/ TimeoutRecover(m) \/ Crash(m) \/ Restart(m)
    PROVE  ApartOK(x)'
<1>1. NoAcceptance(x)
  <2>1. mail' \subseteq mail
    BY DEF Update, CheckObservers, UpdateStart, UpdateCommit, UpdateSend, UpdateFinish,
           SubscriberFails, Replicate, Check, TimeoutAsk, TimeoutRecover, Crash, Restart
  <2>2. QED
    BY <2>1 DEF NoAcceptance
<1>2. merging'[x] = merging[x] \/ merging'[x] = None
  BY DEF Update, CheckObservers, UpdateStart, UpdateCommit, UpdateSend, UpdateFinish,
         SubscriberFails, Replicate, Check, TimeoutAsk, TimeoutRecover, Crash, Restart,
         processVars, TypesOK, MergingsOK
<1>3. SameGroup(x)
  <2>1. \A y \in Nodes : node[y] \in NodeRecords
    BY Facts
  <2>2. \A y \in Nodes : \A r \in {Recovered(node[y], y), Blank(y, "Down"), Blank(y, "Inactive")} :
           r.up = {} /\ r.group = 0
    <3>1. ASSUME NEW y \in Nodes
          PROVE  Recovered(node[y], y).up = {} /\ Recovered(node[y], y).group = 0
      BY <2>1 DEF Recovered, NodeRecords
    <3>2. \A y, state : Blank(y, state).up = {} /\ Blank(y, state).group = 0
      BY DEF Blank
    <3>3. QED
      BY <3>1, <3>2
  <2>3. ASSUME NEW y \in Nodes, NEW r \in {Recovered(node[y], y), Blank(y, "Down"),
                                          Blank(y, "Inactive")},
               node' = [node EXCEPT ![y] = r]
        PROVE  SameGroup(x)
    BY <2>2, <2>3 DEF SameGroup, TypesOK, NodesOK
  <2>4. CASE UNCHANGED node
    BY <2>4 DEF SameGroup
  <2>5. CASE Check(m)
    <3>1. ASSUME NEW s, NEW left, left = {a \in node[m].up : a.id \notin reaped[m]},
                 node' = [node EXCEPT ![m].up = left, ![m].mergeSet = s]
          PROVE  SameGroup(x)
      BY <2>1, <3>1 DEF SameGroup, TypesOK, NodesOK, NodeRecords
    <3>2. QED
      BY <2>3, <2>5, <3>1 DEF Check
  <2>6. CASE UpdateStart(m)
    BY <2>3, <2>4, <2>6 DEF UpdateStart
  <2>7. ASSUME NEW o \in observers[m], Replicate(m, o)
        PROVE  SameGroup(x)
    <3>1. o.id \in Nodes
      BY Facts DEF Infos
    <3>2. QED
      BY <2>3, <2>4, <2>7, <3>1 DEF Replicate
  <2>8. QED
    BY <2>3, <2>4, <2>5, <2>6, <2>7
       DEF Update, CheckObservers, UpdateCommit, UpdateSend, UpdateFinish, SubscriberFails,
           TimeoutAsk, TimeoutRecover, Crash, Restart
<1>4. QED
  BY <1>1, <1>2, <1>3, ApartKept

\* invitation() and accept() do: who has formed a group does not accept an invitation,
\* unless it was mistaken.
LEMMA DispatchApart ==
    ASSUME TypesOK, TypesOK', ElectionOK, NEW x \in Nodes, ApartOK(x), Dispatch, lapses' = {},
           ~assertFailed'
    PROVE  ApartOK(x)'
<1>1. ASSUME NEW msg \in mail, Invitation(msg)
      PROVE  ApartOK(x)'
  <2>1. UNCHANGED merging /\ msg.type = "invitation"
    BY <1>1 DEF Invitation
  <2>2. NoAcceptance(x)
    <3>1. \A to : [msg EXCEPT !.to = to].type # "accept"
      BY <2>1, MailKinds DEF Invitations
    <3>2. ASSUME NEW forward,
                 mail' = (mail \ {msg}) \cup {[msg EXCEPT !.to = m] : m \in forward}
          PROVE  NoAcceptance(x)
      BY <3>1, <3>2 DEF NoAcceptance
    <3>3. CASE mail' = mail \ {msg}
      BY <3>3 DEF NoAcceptance
    <3>4. QED
      BY <1>1, <3>2, <3>3 DEF Invitation
  <2>3. CASE merging[x] = None
    BY <2>1, <2>3 DEF ApartOK, None
  <2>4. CASE merging[x] # None
    <3>1. node[x].state \in Electing
      BY <2>4, Facts DEF ElectionOK, MergeOK, Electing
    <3>2. node'[x] = node[x]
      BY <1>1, <3>1 DEF Invitation, TypesOK, NodesOK
    <3>3. QED
      BY <2>1, <2>2, <3>2, ApartKept DEF SameGroup
  <2>5. QED
    BY <2>3, <2>4
<1>2. ASSUME NEW msg \in mail, Accept(msg)
      PROVE  ApartOK(x)'
  <2>1. /\ UNCHANGED merging /\ msg.type = "accept" /\ mail' = mail \ {msg}
        /\ \/ node' = node
           \/ /\ node[msg.to].group = msg.group
              /\ node' = [node EXCEPT
                       ![msg.to].max = IF msg.max > @ THEN msg.max ELSE @,
                       ![msg.to].up = IF msg.info.id \in Ids(@) THEN @ ELSE @ \cup {msg.info}]
    BY <1>2 DEF Accept, processVars
  <2>2. CASE node'[x] = node[x]
    BY <2>1, <2>2, ApartKept DEF SameGroup, NoAcceptance
  <2>3. CASE /\ x = msg.to /\ node[x].group = msg.group
             /\ node'[x].group = node[x].group
             /\ node'[x].up \subseteq node[x].up \cup {msg.info}
    BY <2>1, <2>3 DEF ApartOK
  <2>4. QED
    <3>1. CASE /\ x = msg.to /\ node[x].group = msg.group
               /\ node' = [node EXCEPT
                       ![x].max = IF msg.max > @ THEN msg.max ELSE @,
                       ![x].up = IF msg.info.id \in Ids(@) THEN @ ELSE @ \cup {msg.info}]
      <4>1. node[x] \in NodeRecords
        BY Facts
      <4>2. /\ node'[x].group = node[x].group
            /\ node'[x].up \subseteq node[x].up \cup {msg.info}
        BY <3>1, <4>1 DEF NodeRecords, TypesOK, NodesOK
      <4>3. QED
        BY <2>3, <3>1, <4>2
    <3>2. CASE x # msg.to
      BY <2>1, <2>2, <3>2 DEF TypesOK, NodesOK
    <3>3. QED
      BY <2>1, <2>2, <3>1, <3>2
<1>3. ASSUME NEW n \in Nodes, Join(n)
      PROVE  ApartOK(x)'
  <2>1. UNCHANGED merging
    BY <1>3 DEF Join
  <2>2. CASE x = n
    <3>1. merging[n] = None
      <4>1. /\ joining[n] # None
            /\ node[n].state = "Election" /\ node[n].group = joining[n].group
        BY <1>3 DEF Join, Lapse
      <4>2. QED
        BY <4>1, Facts DEF ElectionOK, MergeOK
    <3>2. QED
      BY <2>1, <2>2, <3>1 DEF ApartOK, None
  <2>3. CASE x # n
    <3>1. node'[x] = node[x]
      BY <1>3, <2>3 DEF Join, TypesOK, NodesOK
    <3>2. NoAcceptance(x)
      BY <1>3, <2>3 DEF Join, NoAcceptance, Member
    <3>3. QED
      BY <2>1, <3>1, <3>2, ApartKept DEF SameGroup
  <2>4. QED
    BY <2>2, <2>3
<1>4. QED
  BY <1>1, <1>2, <1>3 DEF Dispatch

\* recovery() in the middle of a merge does.
LEMMA GivenUpApart ==
    ASSUME TypesOK, TypesOK', NEW x \in Nodes, ApartOK(x), NEW n \in Nodes, GiveUp(n), mail' = mail
    PROVE  ApartOK(x)'
<1>1. /\ x = n => merging'[x] = None
      /\ x # n => node'[x] = node[x] /\ merging'[x] = merging[x]
  BY GiveUpFacts DEF Others
<1>2. QED
  BY <1>1, ApartKept DEF ApartOK, SameGroup, NoAcceptance, None

\* mergeContinue() does, once it has the members.
LEMMA FormingApart ==
    ASSUME TypesOK, TypesOK', NEW x \in Nodes, ApartOK(x), NEW n \in Nodes,
           Sync(n) \/ InitSlave(n) \/ ReadySlave(n) \/ ReadyDone(n)
    PROVE  ApartOK(x)'
<1>1. mail' = mail /\ merging[n].step \in {"sync", "init", "ready"}
  BY DEF Sync, InitSlave, ReadySlave, ReadyDone
<1>2. node[x] \in NodeRecords /\ merging[n] \in Syncs \cup Inits
  BY <1>1, Facts, MergingKinds DEF TypesOK
<1>3. CASE GiveUp(n)
  BY <1>1, <1>3, GivenUpApart
<1>4. CASE ~GiveUp(n) /\ (Sync(n) \/ InitSlave(n))
  <2>1. node'[x].up = node[x].up /\ node'[x].group = node[x].group
    <3>1. CASE Sync(n)
      <4>1. PICK largest : node' = [node EXCEPT ![n].max = largest]
        BY <1>4, <3>1 DEF Sync
      <4>2. QED
        BY <1>2, <4>1 DEF TypesOK, NodesOK, NodeRecords
    <3>2. CASE InitSlave(n)
      BY <1>4, <3>2 DEF InitSlave
    <3>3. QED
      BY <1>4, <3>1, <3>2
  <2>2. \A y \in Others(n) : merging'[y] = merging[y]
    BY <1>4 DEF Sync, InitSlave, TypesOK, MergingsOK, Others
  <2>3. merging'[n].members = merging[n].members
    <3>1. CASE Sync(n)
      <4>1. PICK m : m = [step |-> "init", group |-> merging[n].group,
                          members |-> merging[n].members, todo |-> merging[n].members,
                          stamp |-> NextStamp(Best(merging[n].members).llu),
                          content |-> topics'[n]]
        OBVIOUS
      <4>2. merging' = [merging EXCEPT ![n] = m]
        BY <1>4, <3>1, <4>1 DEF Sync
      <4>3. m.members = merging[n].members
        BY <4>1
      <4>4. QED
        BY <4>2, <4>3 DEF TypesOK, MergingsOK
    <3>2. CASE InitSlave(n)
      <4>1. merging[n] \in Inits
        BY <1>2, <3>2 DEF InitSlave, Syncs
      <4>2. PICK left : \/ merging'[n] = [merging[n] EXCEPT !.todo = left]
                        \/ merging'[n] = [merging[n] EXCEPT !.step = "ready", !.todo = left]
        BY <1>4, <3>2 DEF InitSlave, TypesOK, MergingsOK
      <4>3. QED
        BY <4>1, <4>2 DEF Inits
    <3>3. QED
      BY <1>4, <3>1, <3>2
  <2>4. QED
    BY <1>1, <2>1, <2>2, <2>3, ApartKept DEF SameGroup, NoAcceptance, Others
<1>5. CASE ReadySlave(n)
  <2>1. PICK a : a = NextOf(merging[n].todo)
    OBVIOUS
  <2>2. a.id \in Nodes /\ merging[n] \in Inits
    BY <1>1, <1>5, <2>1, NextOfTodo DEF ReadySlave
  <2>3. PICK r : /\ r \in {node[a.id], Readied(a.id, n)}
                 /\ \/ node' = [node EXCEPT ![a.id] = r]
                    \/ node' = [node EXCEPT ![a.id] = r, ![n] = Recovered(node[n], n)]
    BY <1>5, <2>1 DEF ReadySlave
  <2>4. r.up = node[a.id].up /\ r.group = node[a.id].group
    <3>1. node[a.id] \in NodeRecords
      BY <2>2, Facts
    <3>2. QED
      BY <2>3, <3>1 DEF Readied, NodeRecords
  <2>5. SameGroup(x)
    <3>1. Recovered(node[n], n).up = {} /\ Recovered(node[n], n).group = 0
      BY Facts DEF Recovered, NodeRecords
    <3>2. QED
      BY <2>2, <2>3, <2>4, <3>1 DEF SameGroup, TypesOK, NodesOK
  <2>6. /\ \A y \in Others(n) : merging'[y] = merging[y]
        /\ merging'[n] = None \/ merging'[n].members = merging[n].members
    BY <1>5, <2>2 DEF ReadySlave, TypesOK, MergingsOK, Others, Inits
  <2>7. QED
    BY <1>1, <2>5, <2>6, ApartKept DEF NoAcceptance, Others
<1>6. CASE ReadyDone(n)
  <2>1. node'[x].up = node[x].up /\ node'[x].group = node[x].group
    BY <1>2, <1>6 DEF ReadyDone, TypesOK, NodesOK, NodeRecords
  <2>2. merging'[x] = merging[x] \/ merging'[x] = None
    BY <1>6 DEF ReadyDone, TypesOK, MergingsOK
  <2>3. QED
    BY <1>1, <2>1, <2>2, ApartKept DEF SameGroup, NoAcceptance
<1>7. QED
  BY <1>3, <1>4, <1>5, <1>6

\* The timer's tasks do: a group begins with no member.
LEMMA TimerApart ==
    ASSUME TypesOK, TypesOK', ElectionOK, NEW x \in Nodes, ApartOK(x), NEW n \in Nodes, Timer(n)
    PROVE  ApartOK(x)'
<1>1. CASE Check(n) \/ TimeoutAsk(n) \/ TimeoutRecover(n)
  BY <1>1, UpdateApart
<1>2. CASE Merge(n)
  <2>1. NoAcceptance(x)
    BY <1>2 DEF Merge, NoAcceptance
  <2>2. CASE x = n
    <3>1. /\ node'[x].up = {} /\ node'[x].group = groups + 1
          /\ merging'[x] = [step |-> "pending"]
      BY <1>2, <2>2, Facts DEF Merge, TypesOK, NodesOK, MergingsOK, NodeRecords
    <3>2. \A msg \in mail' : msg.type = "accept" => msg.group # groups + 1
      <4>1. \A msg \in mail' : msg.type = "accept" => msg \in mail
        BY <1>2 DEF Merge
      <4>2. \A msg \in mail : msg.group \in 1..groups
        BY MailKinds DEF TypesOK, CallsOK, Invitations, Accepts
      <4>3. groups \in Nat
        BY Facts
      <4>4. QED
        BY <4>1, <4>2, <4>3
    <3>3. QED
      BY <3>1, <3>2 DEF ApartOK
  <2>3. CASE x # n
    <3>1. node'[x] = node[x] /\ merging'[x] = merging[x]
      BY <1>2, <2>3 DEF Merge, TypesOK, NodesOK, MergingsOK
    <3>2. QED
      BY <2>1, <3>1, ApartKept DEF SameGroup
  <2>4. QED
    BY <2>2, <2>3
<1>3. CASE MergeContinue(n)
  <2>1. mail' = mail
    BY <1>3 DEF MergeContinue
  <2>2. CASE GiveUp(n)
    BY <2>1, <2>2, GivenUpApart
  <2>3. CASE /\ node' = [node EXCEPT ![n].state = "Reorganization"]
             /\ merging' = [merging EXCEPT ![n] =
                              [step |-> "sync", group |-> node[n].group, members |-> node[n].up]]
    <3>1. node'[x].up = node[x].up /\ node'[x].group = node[x].group
      BY <2>3, Facts DEF TypesOK, NodesOK, NodeRecords
    <3>2. CASE x = n
      <4>1. merging'[x].members = node[x].up
        BY <2>3, <3>2 DEF TypesOK, MergingsOK
      <4>2. merging[x].step # "none"
        BY <1>3, <3>2 DEF MergeContinue
      <4>3. QED
        BY <2>1, <3>1, <4>1, <4>2 DEF ApartOK
    <3>3. CASE x # n
      <4>1. merging'[x] = merging[x]
        BY <2>3, <3>3 DEF TypesOK, MergingsOK
      <4>2. QED
        BY <2>1, <3>1, <4>1, ApartKept DEF SameGroup, NoAcceptance
    <3>4. QED
      BY <3>2, <3>3
  <2>4. QED
    BY <1>3, <2>2, <2>3 DEF MergeContinue
<1>4. CASE Sync(n) \/ InitSlave(n) \/ ReadySlave(n) \/ ReadyDone(n)
  BY <1>4, FormingApart
<1>5. QED
  BY <1>1, <1>2, <1>3, <1>4 DEF Timer

-----------------------------------------------------------------------------
(***************************************************************************)
(* What a database has and a node does not serve                           *)
(***************************************************************************)

\* InstalledOK is kept where the database gets nothing that is not served or in error.
LEMMA InstalledKept ==
    ASSUME NEW x \in Nodes, InstalledOK(x),
           errored \subseteq errored', creations \subseteq creations', stamped \subseteq stamped',
           data'[x] \ (topics'[x] \cup errored') \subseteq data[x] \ (topics[x] \cup errored),
           llu'[x][1] = llu[x][1]
    PROVE  InstalledOK(x)'
<1>1. data'[x] \subseteq topics'[x] \cup creations' \cup errored'
  BY DEF InstalledOK
<1>2. CASE data[x] \subseteq topics[x] \cup errored
  BY <1>1, <1>2 DEF InstalledOK
<1>3. CASE \E y \in stamped : y.id = x /\ y.coord = x /\ y.generation = llu[x][1]
  BY <1>1, <1>3 DEF InstalledOK
<1>4. QED
  BY <1>2, <1>3 DEF InstalledOK

\* Steps that leave the databases and _topics alone.
LEMMA AllInstalled ==
    ASSUME ErroredOK, UNCHANGED <<data, topics, creations, llu, errored, stamped>>
    PROVE  ErroredOK'
BY DEF ErroredOK, InstalledOK

\* Updates: a topic that is created is not installed yet, on the master that has stamped
\* its database; a slave has what it takes in both.
LEMMA UpdateErrored ==
    ASSUME TypesOK, ReplicasOK, ElectionOK, ErroredOK, NEW m \in Nodes, Update(m)
    PROVE  ErroredOK'
<1>1. \A x \in Nodes : InstalledOK(x)
  BY DEF ErroredOK
<1>2. CASE CheckObservers(m) \/ UpdateStart(m) \/ UpdateSend(m)
  BY <1>2, AllInstalled DEF CheckObservers, UpdateStart, UpdateSend, history
<1>3. CASE UpdateCommit(m)
  <2>1. PICK u : u = updates + 1
    OBVIOUS
  <2>2. /\ UNCHANGED <<errored, stamped>> /\ creations \subseteq creations'
        /\ data' = [data EXCEPT ![m] = @ \cup {u}]
        /\ \/ creations' = creations \cup {u} /\ UNCHANGED topics
           \/ topics' = [topics EXCEPT ![m] = @ \cup {u}]
        /\ \A x \in Nodes : llu'[x][1] = llu[x][1]
    BY <1>3, <2>1 DEF UpdateCommit, TypesOK, DataOK
  <2>3. data'[m] = data[m] \cup {u} /\ topics[m] \subseteq topics'[m]
        /\ u \in topics'[m] \cup creations'
        /\ \A x \in Others(m) : data'[x] = data[x] /\ topics'[x] = topics[x]
    BY <2>2 DEF ReplicasOK, Others
  <2>4. \E y \in stamped : y.id = m /\ y.coord = m /\ y.generation = llu[m][1]
    <3>1. Master(m) /\ RoleOK(m)
      BY <1>3 DEF UpdateCommit, ElectionOK, UpdateOK, Quiet
    <3>2. node[m].coord = m /\ Stamped(m, m, node[m].group, llu[m][1])
      BY <3>1 DEF RoleOK, Master
    <3>3. QED
      BY <3>2 DEF Stamped
  <2>5. InstalledOK(m)'
    <3>1. data'[m] \subseteq topics'[m] \cup creations' \cup errored'
      BY <1>1, <2>2, <2>3 DEF InstalledOK
    <3>2. \E y \in stamped' : y.id = m /\ y.coord = m /\ y.generation = llu'[m][1]
      BY <2>2, <2>4
    <3>3. QED
      BY <3>1, <3>2 DEF InstalledOK
  <2>6. \A x \in Others(m) : InstalledOK(x)'
    BY <1>1, <2>2, <2>3, InstalledKept DEF Others
  <2>7. QED
    BY <2>5, <2>6 DEF ErroredOK, Others
<1>4. CASE UpdateFinish(m)
  <2>1. UNCHANGED <<data, creations, llu, errored, stamped>>
    BY <1>4 DEF UpdateFinish
  <2>2. \A x \in Nodes : topics[x] \subseteq topics'[x]
    <3>1. CASE UNCHANGED topics
      BY <3>1
    <3>2. CASE topics' = [topics EXCEPT ![m] = @ \cup {sending[m].id}]
      BY <3>2 DEF ReplicasOK
    <3>3. QED
      BY <1>4, <3>1, <3>2 DEF UpdateFinish
  <2>3. QED
    BY <1>1, <2>1, <2>2, InstalledKept DEF ErroredOK
<1>5. CASE SubscriberFails(m)
  <2>1. UNCHANGED <<data, creations, llu, stamped>>
    BY <1>5 DEF SubscriberFails
  <2>2. /\ errored \subseteq errored'
        /\ \A x \in Nodes : topics[x] \subseteq topics'[x] \cup errored'
    BY <1>5 DEF SubscriberFails, ReplicasOK
  <2>3. QED
    BY <1>1, <2>1, <2>2, InstalledKept DEF ErroredOK
<1>6. ASSUME NEW o \in observers[m], Replicate(m, o)
      PROVE  ErroredOK'
  <2>1. UNCHANGED <<creations, errored, stamped>>
    BY <1>6 DEF Replicate
  <2>2. CASE UNCHANGED <<data, topics, llu>>
    BY <2>1, <2>2, AllInstalled
  <2>3. CASE /\ TakesUpdate(o.id, sending[m])
             /\ data' = [data EXCEPT ![o.id] = @ \cup {sending[m].id}]
             /\ topics' = [topics EXCEPT ![o.id] = @ \cup {sending[m].id}]
             /\ llu' = [llu EXCEPT ![o.id] = sending[m].llu]
    <3>1. o.id \in Nodes
      BY <1>6, Facts DEF Infos
    <3>2. llu[o.id][1] = sending[m].llu[1]
      BY <2>3, <3>1 DEF TakesUpdate, ElectionOK, RoleOK
    <3>3. \A x \in Nodes : llu'[x][1] = llu[x][1]
      BY <2>3, <3>1, <3>2 DEF TypesOK, DataOK
    <3>4. \A x \in Nodes : data'[x] \ topics'[x] \subseteq data[x] \ topics[x]
      BY <2>3, <3>1 DEF ReplicasOK
    <3>5. QED
      BY <1>1, <2>1, <3>3, <3>4, InstalledKept DEF ErroredOK
  <2>4. QED
    BY <1>6, <2>2, <2>3 DEF Replicate
<1>7. QED
  BY <1>2, <1>3, <1>4, <1>5, <1>6, <1>1 DEF Update

\* getContent() gives what is in _topics, and initMaster() leaves out what is in error.
LEMMA SyncErrored ==
    ASSUME TypesOK, ReplicasOK, ErroredOK, NEW n \in Nodes, Sync(n)
    PROVE  ErroredOK'
<1>1. \A x \in Nodes : InstalledOK(x)
  BY DEF ErroredOK
<1>2. UNCHANGED <<creations, errored>>
  BY DEF Sync
<1>3. CASE UNCHANGED <<data, topics, llu, stamped>>
  BY <1>2, <1>3, AllInstalled
<1>4. PICK best : best = Best(merging[n].members)
  OBVIOUS
<1>5. PICK stamp : stamp = NextStamp(best.llu)
  OBVIOUS
<1>6. CASE /\ IF Newer(best.llu, llu[n])
              THEN /\ data' = [data EXCEPT ![n] = topics[best.id]]
                   /\ topics' = [topics EXCEPT ![n] = topics[best.id] \ InError(n)]
              ELSE UNCHANGED <<data, topics>>
           /\ llu' = [llu EXCEPT ![n] = stamp]
           /\ stamped' = stamped \cup {Stamp(n, n, stamp)}
  <2>1. /\ llu'[n] = stamp
        /\ \A x \in Others(n) : /\ llu'[x] = llu[x] /\ data'[x] = data[x]
                                /\ topics'[x] = topics[x]
    BY <1>6 DEF TypesOK, DataOK, ReplicasOK, Others
  <2>2. \A x \in Others(n) : InstalledOK(x)'
    BY <1>1, <1>2, <1>6, <2>1, InstalledKept DEF Others
  <2>3. InstalledOK(n)'
    <3>1. data'[n] \subseteq topics'[n] \cup creations \cup errored
      <4>1. CASE Newer(best.llu, llu[n])
        <5>1. data'[n] = topics[best.id] /\ topics'[n] = topics[best.id] \ InError(n)
          BY <1>6, <4>1 DEF ReplicasOK
        <5>2. InError(n) \subseteq errored
          BY <1>1 DEF InError, InstalledOK
        <5>3. QED
          BY <5>1, <5>2
      <4>2. CASE ~Newer(best.llu, llu[n])
        BY <1>1, <1>6, <4>2 DEF InstalledOK
      <4>3. QED
        BY <4>1, <4>2
    <3>2. \E y \in stamped' : y.id = n /\ y.coord = n /\ y.generation = llu'[n][1]
      <4>1. PICK y : y = Stamp(n, n, stamp)
        OBVIOUS
      <4>2. y.id = n /\ y.coord = n /\ y.generation = stamp[1]
        BY <4>1 DEF Stamp
      <4>3. QED
        BY <1>6, <2>1, <4>1, <4>2
    <3>3. QED
      BY <1>2, <3>1, <3>2 DEF InstalledOK
  <2>4. QED
    BY <2>2, <2>3 DEF ErroredOK, Others
<1>7. QED
  BY <1>3, <1>4, <1>5, <1>6 DEF Sync

\* ReplicaObserverI::init leaves out what is in error.
LEMMA InitSlaveErrored ==
    ASSUME TypesOK, ReplicasOK, ErroredOK, NEW n \in Nodes, InitSlave(n)
    PROVE  ErroredOK'
<1>1. \A x \in Nodes : InstalledOK(x)
  BY DEF ErroredOK
<1>2. UNCHANGED <<creations, errored>>
  BY DEF InitSlave
<1>3. CASE UNCHANGED <<data, topics, llu, stamped>>
  BY <1>2, <1>3, AllInstalled
<1>4. PICK s : s = NextOf(merging[n].todo).id
  OBVIOUS
<1>5. CASE Initialized(s, n) /\ s \in Nodes
  <2>1. /\ data'[s] = merging[n].content /\ topics'[s] = merging[n].content \ InError(s)
        /\ \A x \in Others(s) : /\ llu'[x] = llu[x] /\ data'[x] = data[x]
                                /\ topics'[x] = topics[x]
        /\ stamped \subseteq stamped'
    BY <1>5 DEF Initialized, TypesOK, DataOK, ReplicasOK, Others
  <2>2. \A x \in Others(s) : InstalledOK(x)'
    BY <1>1, <1>2, <2>1, InstalledKept DEF Others
  <2>3. InError(s) \subseteq errored
    BY <1>1, <1>5 DEF InError, InstalledOK
  <2>4. InstalledOK(s)'
    BY <1>2, <2>1, <2>3 DEF InstalledOK
  <2>5. QED
    BY <2>2, <2>4 DEF ErroredOK, Others
<1>6. QED
  <2>1. s \in Nodes
    <3>1. merging[n].step = "init" /\ merging[n].todo # {}
      BY DEF InitSlave, TypesOK, MergingsOK, MergingOK
    <3>2. QED
      BY <1>4, <3>1, NextOfTodo
  <2>2. QED
    BY <1>3, <1>4, <1>5, <2>1 DEF InitSlave

\* Every step without a lapse keeps ErroredOK.
LEMMA NextErrored ==
    ASSUME TypesOK, ReplicasOK, ElectionOK, ErroredOK, [Next]_vars, lapses' = {}
    PROVE  ErroredOK'
<1>1. ASSUME NEW n \in Nodes, Timer(n) PROVE ErroredOK'
  <2>1. CASE Check(n) \/ Merge(n) \/ TimeoutAsk(n) \/ TimeoutRecover(n) \/ MergeContinue(n)
    BY <2>1, AllInstalled
       DEF Check, Merge, TimeoutAsk, TimeoutRecover, MergeContinue, replicaVars, history
  <2>2. CASE ReadySlave(n) \/ ReadyDone(n)
    BY <2>2, AllInstalled DEF ReadySlave, ReadyDone, replicaVars, history
  <2>3. QED
    BY <1>1, <2>1, <2>2, SyncErrored, InitSlaveErrored DEF Timer
<1>2. ASSUME NEW n \in Nodes, Update(n) PROVE ErroredOK'
  BY <1>2, UpdateErrored
<1>3. ASSUME NEW n \in Nodes, Crash(n) PROVE ErroredOK'
  BY <1>3, AllInstalled DEF Crash, history
<1>4. ASSUME NEW n \in Nodes, Restart(n) PROVE ErroredOK'
  <2>1. llu[n] = <<0, 0>> /\ UNCHANGED <<llu, data, creations, errored, stamped>>
    BY <1>4 DEF Restart, Lapse, TypesOK, DataOK
  <2>2. \A x \in Nodes : topics'[x] = IF x = n THEN data[n] ELSE topics[x]
    BY <1>4 DEF Restart, ReplicasOK
  <2>3. \A x \in Nodes : data'[x] \ (topics'[x] \cup errored') \subseteq
                            data[x] \ (topics[x] \cup errored)
    BY <2>1, <2>2
  <2>4. QED
    BY <2>1, <2>3, InstalledKept DEF ErroredOK
<1>5. ASSUME Dispatch PROVE ErroredOK'
  BY <1>5, AllInstalled DEF Dispatch, Invitation, Accept, Join, replicaVars, history
<1>6. CASE UNCHANGED vars
  BY <1>6, AllInstalled DEF vars, replicaVars, history
<1>7. QED
  BY <1>1, <1>2, <1>3, <1>4, <1>5, <1>6 DEF Next

-----------------------------------------------------------------------------
(***************************************************************************)
(* The LLUs that coordinators have been told                               *)
(***************************************************************************)

\* No database gets older, and whoever becomes a master, or begins to initialise, has
\* stamped its database.
Advances ==
    \A x \in Nodes :
        /\ ~Newer(llu[x], llu'[x])
        /\ Master(x)' \/ Synced(x)' => Master(x) \/ Synced(x) \/ llu'[x] # llu[x]

\* The steps that replicate nothing.
LEMMA CalmAdvances == TypesOK /\ Calm => Advances
<1> SUFFICES ASSUME TypesOK, Calm, NEW x \in Nodes
             PROVE  /\ ~Newer(llu[x], llu'[x])
                    /\ Master(x)' \/ Synced(x)' => Master(x) \/ Synced(x)
  BY DEF Advances
<1>1. llu'[x] = llu[x] /\ llu[x] \in Stamps
  BY Facts DEF Calm
<1>2. Master(x)' => Master(x)
  BY DEF Calm, Master
<1>3. Synced(x)' => Synced(x)
  BY DEF Calm
<1>4. QED
  BY <1>1, <1>2, <1>3, NewerOrder

\* Updates make LLUs newer, on a slave as on the master.
LEMMA UpdateAdvances ==
    ASSUME TypesOK, ElectionOK, NamesOK, NEW m \in Nodes,
           \/ UpdateCommit(m) \/ UpdateSend(m) \/ UpdateFinish(m)
           \/ \E o \in observers[m] : Replicate(m, o)
    PROVE  Advances
<1>1. UNCHANGED merging
  BY DEF UpdateCommit, UpdateSend, UpdateFinish, Replicate, processVars
<1>2. \A x \in Nodes : Synced(x)' = Synced(x)
  BY <1>1 DEF Synced
<1>3. \A x \in Nodes : llu[x] \in Stamps
  BY Facts
<1>4. CASE UpdateSend(m) \/ UpdateFinish(m)
  <2>1. UNCHANGED <<node, llu>>
    BY <1>4 DEF UpdateSend, UpdateFinish
  <2>2. QED
    BY <1>2, <1>3, <2>1, NewerOrder DEF Advances, Master
<1>5. CASE UpdateCommit(m)
  <2>1. /\ UNCHANGED node
        /\ llu'[m] = <<llu[m][1], llu[m][2] + 1>> /\ \A x \in Others(m) : llu'[x] = llu[x]
    BY <1>5 DEF UpdateCommit, TypesOK, DataOK, Others
  <2>2. ~Newer(llu[m], llu'[m])
    BY <2>1, Facts DEF Newer
  <2>3. QED
    BY <1>2, <1>3, <2>1, <2>2, NewerOrder DEF Advances, Master, Others
<1>6. ASSUME NEW o \in observers[m], Replicate(m, o)
      PROVE  Advances
  <2>1. PICK s : s = o.id
    OBVIOUS
  <2>2. s \in Nodes
    BY <2>1, Facts DEF Infos
  <2>3. \/ UNCHANGED node
        \/ node' = [node EXCEPT ![s] = Recovered(node[s], s)]
    BY <1>6, <2>1 DEF Replicate
  <2>4. \A x \in Nodes : Master(x)' => Master(x)
    <3>1. CASE UNCHANGED node
      BY <3>1 DEF Master
    <3>2. CASE node' = [node EXCEPT ![s] = Recovered(node[s], s)]
      <4>1. Recovered(node[s], s).state = "Inactive"
        BY <2>2, Facts, RecoveredType
      <4>2. \A x \in Nodes : node'[x] = IF x = s THEN Recovered(node[s], s) ELSE node[x]
        BY <3>2 DEF TypesOK, NodesOK
      <4>3. QED
        BY <4>1, <4>2 DEF Master
    <3>3. QED
      BY <2>3, <3>1, <3>2
  <2>5. \A x \in Nodes : ~Newer(llu[x], llu'[x])
    <3>1. CASE UNCHANGED llu
      BY <1>3, <3>1, NewerOrder
    <3>2. CASE TakesUpdate(s, sending[m]) /\ llu' = [llu EXCEPT ![s] = sending[m].llu]
      <4>1. sending[m] # None /\ Master(m) /\ sending[m].llu[1] = llu[m][1]
        BY <1>6, SendingFacts DEF Replicate, ElectionOK, UpdateOK
      <4>2. OnDuty(s) /\ node[s].slave /\ llu[s][1] = llu[m][1]
        BY <2>2, <3>2, <4>1 DEF TakesUpdate, OnDuty, ElectionOK, RoleOK
      <4>3. s \in Others(m)
        BY <2>2, <4>1, <4>2 DEF Master, Others
      <4>4. s \in SlavesOf(m)
        BY <4>1, <4>2, <4>3, SlaveOfGeneration
      <4>5. ~Newer(llu[s], sending[m].llu)
        BY <4>1, <4>4 DEF NamesOK, MasterOK, SlaveOK
      <4>6. \A x \in Nodes : llu'[x] = IF x = s THEN sending[m].llu ELSE llu[x]
        BY <3>2 DEF TypesOK, DataOK
      <4>7. QED
        BY <1>3, <4>5, <4>6, NewerOrder
    <3>3. QED
      BY <1>6, <2>1, <3>1, <3>2 DEF Replicate
  <2>6. QED
    BY <1>2, <2>4, <2>5 DEF Advances
<1>7. QED
  BY <1>4, <1>5, <1>6

\* mergeContinue() stamps its database with a generation above its own.
LEMMA SyncAdvances ==
    ASSUME TypesOK, ElectionOK, NEW n \in Nodes, Sync(n), lapses' = {}
    PROVE  Advances
<1>1. merging[n].step = "sync" /\ ~Master(n)
  BY DEF Sync, ElectionOK, MergeOK, Master
<1>2. \A x \in Nodes : llu[x] \in Stamps
  BY Facts
<1>3. CASE GiveUp(n) /\ UNCHANGED llu
  <2>1. \A x \in Nodes : ~Newer(llu[x], llu'[x])
    BY <1>2, <1>3, NewerOrder
  <2>2. \A x \in Nodes : (Master(x)' => Master(x)) /\ (Synced(x)' => Synced(x))
    BY <1>3, GiveUpFacts DEF Master, Synced, Others
  <2>3. QED
    BY <2>1, <2>2 DEF Advances
<1>4. PICK best : best = Best(merging[n].members)
  OBVIOUS
<1>5. CASE /\ ~(best.llu[1] < llu[n][1])
           /\ llu' = [llu EXCEPT ![n] = NextStamp(best.llu)]
           /\ \E m : merging' = [merging EXCEPT ![n] = m]
           /\ \E largest : node' = [node EXCEPT ![n].max = largest]
  <2>1. best.llu \in Stamps
    <3>1. /\ merging[n].members \in SUBSET Members /\ Distinct(merging[n].members)
          /\ merging[n].members # {}
      BY <1>1, MergingKinds DEF TypesOK, MergingsOK, MergingOK, Syncs
    <3>2. QED
      BY <1>4, <3>1, BestIsNewest DEF Distinct, Members
  <2>2. best.llu[1] \in Nat /\ llu[n][1] \in Nat /\ llu[n][2] \in Nat
    BY <2>1, Facts DEF Stamps
  <2>3. llu'[n] = <<best.llu[1] + 1, 0>> /\ \A x \in Others(n) : llu'[x] = llu[x]
    BY <1>5 DEF TypesOK, DataOK, NextStamp, Others
  <2>4. ~Newer(llu[n], llu'[n]) /\ llu'[n] # llu[n]
    BY <1>5, <2>2, <2>3 DEF Newer
  <2>5. \A x \in Others(n) : node'[x] = node[x] /\ merging'[x] = merging[x]
    BY <1>5 DEF TypesOK, NodesOK, MergingsOK, Others
  <2>6. \A x \in Others(n) : Master(x)' = Master(x) /\ Synced(x)' = Synced(x)
    BY <2>5 DEF Master, Synced
  <2>7. \A x \in Nodes : ~Newer(llu[x], llu'[x])
    BY <1>2, <2>3, <2>4, NewerOrder DEF Others
  <2>8. QED
    BY <2>4, <2>6, <2>7 DEF Advances, Others
<1>6. QED
  BY <1>3, <1>4, <1>5 DEF Sync, Lapse

\* Observers::init() stamps a member's database with a newer generation.
LEMMA InitSlaveAdvances ==
    ASSUME TypesOK, ElectionOK, NEW n \in Nodes, InitSlave(n), lapses' = {}
    PROVE  Advances
<1>1. \A x \in Nodes : llu[x] \in Stamps
  BY Facts
<1>2. \A x \in Nodes : (Master(x)' => Master(x)) /\ (Synced(x)' => Synced(x))
  <2>1. CASE GiveUp(n)
    BY <2>1, GiveUpFacts DEF Master, Synced, Others
  <2>2. CASE ~GiveUp(n)
    <3>1. UNCHANGED node /\ Synced(n) /\ \E m : merging' = [merging EXCEPT ![n] = m]
      BY <2>2 DEF InitSlave, Synced
    <3>2. \A x \in Others(n) : merging'[x] = merging[x]
      BY <3>1 DEF TypesOK, MergingsOK, Others
    <3>3. QED
      BY <3>1, <3>2 DEF Master, Synced, Others
  <2>3. QED
    BY <2>1, <2>2
<1>3. \A x \in Nodes : ~Newer(llu[x], llu'[x])
  <2>1. CASE UNCHANGED llu
    BY <1>1, <2>1, NewerOrder
  <2>2. PICK a : a = NextOf(merging[n].todo)
    OBVIOUS
  <2>3. PICK s : s = a.id
    OBVIOUS
  <2>4. CASE /\ node[s].state = "Reorganization" /\ node[s].coord # s
             /\ Initialized(s, n)
    <3>1. merging[n].step = "init" /\ merging[n].todo # {}
      BY DEF InitSlave, TypesOK, MergingsOK, MergingOK
    <3>2. a \in merging[n].todo /\ s \in Nodes
      BY <2>2, <2>3, <3>1, NextOfTodo
    <3>3. /\ llu'[s] = llu[n] /\ llu[s][1] < llu[n][1]
          /\ \A x \in Others(s) : llu'[x] = llu[x]
      BY <2>3, <2>4, <3>1, <3>2, InitializedFacts
    <3>4. ~Newer(llu[s], llu'[s])
      BY <3>2, <3>3, Facts DEF Newer
    <3>5. QED
      BY <1>1, <3>3, <3>4, NewerOrder DEF Others
  <2>5. QED
    BY <2>1, <2>2, <2>3, <2>4 DEF InitSlave
<1>4. QED
  BY <1>2, <1>3 DEF Advances

\* ready() makes a master of who has stamped.
LEMMA ReadyAdvances ==
    ASSUME TypesOK, ElectionOK, NEW n \in Nodes, ReadySlave(n) \/ ReadyDone(n), lapses' = {}
    PROVE  Advances
<1>1. \A x \in Nodes : llu[x] \in Stamps
  BY Facts
<1>2. CASE ReadySlave(n)
  <2>1. /\ UNCHANGED llu /\ Synced(n)
        /\ \A x \in Others(n) : merging'[x] = merging[x]
        /\ \A t \in Nodes : node'[t].state = "Normal" =>
              (node[t].state = "Normal" /\ node'[t].slave = node[t].slave) \/ node'[t].slave = TRUE
    BY <1>2, ReadySlaveEffect
  <2>2. \A x \in Nodes : (Master(x)' => Master(x)) /\ (Synced(x)' => Synced(x))
    BY <2>1 DEF Master, Synced, Others
  <2>3. \A x \in Nodes : ~Newer(llu[x], llu'[x])
    BY <1>1, <2>1, NewerOrder
  <2>4. QED
    BY <2>2, <2>3 DEF Advances
<1>3. CASE ReadyDone(n)
  <2>1. UNCHANGED llu /\ Synced(n)
    BY <1>3 DEF ReadyDone, replicaVars, Synced
  <2>2. \A x \in Others(n) : node'[x] = node[x] /\ merging'[x] = merging[x]
    BY <1>3 DEF ReadyDone, TypesOK, NodesOK, MergingsOK, Others
  <2>3. \A x \in Others(n) : Master(x)' = Master(x) /\ Synced(x)' = Synced(x)
    BY <2>2 DEF Master, Synced
  <2>4. \A x \in Nodes : ~Newer(llu[x], llu'[x])
    BY <1>1, <2>1, NewerOrder
  <2>5. QED
    BY <2>1, <2>3, <2>4 DEF Advances, Others
<1>4. QED
  BY <1>2, <1>3

\* Every step without a lapse.
LEMMA NextAdvances ==
    ASSUME TypesOK, ElectionOK, NamesOK, [Next]_vars, lapses' = {}, ~assertFailed'
    PROVE  Advances
<1>1. ASSUME Replicating PROVE Advances
  BY <1>1, SyncAdvances, InitSlaveAdvances, ReadyAdvances, UpdateAdvances DEF Replicating
<1>2. QED
  BY <1>1, NextCalm, CalmAdvances

\* A node that has told its LLU has it until it is stamped or updated.
LEMMA ToldKept ==
    ASSUME TypesOK, TypesOK', Advances, NEW i \in Members, ToldOK(i)
    PROVE  ToldOK(i)'
<1>1. /\ i.id \in Nodes /\ i.llu \in Stamps
      /\ llu[i.id] \in Stamps /\ llu'[i.id] \in Stamps
  BY DEF Members, TypesOK, DataOK
<1>2. ~Newer(i.llu, llu[i.id]) /\ ~Newer(llu[i.id], llu'[i.id])
  BY <1>1 DEF ToldOK, Advances
<1>3. ~Newer(i.llu, llu'[i.id])
  BY <1>1, <1>2, NewerOrder
<1>4. ASSUME llu'[i.id] = i.llu
      PROVE  ~Master(i.id)' /\ ~Synced(i.id)'
  <2>1. llu[i.id] = i.llu
    BY <1>1, <1>2, <1>4, NewerOrder
  <2>2. ~Master(i.id) /\ ~Synced(i.id) /\ llu'[i.id] = llu[i.id]
    BY <1>4, <2>1 DEF ToldOK
  <2>3. QED
    BY <1>1, <2>2 DEF Advances
<1>5. QED
  BY <1>3, <1>4 DEF ToldOK

\* Where the LLUs that a step leaves with the coordinators come from.
Acceptances == {msg \in mail : msg.type = "accept"}
InfosFrom ==
    /\ \A n \in Nodes : \A i \in node'[n].up :
          i \in node[n].up \/ \E msg \in Acceptances : msg.info = i
    /\ \A n \in Nodes : merging'[n].step = "sync" =>
          \/ merging[n].step = "sync" /\ merging'[n].members = merging[n].members
          \/ merging'[n].members = node[n].up
    /\ \A msg \in mail' : msg.type = "accept" =>
          \/ msg \in mail
          \/ \E n \in Nodes : /\ msg.info = Member(n, llu[n], incarnation[n])
                              /\ llu'[n] = llu[n] /\ ~Master(n)' /\ ~Synced(n)'

\* What the coordinators have been told stays true if it comes from such LLUs.
LEMMA InfosKept ==
    ASSUME TypesOK, TypesOK', Advances, InfosOK, InfosFrom
    PROVE  InfosOK'
<1>1. \A msg \in Acceptances : ToldOK(msg.info) /\ msg.info \in Members
  <2>1. \A msg \in Acceptances : msg \in mail /\ msg.type = "accept"
    BY DEF Acceptances
  <2>2. \A msg \in Acceptances : msg.info \in Members
    BY <2>1, MailKinds DEF TypesOK, Accepts, Invitations
  <2>3. QED
    BY <2>1, <2>2 DEF InfosOK
<1>2. \A n \in Nodes : \A i \in node[n].up : ToldOK(i) /\ i \in Members
  BY Facts DEF InfosOK, NodeRecords
<1>3. \A n \in Nodes : merging[n].step = "sync" =>
         \A i \in merging[n].members : ToldOK(i) /\ i \in Members
  BY MergingKinds DEF InfosOK, TypesOK, Syncs
<1>4. \A n \in Nodes : \A i \in node'[n].up : ToldOK(i)'
  <2> SUFFICES ASSUME NEW n \in Nodes, NEW i \in node'[n].up
               PROVE  ToldOK(i)'
    OBVIOUS
  <2>1. ToldOK(i) /\ i \in Members
    BY <1>1, <1>2 DEF InfosFrom
  <2>2. QED
    BY <2>1, ToldKept
<1>5. \A n \in Nodes : merging'[n].step = "sync" => \A i \in merging'[n].members : ToldOK(i)'
  <2> SUFFICES ASSUME NEW n \in Nodes, merging'[n].step = "sync", NEW i \in merging'[n].members
               PROVE  ToldOK(i)'
    OBVIOUS
  <2>1. ToldOK(i) /\ i \in Members
    BY <1>2, <1>3 DEF InfosFrom
  <2>2. QED
    BY <2>1, ToldKept
<1>6. \A msg \in mail' : msg.type = "accept" => ToldOK(msg.info)'
  <2> SUFFICES ASSUME NEW msg \in mail', msg.type = "accept"
               PROVE  ToldOK(msg.info)'
    OBVIOUS
  <2>1. PICK i : i = msg.info
    OBVIOUS
  <2>2. CASE msg \in mail
    <3>1. ToldOK(i) /\ i \in Members
      BY <1>1, <2>1, <2>2 DEF Acceptances
    <3>2. ToldOK(i)'
      BY <3>1, ToldKept
    <3>3. QED
      BY <2>1, <3>2 DEF ToldOK
  <2>3. ASSUME NEW n \in Nodes, msg.info = Member(n, llu[n], incarnation[n]),
               llu'[n] = llu[n], ~Master(n)', ~Synced(n)'
        PROVE  ToldOK(msg.info)'
    <3>1. msg.info.id = n /\ msg.info.llu = llu[n]
      BY <2>3 DEF Member
    <3>2. ~Newer(llu[n], llu[n])
      BY Facts, NewerOrder
    <3>3. QED
      BY <2>3, <3>1, <3>2 DEF ToldOK
  <2>4. QED
    BY <2>2, <2>3 DEF InfosFrom
<1>7. QED
  BY <1>4, <1>5, <1>6 DEF InfosOK

\* A step that sends no acceptance, begins no merge and adds no member.
Aside ==
    /\ \A msg \in mail' : msg.type = "accept" => msg \in mail
    /\ \A n \in Nodes : node'[n].up \subseteq node[n].up
    /\ \A n \in Nodes : merging'[n].step = "sync" => merging'[n] = merging[n]

\* A step that leaves the members of the groups alone.
LEMMA AsideInfos == Aside => InfosFrom
BY DEF Aside, InfosFrom

\* Nodes that recover, start or crash have no members.
LEMMA MembersKept ==
    ASSUME TypesOK, NEW y \in Nodes,
           \/ node' = node
           \/ node' = [node EXCEPT ![y] = Recovered(node[y], y)]
           \/ \E state : node' = [node EXCEPT ![y] = Blank(y, state)]
           \/ \E s, r : /\ s \in Nodes /\ r.up = node[s].up
                        /\ \/ node' = [node EXCEPT ![s] = r]
                           \/ node' = [node EXCEPT ![s] = r, ![y] = Recovered(node[y], y)]
    PROVE  \A n \in Nodes : node'[n].up \subseteq node[n].up
<1>1. Recovered(node[y], y).up = {}
  BY Facts DEF Recovered, NodeRecords
<1>2. \A state : Blank(y, state).up = {}
  BY DEF Blank
<1>3. QED
  BY <1>1, <1>2 DEF TypesOK, NodesOK

\* Updates, crashes and restarts.
LEMMA UpdateInfos ==
    ASSUME TypesOK, NEW m \in Nodes, Update(m) \/ Crash(m) \/ Restart(m)
    PROVE  InfosFrom
<1>1. mail' \subseteq mail
  BY DEF Update, CheckObservers, UpdateStart, UpdateCommit, UpdateSend, UpdateFinish,
         SubscriberFails, Replicate, Crash, Restart
<1>2. \A n \in Nodes : merging'[n] = merging[n] \/ merging'[n] = None
  BY DEF Update, CheckObservers, UpdateStart, UpdateCommit, UpdateSend, UpdateFinish,
         SubscriberFails, Replicate, Crash, Restart, processVars, TypesOK, MergingsOK
<1>3. \A n \in Nodes : node'[n].up \subseteq node[n].up
  <2>1. CASE CheckObservers(m) \/ UpdateCommit(m) \/ UpdateSend(m) \/ UpdateFinish(m)
             \/ SubscriberFails(m)
    BY <2>1 DEF CheckObservers, UpdateCommit, UpdateSend, UpdateFinish, SubscriberFails
  <2>2. CASE UpdateStart(m)
    BY <2>2, MembersKept DEF UpdateStart
  <2>3. ASSUME NEW o \in observers[m], Replicate(m, o)
        PROVE  \A n \in Nodes : node'[n].up \subseteq node[n].up
    <3>1. o.id \in Nodes
      BY Facts DEF Infos
    <3>2. node' = node \/ node' = [node EXCEPT ![o.id] = Recovered(node[o.id], o.id)]
      BY <2>3 DEF Replicate
    <3>3. QED
      BY <3>1, <3>2, MembersKept
  <2>4. CASE Crash(m) \/ Restart(m)
    BY <2>4, MembersKept DEF Crash, Restart
  <2>5. QED
    BY <2>1, <2>2, <2>3, <2>4 DEF Update
<1>4. Aside
  BY <1>1, <1>2, <1>3 DEF Aside, None
<1>5. QED
  BY <1>4, AsideInfos

\* The timer's tasks: a merge begins with the members that have accepted.
LEMMA TimerInfos ==
    ASSUME TypesOK, NEW n \in Nodes, Timer(n)
    PROVE  InfosFrom
<1>1. ASSUME NEW m, merging' = [merging EXCEPT ![n] = m], m.step # "sync"
      PROVE  \A x \in Nodes : merging'[x].step = "sync" => merging'[x] = merging[x]
  BY <1>1 DEF TypesOK, MergingsOK
<1>2. CASE Check(n)
  <2>1. UNCHANGED <<mail, merging>>
    BY <1>2 DEF Check, processVars
  <2>2. \A x \in Nodes : node'[x].up \subseteq node[x].up
    <3>1. ASSUME NEW s, NEW left, left \subseteq node[n].up,
                 node' = [node EXCEPT ![n].up = left, ![n].mergeSet = s]
          PROVE  \A x \in Nodes : node'[x].up \subseteq node[x].up
      BY <3>1, Facts DEF TypesOK, NodesOK, NodeRecords
    <3>2. {a \in node[n].up : a.id \notin reaped[n]} \subseteq node[n].up
      OBVIOUS
    <3>3. QED
      BY <1>2, <3>1, <3>2, MembersKept DEF Check
  <2>3. QED
    BY <2>1, <2>2, AsideInfos DEF Aside
<1>3. CASE TimeoutAsk(n) \/ TimeoutRecover(n)
  <2>1. UNCHANGED <<mail, merging>>
    BY <1>3 DEF TimeoutAsk, TimeoutRecover
  <2>2. \A x \in Nodes : node'[x].up \subseteq node[x].up
    BY <1>3, MembersKept DEF TimeoutAsk, TimeoutRecover
  <2>3. QED
    BY <2>1, <2>2, AsideInfos DEF Aside
<1>4. CASE Merge(n)
  <2>1. \A msg \in mail' : msg.type = "accept" => msg \in mail
    BY <1>4 DEF Merge
  <2>2. node'[n].up = {} /\ \A x \in Others(n) : node'[x] = node[x]
    BY <1>4, Facts DEF Merge, TypesOK, NodesOK, NodeRecords, Others
  <2>3. merging' = [merging EXCEPT ![n] = [step |-> "pending"]]
    BY <1>4 DEF Merge
  <2>4. QED
    BY <1>1, <2>1, <2>2, <2>3, AsideInfos DEF Aside, Others
<1>5. CASE MergeContinue(n)
  <2>1. mail' = mail
    BY <1>5 DEF MergeContinue
  <2>2. CASE GiveUp(n)
    BY <2>1, <2>2, MembersKept, <1>1, AsideInfos DEF GiveUp, None, Aside
  <2>3. CASE /\ node' = [node EXCEPT ![n].state = "Reorganization"]
             /\ merging' = [merging EXCEPT ![n] =
                              [step |-> "sync", group |-> node[n].group, members |-> node[n].up]]
    <3>1. \A x \in Nodes : node'[x].up = node[x].up
      BY <2>3, Facts DEF TypesOK, NodesOK, NodeRecords
    <3>2. /\ merging'[n].members = node[n].up
          /\ \A x \in Others(n) : merging'[x] = merging[x]
      BY <2>3 DEF TypesOK, MergingsOK, Others
    <3>3. QED
      BY <2>1, <3>1, <3>2 DEF InfosFrom, Others
  <2>4. QED
    BY <1>5, <2>2, <2>3 DEF MergeContinue
<1>6. CASE Sync(n) \/ InitSlave(n)
  <2>1. mail' = mail
    BY <1>6 DEF Sync, InitSlave
  <2>2. CASE GiveUp(n)
    BY <2>1, <2>2, MembersKept, <1>1, AsideInfos DEF GiveUp, None, Aside
  <2>3. CASE ~GiveUp(n)
    <3>1. \A x \in Nodes : node'[x].up = node[x].up
      <4>1. CASE Sync(n)
        <5>1. PICK largest : node' = [node EXCEPT ![n].max = largest]
          BY <2>3, <4>1 DEF Sync
        <5>2. QED
          BY <5>1, Facts DEF TypesOK, NodesOK, NodeRecords
      <4>2. CASE InitSlave(n)
        BY <2>3, <4>2 DEF InitSlave
      <4>3. QED
        BY <1>6, <4>1, <4>2
    <3>2. \A x \in Nodes : merging'[x].step = "sync" => merging'[x] = merging[x]
      <4>1. CASE Sync(n)
        <5>1. PICK m : m = [step |-> "init", group |-> merging[n].group,
                            members |-> merging[n].members, todo |-> merging[n].members,
                            stamp |-> NextStamp(Best(merging[n].members).llu),
                            content |-> topics'[n]]
          OBVIOUS
        <5>2. merging' = [merging EXCEPT ![n] = m]
          BY <2>3, <4>1, <5>1 DEF Sync
        <5>3. m.step = "init"
          BY <5>1
        <5>4. QED
          BY <1>1, <5>2, <5>3
      <4>2. CASE InitSlave(n)
        <5>1. merging[n] \in Inits /\ merging[n].step = "init"
          BY <4>2, MergingKinds DEF InitSlave, TypesOK
        <5>2. PICK left : \/ merging' = [merging EXCEPT ![n] = [@ EXCEPT !.todo = left]]
                          \/ merging' = [merging EXCEPT ![n] =
                                            [@ EXCEPT !.step = "ready", !.todo = left]]
          BY <2>3, <4>2 DEF InitSlave
        <5>3. PICK m : merging' = [merging EXCEPT ![n] = m] /\ m.step \in {"init", "ready"}
          BY <5>1, <5>2 DEF Inits, TypesOK, MergingsOK
        <5>4. QED
          BY <1>1, <5>3
      <4>3. QED
        BY <1>6, <4>1, <4>2
    <3>3. QED
      BY <2>1, <3>1, <3>2, AsideInfos DEF Aside
  <2>4. QED
    BY <2>2, <2>3
<1>7. CASE ReadySlave(n)
  <2>1. mail' = mail
    BY <1>7 DEF ReadySlave
  <2>2. PICK a : a = NextOf(merging[n].todo)
    OBVIOUS
  <2>3. a.id \in Nodes /\ merging[n] \in Inits /\ merging[n].step = "ready"
    <3>1. merging[n].step = "ready" /\ merging[n].todo # {}
      BY <1>7 DEF ReadySlave
    <3>2. QED
      BY <2>2, <3>1, NextOfTodo
  <2>4. PICK r : /\ r \in {node[a.id], Readied(a.id, n)}
                 /\ \/ node' = [node EXCEPT ![a.id] = r]
                    \/ node' = [node EXCEPT ![a.id] = r, ![n] = Recovered(node[n], n)]
    BY <1>7, <2>2 DEF ReadySlave
  <2>5. r.up = node[a.id].up
    BY <2>3, <2>4, Facts DEF Readied, NodeRecords
  <2>6. \A x \in Nodes : node'[x].up \subseteq node[x].up
    BY <2>3, <2>4, <2>5, MembersKept
  <2>7. \/ merging' = [merging EXCEPT ![n] = None]
        \/ \E left : merging' = [merging EXCEPT ![n].todo = left]
    BY <1>7 DEF ReadySlave
  <2>8. PICK m : merging' = [merging EXCEPT ![n] = m] /\ m.step # "sync"
    BY <2>3, <2>7 DEF Inits, None, TypesOK, MergingsOK
  <2>9. QED
    BY <1>1, <2>1, <2>6, <2>8, AsideInfos DEF Aside
<1>8. CASE ReadyDone(n)
  <2>1. mail' = mail /\ merging' = [merging EXCEPT ![n] = None]
    BY <1>8 DEF ReadyDone
  <2>2. \A x \in Nodes : node'[x].up = node[x].up
    BY <1>8, Facts DEF ReadyDone, TypesOK, NodesOK, NodeRecords
  <2>3. QED
    BY <1>1, <2>1, <2>2, AsideInfos DEF Aside, None
<1>9. QED
  BY <1>2, <1>3, <1>4, <1>5, <1>6, <1>7, <1>8 DEF Timer

\* invitation() tells the LLU of a node that is neither master nor coordinator.
LEMMA DispatchInfos ==
    ASSUME TypesOK, ElectionOK, Dispatch, lapses' = {}, ~assertFailed'
    PROVE  InfosFrom
<1>1. ASSUME NEW msg \in mail, Invitation(msg)
      PROVE  InfosFrom
  <2>1. UNCHANGED merging /\ msg.type = "invitation"
    BY <1>1 DEF Invitation
  <2>2. \A c \in mail' : c.type = "accept" => c \in mail
    <3>1. \A to : [msg EXCEPT !.to = to].type # "accept"
      BY <2>1, MailKinds DEF TypesOK, Invitations, Accepts
    <3>2. ASSUME NEW forward,
                 mail' = (mail \ {msg}) \cup {[msg EXCEPT !.to = m] : m \in forward}
          PROVE  \A c \in mail' : c.type = "accept" => c \in mail
      BY <3>1, <3>2
    <3>3. CASE mail' = mail \ {msg}
      BY <3>3
    <3>4. QED
      BY <1>1, <3>2, <3>3 DEF Invitation
  <2>3. \A x \in Nodes : node'[x].up = node[x].up
    BY <1>1, Facts DEF Invitation, TypesOK, NodesOK, NodeRecords
  <2>4. QED
    BY <2>1, <2>2, <2>3, AsideInfos DEF Aside
<1>2. ASSUME NEW msg \in mail, Accept(msg)
      PROVE  InfosFrom
  <2>1. UNCHANGED merging /\ mail' \subseteq mail /\ msg \in Acceptances
    BY <1>2 DEF Accept, processVars, Acceptances
  <2>2. \A x \in Nodes : node'[x].up \subseteq node[x].up \cup {msg.info}
    <3>1. CASE node' = node
      BY <3>1
    <3>2. CASE node' = [node EXCEPT
                       ![msg.to].max = IF msg.max > @ THEN msg.max ELSE @,
                       ![msg.to].up = IF msg.info.id \in Ids(@) THEN @ ELSE @ \cup {msg.info}]
      BY <3>2, Facts DEF TypesOK, NodesOK, NodeRecords
    <3>3. QED
      BY <1>2, <3>1, <3>2 DEF Accept
  <2>3. QED
    BY <2>1, <2>2 DEF InfosFrom
<1>3. ASSUME NEW n \in Nodes, Join(n)
      PROVE  InfosFrom
  <2>1. UNCHANGED <<merging, llu>>
    BY <1>3 DEF Join, replicaVars
  <2>2. merging[n] = None
    <3>1. joining[n] # None /\ node[n].state = "Election" /\ node[n].group = joining[n].group
      BY <1>3 DEF Join, Lapse
    <3>2. QED
      BY <3>1, Facts DEF ElectionOK, MergeOK
  <2>3. CASE node' = [node EXCEPT ![n] = Recovered(node[n], n)] /\ mail' = mail
    BY <2>1, <2>3, MembersKept, AsideInfos DEF Aside
  <2>4. CASE /\ node' = [node EXCEPT ![n].state = "Reorganization", ![n].timeout = TRUE]
             /\ \E c : mail' = mail \cup {c} /\ c.info = Member(n, llu[n], incarnation[n])
    <3>1. /\ \A x \in Nodes : node'[x].up = node[x].up
          /\ node'[n].state = "Reorganization"
      BY <2>4, Facts DEF TypesOK, NodesOK, NodeRecords
    <3>2. ~Master(n)' /\ ~Synced(n)'
      BY <2>1, <2>2, <3>1 DEF Master, Synced, None
    <3>3. \A c \in mail' : c \in mail \/ c.info = Member(n, llu[n], incarnation[n])
      BY <2>4
    <3>4. QED
      BY <2>1, <3>1, <3>2, <3>3 DEF InfosFrom
  <2>5. QED
    <3>1. PICK c : c = [type |-> "accept", to |-> joining[n].from, group |-> joining[n].group,
                        max |-> node[n].max, info |-> Member(n, llu[n], incarnation[n])]
      OBVIOUS
    <3>2. c.info = Member(n, llu[n], incarnation[n])
      BY <3>1
    <3>3. \/ node' = [node EXCEPT ![n] = Recovered(node[n], n)] /\ mail' = mail
          \/ /\ node' = [node EXCEPT ![n].state = "Reorganization", ![n].timeout = TRUE]
             /\ mail' = mail \cup {c}
      BY <1>3, <3>1 DEF Join
    <3>4. QED
      BY <2>3, <2>4, <3>2, <3>3
<1>4. QED
  BY <1>1, <1>2, <1>3 DEF Dispatch

\* Every step without a lapse keeps InfosOK.
LEMMA NextInfos ==
    ASSUME TypesOK, TypesOK', ElectionOK, NamesOK, InfosOK, [Next]_vars, lapses' = {},
           ~assertFailed'
    PROVE  InfosOK'
<1>1. InfosFrom
  <2>1. CASE UNCHANGED vars
    BY <2>1, AsideInfos DEF vars, processVars, Aside
  <2>2. QED
    BY <2>1, UpdateInfos, TimerInfos, DispatchInfos DEF Next
<1>2. QED
  BY <1>1, NextAdvances, InfosKept

-----------------------------------------------------------------------------
(***************************************************************************)
(* The updates survive                                                     *)
(***************************************************************************)

\* Every step keeps the argument, unless it is a lapse or fails an assertion.
LEMMA NextHeld ==
    ASSUME TypesOK, TypesOK', ReplicasOK, ElectionOK, NamesOK, ContentOK, SurvivalOK,
           [Next]_vars, lapses' = {}, ~assertFailed'
    PROVE  SurvivalOK'
<1>1. HeldOK /\ ErroredOK /\ InfosOK /\ \A n \in Nodes : ApartOK(n)
  BY DEF SurvivalOK
<1>2. ASSUME Still, acked' = acked
      PROVE  HeldOK'
  BY <1>1, <1>2, StillHeld
<1>3. HeldOK'
  <2>1. ASSUME NEW n \in Nodes, Timer(n) PROVE HeldOK'
    <3>1. CASE Sync(n)
      BY <1>1, <3>1, SyncHeld
    <3>2. CASE InitSlave(n)
      BY <1>1, <3>2, InitSlaveHeld
    <3>3. CASE \/ Check(n) \/ Merge(n) \/ TimeoutAsk(n) \/ TimeoutRecover(n) \/ MergeContinue(n)
               \/ ReadySlave(n) \/ ReadyDone(n)
      <4>1. acked' = acked
        BY <3>3 DEF Check, Merge, TimeoutAsk, TimeoutRecover, MergeContinue, ReadySlave, ReadyDone,
                    history
      <4>2. QED
        BY <1>2, <3>3, <4>1, TimerStill
    <3>4. QED
      BY <2>1, <3>1, <3>2, <3>3 DEF Timer
  <2>2. ASSUME NEW n \in Nodes, Update(n) PROVE HeldOK'
    <3>1. CASE UpdateSend(n)
      BY <1>2, <3>1, UpdateSendStill DEF UpdateSend
    <3>2. CASE CheckObservers(n) \/ UpdateStart(n) \/ SubscriberFails(n)
      <4>1. acked' = acked
        BY <3>2 DEF CheckObservers, UpdateStart, SubscriberFails, history
      <4>2. QED
        BY <1>2, <3>2, <4>1, ObserversStill
    <3>3. CASE UpdateCommit(n)
      BY <1>1, <3>3, UpdateCommitHeld
    <3>4. CASE UpdateFinish(n)
      BY <1>1, <3>4, UpdateFinishHeld
    <3>5. ASSUME NEW o \in observers[n], Replicate(n, o)
          PROVE  HeldOK'
      BY <1>1, <3>5, ReplicateHeld
    <3>6. QED
      BY <2>2, <3>1, <3>2, <3>3, <3>4, <3>5 DEF Update
  <2>3. ASSUME NEW n \in Nodes, Crash(n) \/ Restart(n) PROVE HeldOK'
    BY <1>2, <2>3, CrashStill DEF Crash, Restart, history
  <2>4. ASSUME Dispatch PROVE HeldOK'
    BY <1>2, <2>4, DispatchStill DEF Dispatch, Invitation, Accept, Join, history
  <2>5. CASE UNCHANGED vars
    <3>1. UNCHANGED <<llu, topics, errored, stamped, counted, committed, sending, observers,
                      merging, acked>>
      BY <2>5 DEF vars, processVars, replicaVars, history
    <3>2. QED
      BY <1>2, <3>1, StillIf
  <2>6. QED
    BY <2>1, <2>2, <2>3, <2>4, <2>5 DEF Next
<1>4. ASSUME NEW x \in Nodes
      PROVE  ApartOK(x)'
  <2>1. CASE UNCHANGED vars
    BY <1>1, <2>1 DEF vars, processVars, ApartOK
  <2>2. QED
    BY <1>1, <2>1, TimerApart, UpdateApart, DispatchApart DEF Next
<1>5. ErroredOK' /\ InfosOK'
  BY <1>1, NextErrored, NextInfos
<1>6. QED
  BY <1>3, <1>4, <1>5 DEF SurvivalOK

\* Among a master and a majority of slaves is a node that has reached the update, and
\* the master's database is not older.
LEMMA SurvivalImplies ==
    ASSUME TypesOK, ElectionOK, NamesOK, SurvivalOK
    PROVE  AckedSurvive
<1> SUFFICES ASSUME NEW n \in Nodes, Master(n), Cardinality(SlavesOf(n)) >= Majority,
                    NEW v \in acked
             PROVE  v.id \in topics[n] \cup errored
  BY DEF AckedSurvive, Ids
<1>1. AckedOK(v) /\ v.llu \in Stamps
  BY DEF SurvivalOK, HeldOK, TypesOK, DataOK, Versions
<1>2. Quorum(SlavesOf(n) \cup {n})
  <2>1. n \notin SlavesOf(n) /\ SlavesOf(n) \subseteq Nodes
    BY DEF SlavesOf, Master
  <2>2. IsFiniteSet(SlavesOf(n))
    BY <2>1, NodesAssumption, FS_Subset
  <2>3. Cardinality(SlavesOf(n) \cup {n}) = Cardinality(SlavesOf(n)) + 1
    BY <2>1, <2>2, FS_AddElement
  <2>4. QED
    BY <2>2, <2>3, MajorityType, FS_CardinalityType DEF Quorum
<1>3. PICK s \in Nodes : Reached(v.llu, s) /\ s \in SlavesOf(n) \cup {n}
  <2> DEFINE A == {s \in Nodes : Reached(v.llu, s)}
  <2>1. A \in SUBSET Nodes /\ Quorum(A)
    BY <1>1 DEF AckedOK
  <2>2. SlavesOf(n) \cup {n} \in SUBSET Nodes
    BY DEF SlavesOf
  <2>3. PICK s \in Nodes : s \in A /\ s \in SlavesOf(n) \cup {n}
    <3> HIDE DEF A
    <3> QED
      BY <1>2, <2>1, <2>2, QuorumsMeet
  <2>4. QED
    BY <2>3
<1>4. ~Newer(llu[s], llu[n])
  <2>1. CASE s = n
    BY <2>1, Facts DEF Newer
  <2>2. CASE s \in SlavesOf(n)
    BY <2>2 DEF NamesOK, MasterOK, SlaveOK
  <2>3. QED
    BY <1>3, <2>1, <2>2
<1>5. Reached(v.llu, n)
  BY <1>1, <1>3, <1>4, NewerOrder DEF Reached, TypesOK, DataOK
<1>6. v.id \in Served(n) /\ v.id \notin Ids(UnderWay(n))
  BY <1>1, <1>5 DEF AckedOK, Ids
<1>7. QED
  BY <1>6 DEF Served

\* The step that fails an assertion takes no node on duty.
LEMMA FailingSurvives ==
    ASSUME TypesOK, AckedSurvive, NEW n \in Nodes, Join(n) \/ MergeContinue(n)
    PROVE  AckedSurvive'
<1>1. UNCHANGED <<topics, errored, acked>>
  BY DEF Join, MergeContinue, replicaVars, history
<1>2. \/ node' = [node EXCEPT ![n].state = "Reorganization"]
      \/ node' = [node EXCEPT ![n].state = "Reorganization", ![n].timeout = TRUE]
      \/ node' = [node EXCEPT ![n] = Recovered(node[n], n)]
  BY DEF Join, MergeContinue, GiveUp
<1>3. node'[n].state \in {"Reorganization", "Inactive"} /\ \A x \in Others(n) : node'[x] = node[x]
  BY <1>2, Facts, RecoveredType DEF TypesOK, NodesOK, NodeRecords, Others
<1>4. \A x \in Nodes : node'[x].state = "Normal" => node'[x] = node[x]
  BY <1>3 DEF Others
<1>5. ASSUME NEW x \in Nodes, Master(x)', Cardinality(SlavesOf(x)') >= Majority
      PROVE  Master(x) /\ Cardinality(SlavesOf(x)) >= Majority
  <2>1. Master(x) /\ SlavesOf(x)' \subseteq SlavesOf(x) /\ SlavesOf(x) \subseteq Nodes
    BY <1>4, <1>5 DEF Master, SlavesOf
  <2>2. IsFiniteSet(SlavesOf(x)) /\ IsFiniteSet(SlavesOf(x)')
    BY <2>1, NodesAssumption, FS_Subset
  <2>3. Cardinality(SlavesOf(x)') <= Cardinality(SlavesOf(x))
    BY <2>1, <2>2, FS_Subset
  <2>4. QED
    BY <1>5, <2>1, <2>2, <2>3, MajorityType, FS_CardinalityType
<1>6. QED
  BY <1>1, <1>5 DEF AckedSurvive

\* What a step keeps, with the inductive invariant of the election.
Survival ==
    /\ Clean => SurvivalOK
    /\ lapses = {} /\ assertFailed => AckedSurvive

\* The argument holds in every state without a lapse, up to a failed assertion.
LEMMA SurvivalInvariance == Spec => []Survival
<1>1. Init => Survival
  <2> SUFFICES ASSUME Init PROVE Survival
    OBVIOUS
  <2>1. \A n \in Nodes : /\ merging[n] = None /\ committed[n] = {} /\ sending[n] = None
                         /\ observers[n] = {} /\ llu[n] = <<0, 0>>
                         /\ data[n] = {} /\ node[n].up = {}
    BY DEF Init, Blank
  <2>2. mail = {} /\ stamped = {} /\ acked = {} /\ counted = [n \in Nodes |-> 0] /\ ~assertFailed
    BY DEF Init
  <2>3. CountedOK
    BY <2>1, <2>2 DEF CountedOK
  <2>4. IterationsOK
    BY <2>1 DEF IterationsOK
  <2>5. \A n \in Nodes : UnderWay(n) = {}
    BY <2>1 DEF UnderWay
  <2>6. \A n \in Nodes : ObserversOK(n) /\ PendingOK(n) /\ ApartOK(n)
    BY <2>1, <2>5, NoneDistinct DEF ObserversOK, PendingOK, ApartOK, None
  <2>7. ErroredOK
    BY <2>1 DEF ErroredOK, InstalledOK
  <2>8. InfosOK
    BY <2>1, <2>2 DEF InfosOK, None
  <2>9. QED
    BY <2>2, <2>3, <2>4, <2>5, <2>6, <2>7, <2>8 DEF Survival, SurvivalOK, HeldOK, PendingApart
<1>2. IInv /\ IInv' /\ Survival /\ [Next]_vars => Survival'
  <2> SUFFICES ASSUME IInv, IInv', Survival, [Next]_vars PROVE Survival'
    OBVIOUS
  <2>1. TypesOK /\ TypesOK' /\ ReplicasOK
    BY DEF IInv
  <2>2. CASE lapses' # {}
    BY <2>2 DEF Survival, Clean
  <2>3. CASE lapses' = {} /\ ~assertFailed'
    <3>1. lapses = {} /\ ~assertFailed
      BY <2>3, LapsesStay, AssertsFail DEF vars
    <3>2. ElectionOK /\ NamesOK /\ ContentOK /\ SurvivalOK
      BY <3>1 DEF IInv, Survival, Clean
    <3>3. SurvivalOK'
      BY <2>1, <2>3, <3>2, NextHeld
    <3>4. QED
      BY <2>3, <3>3 DEF Survival
  <2>4. CASE lapses' = {} /\ assertFailed'
    <3>1. lapses = {}
      BY <2>4, LapsesStay
    <3>2. CASE Next
      <4>1. ~assertFailed /\ \E n \in Nodes : Join(n) \/ MergeContinue(n)
        BY <2>4, <3>2, AssertsFail
      <4>2. AckedSurvive
        BY <2>1, <3>1, <4>1, SurvivalImplies DEF IInv, Survival, Clean
      <4>3. AckedSurvive'
        BY <2>1, <4>1, <4>2, FailingSurvives
      <4>4. QED
        BY <2>4, <4>3 DEF Survival, Clean
    <3>3. CASE UNCHANGED vars
      <4>1. UNCHANGED <<node, topics, errored, acked, lapses, assertFailed>>
        BY <3>3 DEF vars, replicaVars, history
      <4>2. AckedSurvive'
        BY <2>4, <4>1 DEF Survival, AckedSurvive, Master, SlavesOf
      <4>3. QED
        BY <2>4, <4>2 DEF Survival, Clean
    <3>4. QED
      BY <3>2, <3>3
  <2>5. QED
    BY <2>2, <2>3, <2>4
<1>3. QED
  BY <1>1, <1>2, Invariance, PTL DEF Spec

\* An update that a client was told of is served by every master that a majority follows,
\* if no subscriber of it has failed (NodeI::mergeContinue(), Observers::wait()), unless
\* something has lapsed.
THEOREM AckedUpdatesSurvive == Spec => []AckedSurviveUnless
<1>1. IInv /\ Survival => AckedSurviveUnless
  <2> SUFFICES ASSUME IInv, Survival, lapses = {}
               PROVE  AckedSurvive
    BY DEF AckedSurviveUnless
  <2>1. CASE assertFailed
    BY <2>1 DEF Survival
  <2>2. CASE ~assertFailed
    BY <2>2, SurvivalImplies DEF IInv, Survival, Clean
  <2>3. QED
    BY <2>1, <2>2
<1>2. QED
  BY <1>1, Invariance, SurvivalInvariance, PTL

=============================================================================
