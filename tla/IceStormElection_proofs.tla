---------------------- MODULE IceStormElection_proofs ----------------------
(***************************************************************************)
(* Proofs about IceStormElection, for every number of replicas and         *)
(* whatever may be lost, crash or be updated: the types; that a generation *)
(* is one group's; that the observers on duty are in step with the master; *)
(* that an LLU names what a group was given of a database.  All but the    *)
(* types are for the runs without a lapse, which the module names.         *)
(*                                                                         *)
(* The argument is about "shared", what has been transferred to a group or *)
(* committed in it: the databases of those stamped alike agree on that.    *)
(* What a node serves is a part of it, and what is in a database beyond it *)
(* was left there by initMaster(), thus by the node that stamped itself.   *)
(***************************************************************************)
EXTENDS IceStormElection, FiniteSetTheorems, WellFoundedInduction, TLAPS

-----------------------------------------------------------------------------
(***************************************************************************)
(* The inductive invariant                                                 *)
(***************************************************************************)

Clean == lapses = {} /\ ~assertFailed

\* The values of the variables.
NodeRecords ==
    [state : States, coord : Nodes, group : 0..MaxMerges, up : SUBSET Members, max : Nat,
     generation : Nat \cup {-1}, slave : BOOLEAN, mergeSet : SUBSET Nodes, timeout : BOOLEAN]
Infos == [id : Nodes, inc : Nat]
Versions == [id : 1..updates, llu : Stamps]
Invitations == [type : {"invitation"}, to : Nodes, from : Nodes, group : 1..groups]
Accepts == [type : {"accept"}, to : Nodes, group : 1..groups, max : Nat, info : Members]
Joinings == {None} \cup [step : {"joining"}, from : Nodes, group : 1..groups]
Syncs == [step : {"sync"}, group : 0..groups, members : SUBSET Members]
Inits == [step : {"init", "ready"}, group : 0..groups, members : SUBSET Members,
          todo : SUBSET Members, stamp : Stamps, content : SUBSET (1..MaxUpdates)]
Mergings == {None, [step |-> "pending"]} \cup Syncs \cup Inits
Sendings == {None} \cup [step : {"sending"}, id : 1..updates, llu : Stamps, todo : SUBSET Infos]

\* A set of members has each node once, and finitely many.
Distinct(members) ==
    /\ IsFiniteSet(members)
    /\ \A a, b \in members : a.id = b.id => a = b

CountsOK == groups \in 0..MaxMerges /\ updates \in 0..MaxUpdates
NodeOK(n) ==
    /\ node[n].group <= groups /\ Distinct(node[n].up)
    /\ node[n].mergeSet \subseteq Others(n)
NodesOK == node \in [Nodes -> NodeRecords] /\ \A n \in Nodes : NodeOK(n)
ReplicasOK ==
    /\ data \in [Nodes -> SUBSET (1..MaxUpdates)]
    /\ topics \in [Nodes -> SUBSET (1..MaxUpdates)]
    /\ call \in [Nodes -> {"none", "minority", "majority", "started"}]
DataOK ==
    /\ observers \in [Nodes -> SUBSET Infos] /\ reaped \in [Nodes -> SUBSET Nodes]
    /\ llu \in [Nodes -> Stamps] /\ shared \in [Nodes -> SUBSET (1..MaxUpdates)]
    /\ acked \subseteq Versions
CallsOK == joining \in [Nodes -> Joinings] /\ mail \subseteq Invitations \cup Accepts
\* A merge has members, more than half of the nodes with the coordinator, and members left
\* until the last has been initialised.
MergingOK(n) ==
    LET m == merging[n] IN
    /\ m.step # "none" => Others(n) # {}
    /\ m.step \in {"sync", "init", "ready"} =>
          Distinct(m.members) /\ Cardinality(m.members) >= Majority /\ m.members # {}
    /\ m.step \in {"init", "ready"} => m.todo \subseteq m.members
    /\ m.step = "init" => m.todo # {}
MergingsOK == merging \in [Nodes -> Mergings] /\ \A n \in Nodes : MergingOK(n)
VersionsOK == committed \in [Nodes -> SUBSET Versions] /\ sending \in [Nodes -> Sendings]
ProcessesOK ==
    suspect \in [Nodes -> BOOLEAN] /\ incarnation \in [Nodes -> Nat] /\ assertFailed \in BOOLEAN
StampedOK ==
    stamped \subseteq [id : Nodes, coord : Nodes, group : 0..groups, generation : Nat]

TypesOK ==
    /\ CountsOK /\ NodesOK /\ DataOK /\ CallsOK /\ MergingsOK /\ VersionsOK /\ ProcessesOK
    /\ StampedOK

\* The nodes that coordinator c has stamped with generation g of its group, and that they
\* are more than half.
Stamped(s, c, group, g) == [id |-> s, coord |-> c, group |-> group, generation |-> g] \in stamped
Won(c, group, g) == Cardinality({s \in Nodes : Stamped(s, c, group, g)}) > Majority

\* A node has a generation once, and a group stamps once.
StampsOK ==
    /\ \A x \in stamped : x.generation <= llu[x.id][1]
    /\ \A x, y \in stamped : x.id = y.id /\ x.generation = y.generation => x = y
    /\ \A x, y \in stamped : x.group = y.group => x.coord = y.coord /\ x.generation = y.generation

\* What a node is, and in which generation.
RoleOK(n) ==
    /\ node[n].mergeSet # {} => node[n].coord = n
    /\ node[n].state \in {"Inactive", "Down"} => node[n].generation = -1
    /\ node[n].state = "Normal" =>
          /\ node[n].slave <=> node[n].coord # n
          /\ node[n].generation = llu[n][1]
          /\ Stamped(n, node[n].coord, node[n].group, llu[n][1])
          /\ Won(node[n].coord, node[n].group, llu[n][1])

\* A coordinator under way: nothing else happens to its node.
Synced(n) == merging[n].step \in {"init", "ready"}
MergeOK(n) ==
    merging[n].step # "none" =>
        /\ node[n].coord = n /\ ~suspect[n]
        /\ node[n].state = IF merging[n].step = "pending" THEN "Election" ELSE "Reorganization"
        /\ merging[n].step # "pending" => merging[n].group = node[n].group
        /\ joining[n] # None => joining[n].group # node[n].group
        /\ node[n].generation = -1 \/ \E group \in 0..groups : Won(n, group, node[n].generation)
        /\ ~Synced(n) => \A x \in stamped : x.group # node[n].group
GroupsApart ==
    \A m, n \in Nodes :
        m # n /\ merging[m].step # "none" /\ merging[n].step # "none" =>
            node[m].group # node[n].group
InitOK(n) ==
    LET m == merging[n] IN
    Synced(n) =>
        /\ m.stamp = llu[n] /\ m.content = shared[n]
        /\ Stamped(n, n, m.group, llu[n][1])
        /\ \A a \in m.members : m.step = "ready" \/ a \notin m.todo =>
              a.id # n /\ Stamped(a.id, n, m.group, llu[n][1])
        /\ m.step = "init" => \A a \in m.todo : a.id # n =>
              llu[a.id] = a.llu /\ a.llu[1] < llu[n][1]
        /\ m.step = "ready" => Won(n, m.group, llu[n][1])

\* Updates under way belong to a master on duty.
UpdateOK(n) ==
    /\ ~Quiet(n) => Master(n)
    /\ \A u \in committed[n] : u.llu[1] = llu[n][1] /\ u.id \in shared[n]
    /\ sending[n] # None => sending[n].llu[1] = llu[n][1] /\ sending[n].id \in shared[n]
    /\ \A o \in observers[n] : o.id # n

ElectionOK ==
    /\ StampsOK /\ GroupsApart
    /\ \A n \in Nodes : RoleOK(n) /\ MergeOK(n) /\ InitOK(n) /\ UpdateOK(n)

\* While a group is formed, a member with the coordinator's LLU has its database.
FormingOK(n) ==
    Synced(n) =>
        /\ \A o \in observers[n] :
              /\ Stamped(o.id, n, merging[n].group, llu[n][1])
              /\ llu[o.id] = llu[n] => shared[o.id] = shared[n]
        /\ \A s \in Nodes : node[s].state = "Normal" /\ node[s].group = merging[n].group =>
              merging[n].step = "ready" /\ llu[s] = llu[n]

Unsent(n, o) == Ids(committed[n]) \cup
    IF sending[n] # None /\ o \in sending[n].todo THEN {sending[n].id} ELSE {}
DutyOK(n) ==
    Master(n) => \A o \in observers[n] : o.id \in SlavesOf(n) =>
        shared[o.id] \subseteq shared[n] /\ shared[n] \ shared[o.id] \subseteq Unsent(n, o)

SyncOK == \A n \in Nodes : FormingOK(n) /\ DutyOK(n)

-----------------------------------------------------------------------------
(***************************************************************************)
(* The databases of the nodes on duty: what an LLU stands for              *)
(***************************************************************************)

OnDuty(n) == node[n].state = "Normal"

\* The updates in the databases have been made.
KnownOK == \A n \in Nodes : shared[n] \subseteq 1..updates

\* The updates of a master are apart, and older than its LLU or the same; the one that is
\* being sent is the oldest.
VersionsInOrder(n) ==
    /\ \A v \in committed[n] : ~Newer(v.llu, llu[n])
    /\ \A v, w \in committed[n] : v.id = w.id \/ v.llu = w.llu => v = w
    /\ sending[n] # None =>
          /\ ~Newer(sending[n].llu, llu[n])
          /\ \A v \in committed[n] : v.id # sending[n].id /\ Newer(v.llu, sending[n].llu)

\* What a slave s of master n, an observer still or not, has of the updates under way.
SlaveOK(n, s) ==
    /\ ~Newer(llu[s], llu[n])
    /\ \A v \in committed[n] : Newer(v.llu, llu[s])
    /\ sending[n] # None =>
          /\ ~Newer(llu[s], sending[n].llu)
          /\ llu[s] = sending[n].llu => shared[s] = shared[n] \ Ids(committed[n])

\* An observer has all the others, and the one being sent unless its turn is to come.
ObserverOK(n, o) ==
    /\ sending[n] = None => shared[o.id] = shared[n] \ Ids(committed[n])
    /\ sending[n] # None /\ llu[o.id] # sending[n].llu =>
          /\ o \in sending[n].todo
          /\ shared[o.id] = shared[n] \ (Ids(committed[n]) \cup {sending[n].id})

MasterOK(n) ==
    Master(n) =>
        /\ VersionsInOrder(n)
        /\ \A s \in SlavesOf(n) : SlaveOK(n, s)
        /\ \A o \in observers[n] : o.id \in SlavesOf(n) => ObserverOK(n, o)

\* Who has been stamped by a coordinator under way and has its LLU has its database.
CopiesOK(n) ==
    Synced(n) => \A s \in Nodes :
        Stamped(s, n, merging[n].group, llu[n][1]) /\ llu[s] = llu[n] => shared[s] = shared[n]

NamedOK == \A m, n \in Nodes : OnDuty(m) /\ OnDuty(n) /\ llu[m] = llu[n] => shared[m] = shared[n]

NamesOK == KnownOK /\ (\A n \in Nodes : MasterOK(n) /\ CopiesOK(n)) /\ NamedOK

-----------------------------------------------------------------------------
(***************************************************************************)
(* The database and what of it is shared with the group                    *)
(***************************************************************************)

\* What a node serves has been shared with its group, and what has been shared is in the
\* database.  The database has more only where initMaster() has left it there.
ContentOK ==
    /\ \A x \in stamped : x.generation >= 1
    /\ \A n \in Nodes : topics[n] \subseteq shared[n] /\ shared[n] \subseteq data[n]
    /\ \A n \in Nodes : data[n] # shared[n] =>
          \E x \in stamped : x.id = n /\ x.coord = n /\ x.generation = llu[n][1]

-----------------------------------------------------------------------------
IInv ==
    /\ TypesOK /\ ReplicasOK /\ GenerationUnique /\ InSync /\ StampNamesData
    /\ Clean => ElectionOK /\ SyncOK /\ NamesOK /\ ContentOK

-----------------------------------------------------------------------------
(***************************************************************************)
(* Lemmas about finite sets, members and majorities                        *)
(***************************************************************************)

\* A strict order on a finite set has a minimal element.
LEMMA MinimalElement ==
    ASSUME NEW S, IsFiniteSet(S), S # {}, NEW R,
           \A x \in S : <<x, x>> \notin R,
           \A x, y, z \in S : <<x, y>> \in R /\ <<y, z>> \in R => <<x, z>> \in R
    PROVE  \E x \in S : \A y \in S : <<y, x>> \notin R
<1> DEFINE Below(x) == {y \in S : <<y, x>> \in R}
           T == {Below(x) : x \in S}
           O == StrictSubsetOrdering(S)
           F == FiniteSubsetsOf(S)
<1>1. T \subseteq F
  <2>1. F = SUBSET S
    BY FS_FiniteSubsetsOfFinite
  <2>2. \A t \in T : t \in SUBSET S
    OBVIOUS
  <2> HIDE DEF T, F
  <2>3. QED
    BY <2>1, <2>2
<1>2. IsWellFoundedOn(O, F)
  BY FS_StrictSubsetOrderingWellFounded
<1>3. T # {}
  <2>1. PICK x \in S : TRUE
    OBVIOUS
  <2>2. Below(x) \in T
    OBVIOUS
  <2>3. QED
    BY <2>2
<1>4. \E b \in T : \A c \in T : <<c, b>> \notin O
  <2> HIDE DEF T, O, F
  <2> QED
    BY <1>1, <1>2, <1>3, WFMin
<1>5. PICK x \in S : \A c \in T : <<c, Below(x)>> \notin O
  BY <1>4
<1>6. ASSUME NEW y \in S, <<y, x>> \in R
      PROVE  FALSE
  <2>1. Below(y) \subseteq Below(x)
    BY <1>6
  <2>2. y \in Below(x) /\ y \notin Below(y)
    BY <1>6
  <2>3. Below(y) \in SUBSET S /\ Below(x) \in SUBSET S
    OBVIOUS
  <2>4. <<Below(y), Below(x)>> \in O
    <3> HIDE DEF Below
    <3> QED
      BY <2>1, <2>2, <2>3 DEF StrictSubsetOrdering
  <2>5. Below(y) \in T
    OBVIOUS
  <2>6. QED
    BY <1>5, <2>4, <2>5
<1>7. QED
  BY <1>6

\* What mergeContinue() finds: a member than which none has a newer LLU.
LEMMA BestIsNewest ==
    ASSUME NEW S \in SUBSET Members, IsFiniteSet(S), S # {}
    PROVE  Best(S) \in S /\ \A o \in S : ~Newer(o.llu, Best(S).llu)
<1> DEFINE Better(a, b) == Newer(a.llu, b.llu) \/ (a.llu = b.llu /\ a.id < b.id)
           R == {p \in S \X S : Better(p[1], p[2])}
<1>1. \A a \in S : a.id \in Nat /\ a.llu \in Nat \X Nat /\ a.llu[1] \in Nat /\ a.llu[2] \in Nat
  BY NodesAssumption DEF Members, Stamps
<1>2. \A a, b \in S : <<a, b>> \in R <=> Better(a, b)
  OBVIOUS
<1>3. \A a \in S : ~Better(a, a)
  BY <1>1 DEF Newer
<1>4. \A a, b, c \in S : Better(a, b) /\ Better(b, c) => Better(a, c)
  BY <1>1 DEF Newer
<1>5. \E x \in S : \A y \in S : <<y, x>> \notin R
  <2> HIDE DEF R, Better
  <2>1. /\ \A x \in S : <<x, x>> \notin R
        /\ \A x, y, z \in S : <<x, y>> \in R /\ <<y, z>> \in R => <<x, z>> \in R
    BY <1>2, <1>3, <1>4
  <2>2. QED
    BY <2>1, MinimalElement
<1>6. PICK x \in S : \A y \in S : ~Better(y, x)
  BY <1>2, <1>5
<1>7. \A o \in S : ~Newer(o.llu, x.llu) /\ (o.llu = x.llu => x.id <= o.id)
  BY <1>1, <1>6
<1>8. QED
  BY <1>7 DEF Best

\* The members are called in the order of their ids.
LEMMA NextIsMember ==
    ASSUME NEW S \in SUBSET Members, IsFiniteSet(S), S # {}
    PROVE  NextOf(S) \in S
<1> DEFINE R == {p \in S \X S : p[1].id < p[2].id}
<1>1. \A a \in S : a.id \in Nat
  BY NodesAssumption DEF Members
<1>2. \A a, b \in S : <<a, b>> \in R <=> a.id < b.id
  OBVIOUS
<1>3. \E x \in S : \A y \in S : <<y, x>> \notin R
  <2> HIDE DEF R
  <2>1. /\ \A x \in S : <<x, x>> \notin R
        /\ \A x, y, z \in S : <<x, y>> \in R /\ <<y, z>> \in R => <<x, z>> \in R
    BY <1>1, <1>2
  <2>2. QED
    BY <2>1, MinimalElement
<1>4. PICK x \in S : \A y \in S : <<y, x>> \notin R
  BY <1>3
<1>5. \A y \in S : x.id <= y.id
  <2> HIDE DEF R
  <2>1. \A y \in S : ~(y.id < x.id)
    BY <1>2, <1>4
  <2>2. QED
    BY <1>1, <2>1
<1>6. QED
  BY <1>5 DEF NextOf

\* The larger of two numbers.
LEMMA MaxOfTwo == \A a, b \in Nat : Max({a, b}) \in Nat
<1> SUFFICES ASSUME NEW a \in Nat, NEW b \in Nat PROVE Max({a, b}) \in Nat
  OBVIOUS
<1>1. \E x \in {a, b} : \A y \in {a, b} : x >= y
  OBVIOUS
<1>2. QED
  BY <1>1 DEF Max

\* Two sets with more than Majority nodes have a node in common.
LEMMA MajorityType ==
    /\ Majority \in Nat /\ Cardinality(Nodes) \in Nat
    /\ Cardinality(Nodes) < 2 * (Majority + 1)
    /\ \A n \in Nodes : Others(n) # {} => Majority >= 1
<1>1. IsFiniteSet(Nodes) /\ Cardinality(Nodes) \in Nat
  BY NodesAssumption, FS_CardinalityType
<1>2. Majority \in Nat /\ Cardinality(Nodes) < 2 * (Majority + 1)
  BY <1>1 DEF Majority
<1>3. ASSUME NEW n \in Nodes, Others(n) # {}
      PROVE  Majority >= 1
  <2>1. IsFiniteSet(Others(n)) /\ Cardinality(Others(n)) = Cardinality(Nodes) - 1
    BY <1>1, FS_RemoveElement DEF Others
  <2>2. Cardinality(Others(n)) \in Nat /\ Cardinality(Others(n)) # 0
    BY <1>3, <2>1, FS_CardinalityType, FS_EmptySet
  <2>3. QED
    BY <1>1, <2>1, <2>2 DEF Majority
<1>4. QED
  BY <1>1, <1>2, <1>3

\* Two generations that are won have been stamped on a common node.
LEMMA WonMeet ==
    ASSUME NEW c, NEW group, NEW g, NEW d, NEW other, NEW h,
           Won(c, group, g), Won(d, other, h)
    PROVE  \E s \in Nodes : Stamped(s, c, group, g) /\ Stamped(s, d, other, h)
<1> DEFINE A == {s \in Nodes : Stamped(s, c, group, g)}
           B == {s \in Nodes : Stamped(s, d, other, h)}
<1>1. A \subseteq Nodes /\ B \subseteq Nodes /\ IsFiniteSet(Nodes)
  BY NodesAssumption
<1>2. Cardinality(A) > Majority /\ Cardinality(B) > Majority
  BY DEF Won
<1> HIDE DEF A, B
<1>3. Cardinality(A) \in Nat /\ Cardinality(B) \in Nat
  BY <1>1, FS_Subset, FS_CardinalityType
<1>4. Cardinality(A) + Cardinality(B) > Cardinality(Nodes)
  BY <1>2, <1>3, MajorityType
<1>5. A \cap B # {}
  BY <1>1, <1>4, FS_MajoritiesIntersect
<1>6. QED
  BY <1>5 DEF A, B

\* Stamps are not lost, and nor is what they have won.
LEMMA WonStays ==
    ASSUME stamped \subseteq stamped'
    PROVE  /\ \A s, c, group, g : Stamped(s, c, group, g) => Stamped(s, c, group, g)'
           /\ \A c, group, g : Won(c, group, g) => Won(c, group, g)'
<1>1. \A s, c, group, g : Stamped(s, c, group, g) => Stamped(s, c, group, g)'
  BY DEF Stamped
<1>2. ASSUME NEW c, NEW group, NEW g, Won(c, group, g)
      PROVE  Won(c, group, g)'
  <2> DEFINE A == {s \in Nodes : Stamped(s, c, group, g)}
             B == {s \in Nodes : Stamped(s, c, group, g)'}
  <2>1. A \subseteq B /\ B \subseteq Nodes /\ IsFiniteSet(Nodes)
    BY <1>1, NodesAssumption
  <2>2. Cardinality(A) > Majority
    BY <1>2 DEF Won
  <2> HIDE DEF A, B
  <2>3. IsFiniteSet(B) /\ IsFiniteSet(A) /\ Cardinality(A) <= Cardinality(B)
    BY <2>1, FS_Subset
  <2>4. Cardinality(B) > Majority
    BY <2>2, <2>3, FS_CardinalityType, MajorityType
  <2>5. QED
    BY <2>4 DEF Won, B
<1>3. QED
  BY <1>1, <1>2

\* A coordinator and enough other members are more than half of the nodes.
LEMMA QuorumCounts ==
    ASSUME NEW n \in Nodes, NEW S, Distinct(S), Cardinality(S) >= Majority,
           n \notin Ids(S), NEW A \in SUBSET Nodes, n \in A, Ids(S) \subseteq A
    PROVE  Cardinality(A) > Majority
<1> DEFINE f == [a \in S |-> a.id]
<1>1. IsFiniteSet(S) /\ \A a, b \in S : a.id = b.id => a = b
  BY DEF Distinct
<1>2. f \in Bijection(S, Ids(S))
  <2>1. f \in [S -> Ids(S)]
    BY DEF Ids
  <2>2. \A t \in Ids(S) : \E a \in S : f[a] = t
    BY DEF Ids
  <2>3. DOMAIN f = S /\ \A a, b \in S : f[a] = f[b] => a = b
    BY <1>1
  <2> HIDE DEF f
  <2>4. QED
    BY <2>1, <2>2, <2>3 DEF Bijection, Injection, IsInjective, Surjection
<1>3. IsFiniteSet(Ids(S)) /\ Cardinality(Ids(S)) = Cardinality(S)
  BY <1>1, <1>2, FS_Bijection DEF ExistsBijection
<1>4. IsFiniteSet(Ids(S) \cup {n}) /\ Cardinality(Ids(S) \cup {n}) = Cardinality(S) + 1
  BY <1>3, FS_AddElement
<1>5. IsFiniteSet(A) /\ Ids(S) \cup {n} \subseteq A
  BY NodesAssumption, FS_Subset
<1>6. Cardinality(Ids(S) \cup {n}) <= Cardinality(A)
  BY <1>5, FS_Subset
<1>7. Cardinality(A) \in Nat /\ Cardinality(S) \in Nat
  BY <1>1, <1>5, FS_CardinalityType
<1>8. QED
  BY <1>4, <1>6, <1>7, MajorityType

(***************************************************************************)
(* Types                                                                   *)
(***************************************************************************)

\* The type invariant says less.
LEMMA TypesImplyTypeOK == TypesOK /\ ReplicasOK => TypeOK
BY DEF TypesOK, ReplicasOK, NodesOK, NodeRecords, DataOK, Versions, Infos, TypeOK

\* What is known of a merge at each step.
LEMMA MergingKinds ==
    ASSUME MergingsOK, NEW n \in Nodes
    PROVE  LET m == merging[n] IN
           /\ m.step \in {"none", "pending", "sync", "init", "ready"}
           /\ m.step = "none" => m = None
           /\ m.step = "pending" => m = [step |-> "pending"]
           /\ m.step = "sync" => m \in Syncs
           /\ m.step \in {"init", "ready"} => m \in Inits
<1>1. merging[n] \in Mergings
  BY DEF MergingsOK
<1>2. QED
  BY <1>1 DEF Mergings, Syncs, Inits, None

\* What is known of an invitation() under way.
LEMMA JoiningKinds ==
    ASSUME CallsOK, NEW n \in Nodes, joining[n] # None
    PROVE  joining[n].from \in Nodes /\ joining[n].group \in 1..groups
           /\ joining[n].step = "joining"
<1>1. joining[n] \in Joinings
  BY DEF CallsOK
<1>2. QED
  BY <1>1 DEF Joinings

\* What is known of an update that is being sent.
LEMMA SendingKinds ==
    ASSUME VersionsOK, NEW n \in Nodes, sending[n] # None
    PROVE  /\ sending[n].id \in 1..updates /\ sending[n].llu \in Stamps
           /\ sending[n].todo \subseteq Infos
           /\ sending[n] \in [step : {"sending"}, id : 1..updates, llu : Stamps,
                              todo : SUBSET Infos]
<1>1. sending[n] \in Sendings
  BY DEF VersionsOK
<1>2. QED
  BY <1>1 DEF Sendings

\* recovery() and the start of a process.
LEMMA RecoveredType ==
    ASSUME NEW n \in Nodes, NEW r \in NodeRecords
    PROVE  /\ Recovered(r, n) \in NodeRecords
           /\ Recovered(r, n).state = "Inactive" /\ Recovered(r, n).coord = n
           /\ Recovered(r, n).group = 0 /\ Recovered(r, n).up = {}
           /\ Recovered(r, n).generation = -1 /\ Recovered(r, n).mergeSet = {}
<1> DEFINE q == [r EXCEPT !.state = "Inactive", !.coord = n, !.group = 0, !.up = {},
                          !.generation = -1, !.mergeSet = {}, !.timeout = FALSE]
<1>1. Recovered(r, n) = q
  BY DEF Recovered
<1>2. 0 \in 0..MaxMerges /\ -1 \in Nat \cup {-1} /\ "Inactive" \in States
  BY BoundsAssumption DEF States
<1>3. /\ q.state = "Inactive" /\ q.coord = n /\ q.group = 0 /\ q.up = {}
      /\ q.generation = -1 /\ q.mergeSet = {}
  BY DEF NodeRecords
<1>4. q \in NodeRecords
  BY <1>2 DEF NodeRecords
<1>5. QED
  BY <1>1, <1>3, <1>4

\* recovery() and a start leave a blank node, which has no members.
LEMMA BlankType ==
    ASSUME NEW n \in Nodes, NEW s \in States
    PROVE  /\ Blank(n, s) \in NodeRecords
           /\ Blank(n, s).state = s /\ Blank(n, s).coord = n
           /\ Blank(n, s).group = 0 /\ Blank(n, s).up = {}
           /\ Blank(n, s).generation = -1 /\ Blank(n, s).mergeSet = {}
BY BoundsAssumption DEF Blank, NodeRecords

\* No members.
LEMMA NoneDistinct == Distinct({})
BY FS_EmptySet DEF Distinct

\* One node's record changes.
LEMMA NodesChange ==
    ASSUME NodesOK, CountsOK, NEW n \in Nodes, NEW r \in NodeRecords, UNCHANGED groups,
           node' = [node EXCEPT ![n] = r],
           r.group <= groups, Distinct(r.up), r.mergeSet \subseteq Others(n)
    PROVE  NodesOK'
<1>1. node' \in [Nodes -> NodeRecords]
  BY DEF NodesOK
<1>2. ASSUME NEW x \in Nodes
      PROVE  NodeOK(x)'
  <2>1. node'[x] = IF x = n THEN r ELSE node[x]
    BY DEF NodesOK
  <2>2. QED
    BY <2>1 DEF NodesOK, NodeOK
<1>3. QED
  BY <1>1, <1>2 DEF NodesOK

\* One node recovers.
LEMMA NodesRecover ==
    ASSUME NodesOK, CountsOK, NEW n \in Nodes, UNCHANGED groups,
           node' = [node EXCEPT ![n] = Recovered(node[n], n)]
    PROVE  NodesOK'
<1>1. node[n] \in NodeRecords
  BY DEF NodesOK
<1>2. 0 <= groups
  BY DEF CountsOK
<1> DEFINE r == Recovered(node[n], n)
<1>3. r \in NodeRecords /\ r.group = 0 /\ r.up = {} /\ r.mergeSet = {}
  BY <1>1, RecoveredType
<1> HIDE DEF r
<1>4. r.group <= groups /\ Distinct(r.up) /\ r.mergeSet \subseteq Others(n)
  BY <1>2, <1>3, NoneDistinct
<1>5. node' = [node EXCEPT ![n] = r]
  BY DEF r
<1>6. QED
  BY <1>3, <1>4, <1>5, NodesChange

\* What is unchanged keeps its type.
LEMMA TypesSame ==
    ASSUME TypesOK
    PROVE  /\ UNCHANGED <<groups, updates>> => CountsOK'
           /\ UNCHANGED <<node, groups>> => NodesOK'
           /\ UNCHANGED <<observers, reaped, llu, shared, acked, updates>> => DataOK'
           /\ UNCHANGED <<joining, mail, groups>> => CallsOK'
           /\ UNCHANGED <<merging, groups>> => MergingsOK'
           /\ UNCHANGED <<committed, sending, updates>> => VersionsOK'
           /\ UNCHANGED <<suspect, incarnation, assertFailed>> => ProcessesOK'
           /\ UNCHANGED <<stamped, groups>> => StampedOK'
<1> USE DEF TypesOK
<1>1. UNCHANGED <<groups, updates>> => CountsOK'
  BY DEF CountsOK
<1>2. UNCHANGED <<node, groups>> => NodesOK'
  BY DEF NodesOK, NodeOK
<1>3. UNCHANGED <<observers, reaped, llu, shared, acked, updates>> => DataOK'
  BY DEF DataOK, Versions
<1>4. UNCHANGED <<joining, mail, groups>> => CallsOK'
  BY DEF CallsOK, Joinings, Invitations, Accepts
<1>5. UNCHANGED <<merging, groups>> => MergingsOK'
  BY DEF MergingsOK, MergingOK, Mergings, Syncs, Inits
<1>6. UNCHANGED <<committed, sending, updates>> => VersionsOK'
  BY DEF VersionsOK, Versions, Sendings
<1>7. UNCHANGED <<suspect, incarnation, assertFailed>> => ProcessesOK'
  BY DEF ProcessesOK
<1>8. UNCHANGED <<stamped, groups>> => StampedOK'
  BY DEF StampedOK
<1>9. QED
  BY <1>1, <1>2, <1>3, <1>4, <1>5, <1>6, <1>7, <1>8

\* The nodes start with the types.
LEMMA InitTypes == Init => TypesOK
<1> SUFFICES ASSUME Init PROVE TypesOK
  OBVIOUS
<1> USE BoundsAssumption DEF Init
<1>1. CountsOK
  BY DEF CountsOK
<1>2. \A n \in Nodes : node[n] = Blank(n, "Inactive") /\ "Inactive" \in States
  BY DEF States
<1>3. NodesOK
  <2>1. node \in [Nodes -> NodeRecords]
    BY <1>2, BlankType
  <2>2. \A n \in Nodes : node[n].group = 0 /\ node[n].up = {} /\ node[n].mergeSet = {}
    BY <1>2, BlankType
  <2>3. ASSUME NEW n \in Nodes PROVE NodeOK(n)
    <3>1. groups = 0 /\ {} \subseteq Others(n)
      OBVIOUS
    <3> HIDE DEF Init
    <3>2. node[n].group = 0 /\ node[n].up = {} /\ node[n].mergeSet = {}
      BY <2>2
    <3>3. Distinct(node[n].up)
      BY <3>2, NoneDistinct
    <3>4. QED
      BY <3>1, <3>2, <3>3 DEF NodeOK
  <2>4. QED
    BY <2>1, <2>3 DEF NodesOK
<1>4. DataOK
  BY DEF DataOK, Stamps
<1>5. CallsOK
  BY DEF CallsOK, Joinings
<1>6. MergingsOK
  BY DEF MergingsOK, MergingOK, Mergings, None
<1>7. VersionsOK
  BY DEF VersionsOK, Sendings
<1>8. ProcessesOK /\ StampedOK
  BY DEF ProcessesOK, StampedOK
<1>9. QED
  BY <1>1, <1>3, <1>4, <1>5, <1>6, <1>7, <1>8 DEF TypesOK

\* check() keeps the types.
LEMMA CheckTypes ==
    ASSUME TypesOK, NEW n \in Nodes, Check(n)
    PROVE  TypesOK'
<1> DEFINE r    == node[n]
           left == {m \in r.up : m.id \notin reaped[n]}
<1>1. UNCHANGED <<groups, updates, joining, mail, merging, observers, llu, shared, acked,
                  committed, sending, suspect, incarnation, assertFailed, stamped>>
  BY DEF Check, processVars, counts, history, NoAssertFails
<1>2. DataOK'
  <2>1. reaped' = [reaped EXCEPT ![n] = {}]
    BY DEF Check
  <2>2. QED
    BY <1>1, <2>1 DEF TypesOK, DataOK, Versions
<1>3. NodesOK'
  <2>1. CASE node' = [node EXCEPT ![n] = Recovered(r, n)]
    BY <1>1, <2>1, NodesRecover DEF TypesOK
  <2>2. ASSUME NEW s \in SUBSET Others(n), node' = [node EXCEPT ![n].up = left, ![n].mergeSet = s]
        PROVE  NodesOK'
    <3> DEFINE q == [r EXCEPT !.up = left, !.mergeSet = s]
    <3>1. r \in NodeRecords /\ NodeOK(n)
      BY DEF TypesOK, NodesOK
    <3>2. node' = [node EXCEPT ![n] = q]
      BY <2>2, <3>1 DEF TypesOK, NodesOK, NodeRecords
    <3>3. left \subseteq r.up /\ Others(n) \subseteq Nodes
      BY DEF Others
    <3>4. IsFiniteSet(left) /\ Distinct(left)
      BY <3>1, <3>3, FS_Subset DEF NodeOK, Distinct
    <3>5. q \in NodeRecords /\ q.group = r.group /\ q.up = left /\ q.mergeSet = s
      <4> HIDE DEF left
      <4> QED
        BY <3>1, <3>3 DEF NodeRecords
    <3> HIDE DEF q
    <3>6. QED
      BY <1>1, <3>1, <3>2, <3>4, <3>5, NodesChange DEF TypesOK, NodeOK
  <2>3. QED
    BY <2>1, <2>2 DEF Check
<1>4. QED
  BY <1>1, <1>2, <1>3, TypesSame DEF TypesOK

\* merge(), with the invitations that it sends, keeps the types.
LEMMA MergeTypes ==
    ASSUME TypesOK, NEW n \in Nodes, Merge(n)
    PROVE  TypesOK'
<1> DEFINE r == [node[n] EXCEPT !.state = "Election", !.coord = n, !.group = groups + 1,
                                !.up = {}, !.mergeSet = {}]
<1>1. UNCHANGED <<updates, joining, observers, reaped, llu, shared, acked, committed, sending,
                  suspect, incarnation, assertFailed, stamped>>
  BY DEF Merge, replicaVars, history, NoAssertFails
<1>2. groups \in Nat /\ groups' = groups + 1 /\ groups' \in 0..MaxMerges
  BY BoundsAssumption DEF Merge, TypesOK, CountsOK
<1>3. CountsOK'
  BY <1>1, <1>2 DEF TypesOK, CountsOK
<1>4. NodesOK'
  <2>1. node[n] \in NodeRecords /\ \A x \in Nodes : NodeOK(x)
    BY DEF TypesOK, NodesOK
  <2>2. r \in NodeRecords /\ r.group = groups' /\ r.up = {} /\ r.mergeSet = {}
    BY <1>2, <2>1 DEF NodeRecords, States
  <2>3. node' = [node EXCEPT ![n] = r]
    BY <2>1 DEF Merge, TypesOK, NodesOK
  <2> HIDE DEF r
  <2>4. node' \in [Nodes -> NodeRecords]
    BY <2>2, <2>3 DEF TypesOK, NodesOK
  <2>5. ASSUME NEW x \in Nodes
        PROVE  NodeOK(x)'
    <3>1. node'[x] = IF x = n THEN r ELSE node[x]
      BY <2>3 DEF TypesOK, NodesOK
    <3>2. node[x].group <= groups /\ node[x].group \in Nat
      BY BoundsAssumption DEF TypesOK, NodesOK, NodeOK, NodeRecords
    <3>3. QED
      BY <1>2, <2>1, <2>2, <3>1, <3>2, NoneDistinct DEF NodeOK
  <2>6. QED
    BY <2>4, <2>5 DEF NodesOK
<1>5. CallsOK'
  <2>1. /\ Joinings \subseteq Joinings' /\ Invitations \subseteq Invitations'
        /\ Accepts \subseteq Accepts'
    BY <1>2 DEF Joinings, Invitations, Accepts
  <2>2. node[n].mergeSet \cup Ids(node[n].up) \subseteq Nodes
    BY DEF TypesOK, NodesOK, NodeRecords, Ids, Members
  <2>3. \A m \in Nodes : [type |-> "invitation", to |-> m, from |-> n, group |-> groups + 1]
                         \in Invitations'
    BY <1>2 DEF Invitations
  <2>4. \A msg \in mail' : msg \in mail \/ msg \in Invitations'
    BY <2>2, <2>3 DEF Merge
  <2>5. QED
    BY <1>1, <2>1, <2>4 DEF TypesOK, CallsOK
<1>6. MergingsOK'
  <2>1. merging' = [merging EXCEPT ![n] = [step |-> "pending"]]
    BY DEF Merge
  <2>2. Others(n) # {}
    BY DEF Merge, TypesOK, NodesOK, NodeOK
  <2>3. Mergings \subseteq Mergings'
    BY <1>2 DEF Mergings, Syncs, Inits
  <2>4. merging' \in [Nodes -> Mergings']
    BY <2>1, <2>3 DEF TypesOK, MergingsOK, Mergings
  <2>5. \A x \in Nodes : MergingOK(x)'
    BY <2>1, <2>2 DEF TypesOK, MergingsOK, MergingOK
  <2>6. QED
    BY <2>4, <2>5 DEF MergingsOK
<1>7. StampedOK'
  BY <1>1, <1>2 DEF TypesOK, StampedOK
<1>8. QED
  BY <1>1, <1>3, <1>4, <1>5, <1>6, <1>7, TypesSame DEF TypesOK

\* timeout() keeps the types.
LEMMA TimeoutTypes ==
    ASSUME TypesOK, NEW n \in Nodes, TimeoutAsk(n) \/ TimeoutRecover(n)
    PROVE  TypesOK'
<1>1. UNCHANGED <<groups, updates, joining, mail, merging, observers, reaped, llu, shared, acked,
                  committed, sending, incarnation, assertFailed, stamped>>
  BY DEF TimeoutAsk, TimeoutRecover, replicaVars, counts, history, NoAssertFails
<1>2. ProcessesOK'
  <2>1. suspect' = [suspect EXCEPT ![n] = TRUE] \/ suspect' = [suspect EXCEPT ![n] = FALSE]
    BY DEF TimeoutAsk, TimeoutRecover
  <2>2. QED
    BY <1>1, <2>1 DEF TypesOK, ProcessesOK
<1>3. NodesOK'
  <2>1. CASE UNCHANGED node
    BY <1>1, <2>1, TypesSame
  <2>2. CASE node' = [node EXCEPT ![n] = Recovered(node[n], n)]
    BY <1>1, <2>2, NodesRecover DEF TypesOK
  <2>3. QED
    BY <2>1, <2>2 DEF TimeoutAsk, TimeoutRecover
<1>4. QED
  BY <1>1, <1>2, <1>3, TypesSame DEF TypesOK

\* An oneway call is an invitation or an acceptance.
LEMMA MailKinds ==
    ASSUME TypesOK, NEW msg \in mail
    PROVE  /\ msg.type = "invitation" => msg \in Invitations
           /\ msg.type = "accept" => msg \in Accepts
           /\ msg.to \in Nodes
BY DEF TypesOK, CallsOK, Invitations, Accepts

\* invitation() keeps the types.
LEMMA InvitationTypes ==
    ASSUME TypesOK, NEW msg \in mail, Invitation(msg)
    PROVE  TypesOK'
<1> DEFINE n == msg.to
           r == [node[n] EXCEPT !.state = "Election", !.coord = msg.from, !.group = msg.group,
                                !.mergeSet = {}]
           j == [step |-> "joining", from |-> msg.from, group |-> msg.group]
<1>1. UNCHANGED <<groups, updates, merging, observers, reaped, llu, shared, acked, committed,
                  sending, suspect, incarnation, assertFailed, stamped>>
  BY DEF Invitation, replicaVars, counts, history, NoAssertFails
<1>2. n \in Nodes /\ msg.from \in Nodes /\ msg.group \in 1..groups /\ msg \in Invitations
  BY MailKinds DEF Invitation, Invitations
<1>3. groups \in 0..MaxMerges /\ node[n] \in NodeRecords /\ NodeOK(n)
  BY <1>2 DEF TypesOK, CountsOK, NodesOK
<1>4. CASE node[n].state \in Electing
  <2>1. UNCHANGED <<node, joining>> /\ mail' \subseteq mail
    BY <1>4 DEF Invitation
  <2>2. CallsOK'
    BY <1>1, <2>1 DEF TypesOK, CallsOK, Joinings, Invitations, Accepts
  <2>3. QED
    BY <1>1, <2>1, <2>2, TypesSame DEF TypesOK
<1>5. CASE node[n].state \notin Electing
  <2>1. NodesOK'
    <3>0. msg.group \in 0..MaxMerges /\ msg.group <= groups
      BY <1>2, <1>3, BoundsAssumption
    <3>1. r \in NodeRecords /\ r.group = msg.group /\ r.up = node[n].up /\ r.mergeSet = {}
      BY <1>2, <1>3, <3>0 DEF NodeRecords, States
    <3>2. node' = [node EXCEPT ![n] = r]
      BY <1>2, <1>3, <1>5 DEF Invitation, TypesOK, NodesOK, NodeRecords
    <3> HIDE DEF r
    <3>3. r.group <= groups /\ Distinct(r.up) /\ r.mergeSet \subseteq Others(n)
      BY <1>3, <3>0, <3>1 DEF NodeOK
    <3>4. QED
      BY <1>1, <1>2, <3>1, <3>2, <3>3, NodesChange DEF TypesOK
  <2>2. CallsOK'
    <3>1. joining' = [joining EXCEPT ![n] = j]
      BY <1>5 DEF Invitation
    <3>2. j \in Joinings
      BY <1>2 DEF Joinings
    <3>3. joining' \in [Nodes -> Joinings]
      BY <3>1, <3>2 DEF TypesOK, CallsOK
    <3>4. \A m \in Ids(node[n].up) : m \in Nodes /\ [msg EXCEPT !.to = m] \in Invitations
      BY <1>2, <1>3 DEF Ids, NodeRecords, Members, Invitations
    <3>5. \A x \in mail' : x \in mail \/ x \in Invitations
      BY <1>5, <3>4 DEF Invitation
    <3>6. QED
      BY <1>1, <3>3, <3>5 DEF TypesOK, CallsOK, Joinings, Invitations, Accepts
  <2>3. QED
    BY <1>1, <2>1, <2>2, TypesSame DEF TypesOK
<1>6. QED
  BY <1>4, <1>5

\* The rest of invitation(), with the acceptance, keeps the types.
LEMMA JoinTypes ==
    ASSUME TypesOK, NEW n \in Nodes, Join(n)
    PROVE  TypesOK'
<1> DEFINE r == [node[n] EXCEPT !.state = "Reorganization", !.timeout = TRUE]
           j == joining[n]
           a == [type |-> "accept", to |-> j.from, group |-> j.group,
                 max |-> node[n].max, info |-> Member(n, llu[n], incarnation[n])]
<1>1. UNCHANGED <<groups, updates, merging, observers, reaped, llu, shared, acked, committed,
                  sending, suspect, incarnation, stamped>>
  BY DEF Join, replicaVars, Fault
<1>2. j.from \in Nodes /\ j.group \in 1..groups
  BY JoiningKinds DEF Join, TypesOK
<1>3. node[n] \in NodeRecords /\ NodeOK(n)
  BY DEF TypesOK, NodesOK
<1>4. NodesOK'
  <2>1. CASE node' = [node EXCEPT ![n].state = "Reorganization", ![n].timeout = TRUE]
    <3>1. node' = [node EXCEPT ![n] = r]
      BY <1>3, <2>1 DEF TypesOK, NodesOK, NodeRecords
    <3>2. /\ r \in NodeRecords /\ r.group = node[n].group /\ r.up = node[n].up
          /\ r.mergeSet = node[n].mergeSet
      BY <1>3 DEF NodeRecords, States
    <3> HIDE DEF r
    <3>3. QED
      BY <1>1, <1>3, <3>1, <3>2, NodesChange DEF TypesOK, NodeOK
  <2>2. CASE node' = [node EXCEPT ![n] = Recovered(node[n], n)]
    BY <1>1, <2>2, NodesRecover DEF TypesOK
  <2>3. QED
    BY <2>1, <2>2 DEF Join
<1>5. CallsOK'
  <2>1. joining' \in [Nodes -> Joinings]
    BY DEF Join, TypesOK, CallsOK, Joinings
  <2>2. a \in Accepts
    <3>1. Member(n, llu[n], incarnation[n]) \in Members
      BY DEF TypesOK, DataOK, ProcessesOK, Member, Members
    <3>2. node[n].max \in Nat
      BY <1>3 DEF NodeRecords
    <3>3. QED
      BY <1>2, <3>1, <3>2 DEF Accepts
  <2>3. mail' = mail \cup {a} \/ mail' = mail
    BY DEF Join
  <2> HIDE DEF a
  <2>4. mail' \subseteq Invitations \cup Accepts
    BY <2>2, <2>3 DEF TypesOK, CallsOK
  <2>5. QED
    BY <1>1, <2>1, <2>4 DEF CallsOK, Joinings, Invitations, Accepts
<1>6. ProcessesOK'
  BY <1>1 DEF Join, TypesOK, ProcessesOK
<1>7. QED
  BY <1>1, <1>4, <1>5, <1>6, TypesSame DEF TypesOK

\* accept() keeps the types.
LEMMA AcceptTypes ==
    ASSUME TypesOK, NEW msg \in mail, Accept(msg)
    PROVE  TypesOK'
<1> DEFINE c == msg.to
           up == node[c].up
           m == IF msg.max > node[c].max THEN msg.max ELSE node[c].max
           s == IF msg.info.id \in Ids(up) THEN up ELSE up \cup {msg.info}
           r == [node[c] EXCEPT !.max = m, !.up = s]
<1>1. UNCHANGED <<groups, updates, joining, merging, observers, reaped, llu, shared, acked,
                  committed, sending, suspect, incarnation, assertFailed, stamped>>
  BY DEF Accept, processVars, replicaVars, counts, history, NoAssertFails
<1>2. c \in Nodes /\ msg.max \in Nat /\ msg.info \in Members
  BY MailKinds DEF Accept, Accepts
<1>3. node[c] \in NodeRecords /\ NodeOK(c)
  BY <1>2 DEF TypesOK, NodesOK
<1>4. NodesOK'
  <2>1. CASE node' = [node EXCEPT ![c].max = m, ![c].up = s]
    <3>1. node' = [node EXCEPT ![c] = r]
      BY <1>2, <1>3, <2>1 DEF TypesOK, NodesOK, NodeRecords
    <3>2. m \in Nat
      BY <1>2, <1>3 DEF NodeRecords
    <3>3. s \in SUBSET Members
      BY <1>2, <1>3 DEF NodeRecords
    <3>4. Distinct(s)
      <4>1. Distinct(up) /\ up \in SUBSET Members
        BY <1>3 DEF NodeOK, NodeRecords
      <4>2. IsFiniteSet(s)
        BY <4>1, FS_AddElement DEF Distinct
      <4>3. \A x, y \in s : x.id = y.id => x = y
        BY <4>1 DEF Distinct, Ids
      <4>4. QED
        BY <4>2, <4>3 DEF Distinct
    <3> HIDE DEF m, s
    <3>5. /\ r \in NodeRecords /\ r.group = node[c].group /\ r.up = s
          /\ r.mergeSet = node[c].mergeSet
      BY <1>3, <3>2, <3>3 DEF NodeRecords
    <3> HIDE DEF r
    <3>6. QED
      BY <1>1, <1>2, <1>3, <3>1, <3>4, <3>5, NodesChange DEF TypesOK, NodeOK
  <2>2. CASE UNCHANGED node
    BY <1>1, <2>2, TypesSame
  <2>3. QED
    BY <2>1, <2>2 DEF Accept
<1>5. CallsOK'
  BY <1>1 DEF Accept, TypesOK, CallsOK, Joinings, Invitations, Accepts
<1>6. QED
  BY <1>1, <1>4, <1>5, TypesSame DEF TypesOK

\* One node's merge changes.
LEMMA MergingsChange ==
    ASSUME MergingsOK, UNCHANGED groups, NEW n \in Nodes, NEW m \in Syncs \cup Inits,
           merging' = [merging EXCEPT ![n] = m], Others(n) # {},
           Distinct(m.members), Cardinality(m.members) >= Majority, m.members # {},
           m.step # "sync" => m.todo \subseteq m.members,
           m.step = "init" => m.todo # {}
    PROVE  MergingsOK'
<1>1. /\ Syncs' = Syncs /\ Inits' = Inits /\ Mergings' = Mergings
      /\ merging' \in [Nodes -> Mergings]
  BY DEF MergingsOK, Mergings, Syncs, Inits
<1>2. ASSUME NEW x \in Nodes
      PROVE  MergingOK(x)'
  <2>1. merging'[x] = IF x = n THEN m ELSE merging[x]
    BY DEF MergingsOK
  <2>2. QED
    BY <2>1 DEF MergingsOK, MergingOK
<1>3. QED
  BY <1>1, <1>2 DEF MergingsOK

\* A merge ends.
LEMMA MergingsEnd ==
    ASSUME MergingsOK, UNCHANGED groups, NEW n \in Nodes,
           merging' = [merging EXCEPT ![n] = None]
    PROVE  MergingsOK'
<1>1. /\ Mergings' = Mergings
      /\ merging' \in [Nodes -> Mergings]
  BY DEF MergingsOK, Mergings, Syncs, Inits
<1>2. ASSUME NEW x \in Nodes
      PROVE  MergingOK(x)'
  <2>1. merging'[x] = IF x = n THEN None ELSE merging[x]
    BY DEF MergingsOK
  <2>2. QED
    BY <2>1 DEF MergingsOK, MergingOK, None
<1>3. QED
  BY <1>1, <1>2 DEF MergingsOK

\* recovery() in the middle of a merge.
LEMMA GiveUpTypes ==
    ASSUME TypesOK, NEW n \in Nodes, GiveUp(n), UNCHANGED groups
    PROVE  NodesOK' /\ MergingsOK'
BY NodesRecover, MergingsEnd DEF TypesOK, GiveUp

\* mergeContinue() keeps the types.
LEMMA MergeContinueTypes ==
    ASSUME TypesOK, NEW n \in Nodes, MergeContinue(n)
    PROVE  TypesOK'
<1> DEFINE up == node[n].up
           r == [node[n] EXCEPT !.state = "Reorganization"]
           m == [step |-> "sync", group |-> node[n].group, members |-> node[n].up]
<1>1. UNCHANGED <<groups, updates, joining, mail, observers, reaped, llu, shared, acked,
                  committed, sending, suspect, incarnation, stamped>>
  BY DEF MergeContinue, replicaVars, counts, history
<1>2. node[n] \in NodeRecords /\ NodeOK(n)
  BY DEF TypesOK, NodesOK
<1>3. NodesOK' /\ MergingsOK'
  <2>1. CASE GiveUp(n)
    BY <1>1, <2>1, GiveUpTypes
  <2>2. CASE /\ Enough(n, up)
             /\ node' = [node EXCEPT ![n].state = "Reorganization"]
             /\ merging' = [merging EXCEPT ![n] = m]
    <3>1. node' = [node EXCEPT ![n] = r]
      BY <1>2, <2>2 DEF TypesOK, NodesOK, NodeRecords
    <3>2. /\ r \in NodeRecords /\ r.group = node[n].group /\ r.up = up
          /\ r.mergeSet = node[n].mergeSet
      BY <1>2 DEF NodeRecords, States
    <3>3. NodesOK'
      <4> HIDE DEF r
      <4> QED
        BY <1>1, <1>2, <3>1, <3>2, NodesChange DEF TypesOK, NodeOK
    <3>4. Others(n) # {} /\ Majority >= 1
      BY MajorityType DEF MergeContinue, TypesOK, MergingsOK, MergingOK
    <3>5. Distinct(up) /\ Cardinality(up) >= Majority
      BY <1>2, <2>2 DEF NodeOK, Enough
    <3>6. up # {}
      <4>1. up = {} => Cardinality(up) = 0
        BY FS_EmptySet
      <4> HIDE DEF up
      <4>2. QED
        BY <3>4, <3>5, <4>1, MajorityType
    <3>7. node[n].group \in 0..groups
      BY <1>2, BoundsAssumption DEF NodeOK, NodeRecords, TypesOK, CountsOK
    <3>8. m \in Syncs /\ m.members = up /\ m.step = "sync"
      BY <1>2, <3>7 DEF Syncs, NodeRecords
    <3> HIDE DEF m
    <3>9. MergingsOK'
      BY <1>1, <2>2, <3>4, <3>5, <3>6, <3>8, MergingsChange DEF TypesOK
    <3>10. QED
      BY <3>3, <3>9
  <2>3. QED
    BY <2>1, <2>2 DEF MergeContinue
<1>4. ProcessesOK'
  BY <1>1 DEF MergeContinue, TypesOK, ProcessesOK
<1>5. QED
  BY <1>1, <1>3, <1>4, TypesSame DEF TypesOK

\* The best member of a merge.
LEMMA BestOf ==
    ASSUME TypesOK, NEW n \in Nodes, merging[n].step = "sync"
    PROVE  LET best == Best(merging[n].members) IN
           /\ best \in merging[n].members /\ best \in Members
           /\ best.llu \in Stamps /\ best.llu[1] \in Nat /\ NextStamp(best.llu) \in Stamps
           /\ NextStamp(best.llu)[1] = best.llu[1] + 1
           /\ \A o \in merging[n].members :
                 o \in Members /\ o.llu[1] \in Nat /\ o.llu[1] <= best.llu[1]
<1> DEFINE S == merging[n].members
<1>1. S \in SUBSET Members /\ IsFiniteSet(S) /\ S # {}
  BY MergingKinds DEF TypesOK, MergingsOK, MergingOK, Distinct, Syncs
<1>2. Best(S) \in S /\ \A o \in S : ~Newer(o.llu, Best(S).llu)
  BY <1>1, BestIsNewest
<1>3. \A o \in S : o \in Members /\ o.llu \in Stamps /\ o.llu[1] \in Nat
  BY <1>1 DEF Members, Stamps
<1> DEFINE b == Best(S)
<1> HIDE DEF S, b
<1>4. \A o \in S : o.llu[1] <= b.llu[1]
  BY <1>2, <1>3 DEF Newer, b
<1>5. NextStamp(b.llu) \in Stamps /\ NextStamp(b.llu)[1] = b.llu[1] + 1
  BY <1>2, <1>3 DEF NextStamp, Stamps, b
<1>6. QED
  BY <1>2, <1>3, <1>4, <1>5 DEF S, b

\* The download of the best database and initMaster() keeps the types.
LEMMA SyncTypes ==
    ASSUME TypesOK, ReplicasOK, NEW n \in Nodes, Sync(n)
    PROVE  TypesOK'
<1> DEFINE members == merging[n].members
           best == Best(members)
           m == [step |-> "init", group |-> merging[n].group, members |-> members,
                 todo |-> members, stamp |-> NextStamp(best.llu), content |-> topics'[n]]
           max == Max({node[n].max, Cardinality(members) + 1})
           r == [node[n] EXCEPT !.max = max]
<1>1. UNCHANGED <<groups, updates, joining, mail, acked, committed, sending, suspect, incarnation,
                  assertFailed>>
  BY DEF Sync, Fault, NoAssertFails
<1>2. /\ members \in SUBSET Members /\ merging[n].group \in 0..groups
      /\ Distinct(members) /\ Cardinality(members) >= Majority /\ members # {}
      /\ Others(n) # {}
  BY MergingKinds DEF Sync, TypesOK, MergingsOK, MergingOK, Syncs
<1>3. node[n] \in NodeRecords /\ NodeOK(n)
  BY DEF TypesOK, NodesOK
<1>4. CASE GiveUp(n) /\ UNCHANGED <<data, topics, shared, llu, stamped, counted, lapses, reaped,
                                    observers>>
  BY <1>1, <1>4, GiveUpTypes, TypesSame DEF TypesOK
<1>5. CASE /\ shared' = [shared EXCEPT ![n] = topics'[n]]
           /\ \/ topics' = topics \/ topics' = [topics EXCEPT ![n] = topics[best.id] \ InError(n)]
           /\ node' = [node EXCEPT ![n].max = Max({@, Cardinality(members) + 1})]
           /\ llu' = [llu EXCEPT ![n] = NextStamp(best.llu)]
           /\ stamped' = stamped \cup {Stamp(n, n, NextStamp(best.llu))}
           /\ reaped' = [reaped EXCEPT ![n] = {}]
           /\ observers' = [observers EXCEPT ![n] = {}]
           /\ merging' = [merging EXCEPT ![n] = m]
  <2>1. best.id \in Nodes /\ NextStamp(best.llu) \in Stamps /\ NextStamp(best.llu)[1] \in Nat
    BY BestOf DEF Sync, Members, Stamps
  <2>2. max \in Nat
    <3>1. Cardinality(members) \in Nat
      BY <1>2, FS_CardinalityType DEF Distinct
    <3>2. QED
      BY <1>3, <3>1, MaxOfTwo DEF NodeRecords
  <2>3. NodesOK'
    <3>1. node' = [node EXCEPT ![n].max = max]
      BY <1>3, <1>5 DEF TypesOK, NodesOK
    <3> HIDE DEF max
    <3>2. node' = [node EXCEPT ![n] = r]
      BY <1>3, <3>1 DEF TypesOK, NodesOK, NodeRecords
    <3>3. /\ r \in NodeRecords /\ r.group = node[n].group /\ r.up = node[n].up
          /\ r.mergeSet = node[n].mergeSet
      BY <1>3, <2>2 DEF NodeRecords
    <3> HIDE DEF r
    <3>4. QED
      BY <1>1, <1>3, <3>2, <3>3, NodesChange DEF TypesOK, NodeOK
  <2>4. topics'[n] \in SUBSET (1..MaxUpdates)
    BY <1>5, <2>1 DEF ReplicasOK
  <2>5. DataOK'
    <3>1. llu' \in [Nodes -> Stamps] /\ shared' \in [Nodes -> SUBSET (1..MaxUpdates)]
      BY <1>5, <2>1, <2>4 DEF TypesOK, DataOK
    <3>2. observers' \in [Nodes -> SUBSET Infos] /\ reaped' \in [Nodes -> SUBSET Nodes]
      BY <1>5 DEF TypesOK, DataOK
    <3>3. QED
      BY <1>1, <3>1, <3>2 DEF TypesOK, DataOK, Versions
  <2>6. MergingsOK'
    <3>1. /\ m \in Inits /\ m.members = members /\ m.todo = members /\ m.step = "init"
      BY <1>2, <2>1, <2>4 DEF Inits
    <3> HIDE DEF m
    <3>2. merging' = [merging EXCEPT ![n] = m]
      BY <1>5
    <3>3. QED
      BY <1>1, <1>2, <3>1, <3>2, MergingsChange DEF TypesOK
  <2>7. StampedOK'
    BY <1>1, <1>2, <1>5, <2>1 DEF TypesOK, StampedOK, Stamp
  <2>8. QED
    BY <1>1, <2>3, <2>5, <2>6, <2>7, TypesSame DEF TypesOK
<1>6. QED
  BY <1>4, <1>5 DEF Sync

\* The member that is called next.
LEMMA NextOfTodo ==
    ASSUME TypesOK, NEW n \in Nodes, merging[n].step \in {"init", "ready"},
           merging[n].todo # {}
    PROVE  LET m == merging[n]  a == NextOf(merging[n].todo) IN
           /\ a \in m.todo /\ a \in m.members /\ a \in Members /\ a.id \in Nodes /\ a.inc \in Nat
           /\ m.todo \subseteq m.members /\ m.members \in SUBSET Members
           /\ m.group \in 0..groups /\ Others(n) # {}
           /\ Distinct(m.members) /\ Cardinality(m.members) >= Majority /\ m.members # {}
           /\ m \in Inits
<1> DEFINE m == merging[n]
<1>1. /\ m \in Inits /\ m.todo \subseteq m.members /\ m.members \in SUBSET Members
      /\ Distinct(m.members) /\ m.group \in 0..groups /\ Others(n) # {}
      /\ Cardinality(m.members) >= Majority /\ m.members # {}
  BY MergingKinds DEF TypesOK, MergingsOK, MergingOK, Inits
<1>2. IsFiniteSet(m.todo) /\ m.todo \in SUBSET Members
  BY <1>1, FS_Subset DEF Distinct
<1>3. NextOf(m.todo) \in m.todo
  BY <1>2, NextIsMember
<1> HIDE DEF m
<1>4. NextOf(m.todo) \in Members
  BY <1>2, <1>3
<1>5. QED
  BY <1>1, <1>3, <1>4 DEF m, Members

\* ReplicaObserverI::init on a member keeps the types.
LEMMA InitSlaveTypes ==
    ASSUME TypesOK, NEW n \in Nodes, InitSlave(n)
    PROVE  TypesOK'
<1> DEFINE k == merging[n]
           a == NextOf(k.todo)
           s == a.id
           left == k.todo \ {a}
<1>1. UNCHANGED <<groups, updates, joining, mail, reaped, acked, committed, sending, suspect,
                  incarnation, assertFailed>>
  BY DEF InitSlave, Fault, NoAssertFails
<1>2. k.step = "init" /\ k.todo # {}
  BY DEF InitSlave, TypesOK, MergingsOK, MergingOK
<1>3. /\ a \in k.todo /\ s \in Nodes /\ a.inc \in Nat
      /\ k.todo \subseteq k.members /\ k.members \in SUBSET Members
      /\ k.group \in 0..groups /\ Others(n) # {}
      /\ Distinct(k.members) /\ Cardinality(k.members) >= Majority /\ k.members # {} /\ k \in Inits
  BY <1>2, NextOfTodo
<1> HIDE DEF a
<1>4. ASSUME Initialized(s, n)
      PROVE  /\ StampedOK' /\ llu' \in [Nodes -> Stamps]
             /\ shared' \in [Nodes -> SUBSET (1..MaxUpdates)]
  <2>1. Stamp(s, n, k.stamp) \in [id : Nodes, coord : Nodes, group : 0..groups, generation : Nat]
    BY <1>3 DEF Stamp, Inits, Stamps
  <2>2. k.stamp \in Stamps /\ k.content \in SUBSET (1..MaxUpdates)
    BY <1>3 DEF Inits
  <2>3. QED
    BY <1>1, <1>3, <1>4, <2>1, <2>2 DEF Initialized, TypesOK, DataOK, StampedOK
<1>5. CASE /\ Initialized(s, n)
           /\ observers' = [observers EXCEPT ![n] = @ \cup {[id |-> s, inc |-> a.inc]}, ![s] = {}]
           /\ merging' = [merging EXCEPT ![n] =
                IF left # {} THEN [@ EXCEPT !.todo = left]
                ELSE [@ EXCEPT !.step = "ready", !.todo = merging[n].members]]
           /\ UNCHANGED node
  <2>1. DataOK'
    <3>1. [id |-> s, inc |-> a.inc] \in Infos
      BY <1>3 DEF Infos
    <3>2. observers' \in [Nodes -> SUBSET Infos]
      BY <1>5, <3>1 DEF TypesOK, DataOK
    <3>3. QED
      BY <1>1, <1>4, <1>5, <3>2 DEF TypesOK, DataOK, Versions
  <2>2. MergingsOK'
    <3> DEFINE m == IF left # {} THEN [k EXCEPT !.todo = left]
                    ELSE [k EXCEPT !.step = "ready", !.todo = k.members]
    <3>1. merging' = [merging EXCEPT ![n] = m]
      BY <1>5 DEF TypesOK, MergingsOK
    <3>2. /\ m \in Inits /\ m.members = k.members
          /\ m.step # "sync" => m.todo \subseteq m.members
          /\ m.step = "init" => m.todo # {}
      <4>1. CASE left # {}
        <5>1. m = [k EXCEPT !.todo = left] /\ left \subseteq k.members
          BY <1>3, <4>1
        <5> HIDE DEF left, m
        <5>2. QED
          BY <1>3, <4>1, <5>1 DEF Inits
      <4>2. CASE left = {}
        <5>1. m = [k EXCEPT !.step = "ready", !.todo = k.members]
          BY <4>2
        <5> HIDE DEF left, m
        <5>2. QED
          BY <1>3, <5>1 DEF Inits
      <4>3. QED
        BY <4>1, <4>2
    <3> HIDE DEF m
    <3>3. QED
      BY <1>1, <1>3, <3>1, <3>2, MergingsChange DEF TypesOK
  <2>3. QED
    BY <1>1, <1>4, <1>5, <2>1, <2>2, TypesSame DEF TypesOK
<1>6. CASE /\ \/ Initialized(s, n) /\ observers' = [observers EXCEPT ![s] = {}]
              \/ UNCHANGED <<data, topics, shared, llu, stamped, lapses, observers>>
           /\ GiveUp(n)
  <2>1. NodesOK' /\ MergingsOK'
    BY <1>1, <1>6, GiveUpTypes
  <2>2. DataOK' /\ StampedOK'
    <3>1. CASE UNCHANGED <<data, topics, shared, llu, stamped, lapses, observers>>
      BY <1>1, <3>1, TypesSame
    <3>2. CASE Initialized(s, n) /\ observers' = [observers EXCEPT ![s] = {}]
      BY <1>1, <1>4, <3>2 DEF TypesOK, DataOK, Versions
    <3>3. QED
      BY <1>6, <3>1, <3>2
  <2>3. QED
    BY <1>1, <2>1, <2>2, TypesSame DEF TypesOK
<1>7. QED
  BY <1>5, <1>6 DEF InitSlave, a

\* What ready() makes of a member.
LEMMA ReadiedType ==
    ASSUME TypesOK, NEW n \in Nodes, NEW s \in Nodes, merging[n].step = "ready"
    PROVE  LET r == Readied(s, n) IN
           /\ r \in NodeRecords /\ r.group = node[s].group /\ r.up = node[s].up
           /\ r.mergeSet = node[s].mergeSet /\ r.coord = node[s].coord
           /\ \/ r = node[s]
              \/ /\ node[s].state = "Reorganization" /\ node[s].group = merging[n].group
                 /\ node[s].coord = n
                 /\ r.state = "Normal" /\ r.slave = TRUE /\ r.generation = merging[n].stamp[1]
<1> DEFINE max == Max({node[s].max, node[n].max})
           r == [node[s] EXCEPT !.state = "Normal", !.slave = TRUE, !.max = max,
                                !.generation = merging[n].stamp[1]]
           joined == /\ node[s].state = "Reorganization" /\ node[s].group = merging[n].group
                     /\ node[s].coord = n
<1>1. node[s] \in NodeRecords /\ node[n] \in NodeRecords
  BY DEF TypesOK, NodesOK
<1>2. max \in Nat
  BY <1>1, MaxOfTwo DEF NodeRecords
<1>3. merging[n].stamp[1] \in Nat
  BY MergingKinds DEF TypesOK, Inits, Stamps
<1>4. Readied(s, n) = IF joined THEN r ELSE node[s]
  BY <1>1 DEF Readied, NodeRecords
<1> HIDE DEF max
<1>5. /\ r \in NodeRecords /\ r.group = node[s].group /\ r.up = node[s].up
      /\ r.mergeSet = node[s].mergeSet /\ r.coord = node[s].coord
      /\ r.state = "Normal" /\ r.slave = TRUE /\ r.generation = merging[n].stamp[1]
  BY <1>1, <1>2, <1>3 DEF NodeRecords, States
<1> HIDE DEF r
<1>6. QED
  BY <1>1, <1>4, <1>5

\* ready() on a member keeps the types.
LEMMA ReadySlaveTypes ==
    ASSUME TypesOK, NEW n \in Nodes, ReadySlave(n)
    PROVE  TypesOK'
<1> DEFINE k == merging[n]
           a == NextOf(k.todo)
           s == a.id
<1>1. UNCHANGED <<groups, updates, joining, mail, observers, reaped, llu, shared, acked,
                  committed, sending, suspect, incarnation, assertFailed, stamped>>
  BY DEF ReadySlave, Fault, replicaVars, NoAssertFails
<1>2. k.step = "ready" /\ k.todo # {}
  BY DEF ReadySlave
<1>3. /\ a \in k.todo /\ s \in Nodes
      /\ k.todo \subseteq k.members /\ Others(n) # {}
      /\ Distinct(k.members) /\ Cardinality(k.members) >= Majority /\ k.members # {} /\ k \in Inits
  BY <1>2, NextOfTodo
<1> HIDE DEF a
<1>4. /\ node[s] \in NodeRecords /\ NodeOK(s) /\ node[n] \in NodeRecords /\ NodeOK(n)
  BY <1>3 DEF TypesOK, NodesOK
<1>5. ASSUME NEW r \in {node[s], Readied(s, n)}
      PROVE  /\ r \in NodeRecords /\ r.group <= groups /\ Distinct(r.up)
             /\ r.mergeSet \subseteq Others(s)
  <2>1. CASE r = node[s]
    BY <1>4, <2>1 DEF NodeOK
  <2>2. CASE r = Readied(s, n)
    <3> HIDE DEF s
    <3>1. /\ r \in NodeRecords /\ r.group = node[s].group /\ r.up = node[s].up
          /\ r.mergeSet = node[s].mergeSet
      BY <1>2, <1>3, <2>2, ReadiedType
    <3>2. QED
      BY <1>4, <3>1 DEF NodeOK
  <2>3. QED
    BY <1>5, <2>1, <2>2
<1>6. CASE /\ node' = [node EXCEPT ![s] = Readied(s, n)]
           /\ merging' = [merging EXCEPT ![n].todo = @ \ {a}]
  <2>1. NodesOK'
    <3> DEFINE r == Readied(s, n)
    <3>1. /\ r \in NodeRecords /\ r.group <= groups /\ Distinct(r.up)
          /\ r.mergeSet \subseteq Others(s)
      BY <1>5
    <3>2. node' = [node EXCEPT ![s] = r]
      BY <1>6
    <3> HIDE DEF r
    <3>3. QED
      BY <1>1, <1>3, <3>1, <3>2, NodesChange DEF TypesOK
  <2>2. MergingsOK'
    <3> DEFINE m == [k EXCEPT !.todo = k.todo \ {a}]
    <3>1. merging' = [merging EXCEPT ![n] = m]
      BY <1>6 DEF TypesOK, MergingsOK
    <3>2. /\ m \in Inits /\ m.members = k.members /\ m.step = "ready"
          /\ m.todo \subseteq m.members
      BY <1>2, <1>3 DEF Inits
    <3> HIDE DEF m
    <3>3. QED
      BY <1>1, <1>3, <3>1, <3>2, MergingsChange DEF TypesOK
  <2>3. QED
    BY <1>1, <2>1, <2>2, TypesSame DEF TypesOK
<1>7. ASSUME NEW r \in {node[s], Readied(s, n)},
             node' = [node EXCEPT ![s] = r, ![n] = Recovered(node[n], n)],
             merging' = [merging EXCEPT ![n] = None]
      PROVE  TypesOK'
  <2>1. NodesOK'
    <3> DEFINE q == Recovered(node[n], n)
    <3>1. q \in NodeRecords /\ q.group = 0 /\ q.up = {} /\ q.mergeSet = {}
      BY <1>4, RecoveredType
    <3>2. node' = [node EXCEPT ![s] = r, ![n] = q]
      BY <1>7
    <3> HIDE DEF q
    <3>3. node' \in [Nodes -> NodeRecords]
      BY <1>3, <1>5, <3>1, <3>2 DEF TypesOK, NodesOK
    <3>4. ASSUME NEW x \in Nodes PROVE NodeOK(x)'
      <4>1. node'[x] = IF x = n THEN q ELSE IF x = s THEN r ELSE node[x]
        BY <1>3, <3>2 DEF TypesOK, NodesOK
      <4>2. NodeOK(x) /\ groups' = groups /\ groups >= 0
        BY <1>1 DEF TypesOK, NodesOK, CountsOK
      <4>3. QED
        BY <1>5, <3>1, <4>1, <4>2, NoneDistinct DEF NodeOK
    <3>5. QED
      BY <3>3, <3>4 DEF NodesOK
  <2>2. MergingsOK'
    BY <1>1, <1>7, MergingsEnd DEF TypesOK
  <2>3. QED
    BY <1>1, <2>1, <2>2, TypesSame DEF TypesOK
<1>8. QED
  BY <1>6, <1>7 DEF ReadySlave, a

\* The end of the readying keeps the types.
LEMMA ReadyDoneTypes ==
    ASSUME TypesOK, NEW n \in Nodes, ReadyDone(n)
    PROVE  TypesOK'
<1> DEFINE r == [node[n] EXCEPT !.state = "Normal", !.slave = FALSE,
                                !.generation = merging[n].stamp[1]]
<1>1. UNCHANGED <<groups, updates, joining, mail, observers, reaped, llu, shared, acked,
                  committed, sending, suspect, incarnation, assertFailed, stamped>>
  BY DEF ReadyDone, replicaVars, counts, history, NoAssertFails
<1>2. node[n] \in NodeRecords /\ NodeOK(n) /\ merging[n].stamp[1] \in Nat
  BY MergingKinds DEF ReadyDone, TypesOK, NodesOK, Inits, Stamps
<1>3. NodesOK'
  <2>1. node' = [node EXCEPT ![n] = r]
    BY <1>2 DEF ReadyDone, TypesOK, NodesOK, NodeRecords
  <2>2. /\ r \in NodeRecords /\ r.group = node[n].group /\ r.up = node[n].up
        /\ r.mergeSet = node[n].mergeSet
    BY <1>2 DEF NodeRecords, States
  <2> HIDE DEF r
  <2>3. QED
    BY <1>1, <1>2, <2>1, <2>2, NodesChange DEF TypesOK, NodeOK
<1>4. MergingsOK'
  BY <1>1, MergingsEnd DEF ReadyDone, TypesOK
<1>5. QED
  BY <1>1, <1>3, <1>4, TypesSame DEF TypesOK

\* check() of the observers keeps the types.
LEMMA CheckObserversTypes ==
    ASSUME TypesOK, NEW m \in Nodes, CheckObservers(m)
    PROVE  TypesOK'
<1>1. UNCHANGED <<node, joining, merging, suspect, llu, shared, committed, sending, mail,
                  incarnation, groups, updates, acked, stamped, assertFailed>>
  BY DEF CheckObservers, processVars, history, NoAssertFails
<1>2. PICK gone \in SUBSET observers[m] :
         /\ observers' = [observers EXCEPT ![m] = @ \ gone]
         /\ reaped' = [reaped EXCEPT ![m] = @ \cup Ids(gone)]
  BY DEF CheckObservers
<1>3. observers[m] \subseteq Infos
  BY DEF TypesOK, DataOK
<1>4. Ids(gone) \subseteq Nodes
  BY <1>3 DEF Ids, Infos
<1>5. DataOK'
  BY <1>1, <1>2, <1>4 DEF TypesOK, DataOK, Versions
<1>6. QED
  BY <1>1, <1>5, TypesSame DEF TypesOK

\* startUpdate() keeps the types.
LEMMA UpdateStartTypes ==
    ASSUME TypesOK, NEW m \in Nodes, UpdateStart(m)
    PROVE  TypesOK'
<1>1. UNCHANGED <<joining, merging, suspect, observers, reaped, llu, shared, committed, sending,
                  mail, incarnation, groups, updates, acked, stamped, assertFailed>>
  BY DEF UpdateStart, processVars, counts, history, NoAssertFails
<1>2. UNCHANGED node \/ node' = [node EXCEPT ![m] = Recovered(node[m], m)]
  BY DEF UpdateStart
<1>3. NodesOK'
  BY <1>1, <1>2, NodesRecover, TypesSame DEF TypesOK
<1>4. QED
  BY <1>1, <1>3, TypesSame DEF TypesOK

\* One update more.
LEMMA UpdateCommitTypes ==
    ASSUME TypesOK, NEW m \in Nodes, UpdateCommit(m)
    PROVE  TypesOK'
<1> DEFINE stamp == <<llu[m][1], llu[m][2] + 1>>
           u == [id |-> updates + 1, llu |-> stamp]
<1>1. /\ UNCHANGED <<node, joining, merging, suspect, observers, reaped, sending, mail,
                     incarnation, groups, acked, stamped, assertFailed>>
      /\ updates < MaxUpdates /\ updates' = updates + 1
      /\ shared' = [shared EXCEPT ![m] = @ \cup {updates + 1}]
      /\ llu' = [llu EXCEPT ![m] = stamp]
      /\ committed' = [committed EXCEPT ![m] = @ \cup {u}]
  BY DEF UpdateCommit, processVars, NoAssertFails
<1>2. /\ updates \in Nat /\ updates + 1 \in 1..MaxUpdates /\ updates' \in 0..MaxUpdates
      /\ updates + 1 \in 1..updates' /\ 1..updates \subseteq 1..updates'
  BY <1>1, BoundsAssumption DEF TypesOK, CountsOK
<1>3. stamp \in Stamps
  BY DEF TypesOK, DataOK, Stamps
<1> HIDE DEF stamp
<1>4. CountsOK'
  BY <1>1, <1>2 DEF TypesOK, CountsOK
<1>5. DataOK'
  BY <1>1, <1>2, <1>3 DEF TypesOK, DataOK, Versions
<1>6. VersionsOK'
  <2>1. Versions \subseteq Versions' /\ Sendings \subseteq Sendings'
    BY <1>2 DEF Versions, Sendings
  <2>2. u \in Versions'
    BY <1>2, <1>3 DEF Versions
  <2> HIDE DEF u
  <2>3. QED
    BY <1>1, <2>1, <2>2 DEF TypesOK, VersionsOK
<1>7. QED
  BY <1>1, <1>4, <1>5, <1>6, TypesSame DEF TypesOK

\* Taking an update to send keeps the types.
LEMMA UpdateSendTypes ==
    ASSUME TypesOK, NEW m \in Nodes, UpdateSend(m)
    PROVE  TypesOK'
<1>1. UNCHANGED <<node, joining, merging, suspect, observers, reaped, llu, shared, mail,
                  incarnation, groups, updates, acked, stamped, assertFailed>>
  BY DEF UpdateSend, processVars, counts, NoAssertFails
<1>2. PICK u \in committed[m] :
         /\ committed' = [committed EXCEPT ![m] = @ \ {u}]
         /\ sending' = [sending EXCEPT ![m] =
                          [step |-> "sending", id |-> u.id, llu |-> u.llu, todo |-> observers[m]]]
  BY DEF UpdateSend
<1>3. u \in Versions /\ observers[m] \in SUBSET Infos
  BY DEF TypesOK, VersionsOK, DataOK
<1>4. [step |-> "sending", id |-> u.id, llu |-> u.llu, todo |-> observers[m]] \in Sendings
  BY <1>3 DEF Versions, Sendings
<1>5. VersionsOK'
  <2>1. Versions' = Versions /\ Sendings' = Sendings
    BY <1>1 DEF Versions, Sendings
  <2>2. QED
    BY <1>2, <1>4, <2>1 DEF TypesOK, VersionsOK
<1>6. QED
  BY <1>1, <1>5, TypesSame DEF TypesOK

\* A replica's update keeps the types.
LEMMA ReplicateTypes ==
    ASSUME TypesOK, NEW m \in Nodes, NEW o \in observers[m], Replicate(m, o)
    PROVE  TypesOK'
<1> DEFINE s == o.id
           u == sending[m]
<1>1. /\ UNCHANGED <<joining, merging, suspect, committed, mail, incarnation, groups, updates,
                     acked, stamped, assertFailed>>
      /\ u # None /\ sending' = [sending EXCEPT ![m].todo = @ \ {o}]
  BY DEF Replicate, processVars, NoAssertFails
<1>2. /\ u.id \in 1..updates /\ u.llu \in Stamps
      /\ u \in [step : {"sending"}, id : 1..updates, llu : Stamps, todo : SUBSET Infos]
  BY <1>1, SendingKinds DEF TypesOK
<1>3. o \in Infos /\ s \in Nodes /\ u.id \in 1..MaxUpdates
  BY <1>2, BoundsAssumption DEF TypesOK, DataOK, Infos, CountsOK
<1>4. VersionsOK'
  <2> DEFINE q == [u EXCEPT !.todo = @ \ {o}]
  <2>1. sending' = [sending EXCEPT ![m] = q]
    BY <1>1, <1>2 DEF TypesOK, VersionsOK
  <2>2. q \in Sendings
    BY <1>2 DEF Sendings
  <2>3. Versions' = Versions /\ Sendings' = Sendings
    BY <1>1 DEF Versions, Sendings
  <2> HIDE DEF q
  <2>4. QED
    BY <1>1, <2>1, <2>2, <2>3 DEF TypesOK, VersionsOK
<1>5. DataOK'
  <2>1. \/ UNCHANGED <<observers, reaped>>
        \/ /\ observers' = [observers EXCEPT ![m] = @ \ {o}]
           /\ reaped' = [reaped EXCEPT ![m] = @ \cup {s}]
    BY DEF Replicate
  <2>2. \/ UNCHANGED <<shared, llu>>
        \/ /\ shared' = [shared EXCEPT ![s] = @ \cup {u.id}]
           /\ llu' = [llu EXCEPT ![s] = u.llu]
    BY DEF Replicate
  <2>3. observers' \in [Nodes -> SUBSET Infos] /\ reaped' \in [Nodes -> SUBSET Nodes]
    BY <1>3, <2>1 DEF TypesOK, DataOK
  <2>4. llu' \in [Nodes -> Stamps] /\ shared' \in [Nodes -> SUBSET (1..MaxUpdates)]
    BY <1>2, <1>3, <2>2 DEF TypesOK, DataOK
  <2>5. QED
    BY <1>1, <2>3, <2>4 DEF TypesOK, DataOK, Versions
<1>6. NodesOK'
  <2>1. \/ UNCHANGED node
        \/ node' = [node EXCEPT ![s] = Recovered(node[s], s)]
    BY DEF Replicate
  <2>2. QED
    BY <1>1, <1>3, <2>1, NodesRecover, TypesSame DEF TypesOK
<1>7. QED
  BY <1>1, <1>4, <1>5, <1>6, TypesSame DEF TypesOK

\* finishUpdate() keeps the types.
LEMMA UpdateFinishTypes ==
    ASSUME TypesOK, NEW m \in Nodes, UpdateFinish(m)
    PROVE  TypesOK'
<1>1. /\ UNCHANGED <<node, joining, merging, suspect, observers, reaped, llu, shared, committed,
                     mail, incarnation, groups, updates, stamped, assertFailed>>
      /\ sending[m] # None /\ sending' = [sending EXCEPT ![m] = None]
      /\ UNCHANGED acked \/ acked' = acked \cup {[id |-> sending[m].id, llu |-> sending[m].llu]}
  BY DEF UpdateFinish, processVars, counts, NoAssertFails
<1>2. sending[m].id \in 1..updates /\ sending[m].llu \in Stamps
  BY <1>1, SendingKinds DEF TypesOK
<1>3. DataOK' /\ VersionsOK'
  BY <1>1, <1>2 DEF TypesOK, DataOK, VersionsOK, Versions, Sendings
<1>4. QED
  BY <1>1, <1>3, TypesSame DEF TypesOK

\* A subscriber that fails changes none of them.
LEMMA SubscriberFailsTypes ==
    ASSUME TypesOK, NEW m \in Nodes, SubscriberFails(m)
    PROVE  TypesOK'
BY TypesSame DEF TypesOK, SubscriberFails, Fault, processVars, NoAssertFails

\* A node starts again, or is gone.
LEMMA NodesBlank ==
    ASSUME TypesOK, NEW n \in Nodes, NEW s \in States, UNCHANGED groups,
           node' = [node EXCEPT ![n] = Blank(n, s)]
    PROVE  NodesOK'
<1> DEFINE r == Blank(n, s)
<1>1. r \in NodeRecords /\ r.group = 0 /\ r.up = {} /\ r.mergeSet = {}
  BY BlankType
<1>2. node' = [node EXCEPT ![n] = r]
  OBVIOUS
<1> HIDE DEF r
<1>3. r.group <= groups /\ Distinct(r.up) /\ r.mergeSet \subseteq Others(n)
  BY <1>1, NoneDistinct DEF TypesOK, CountsOK
<1>4. QED
  BY <1>1, <1>2, <1>3, NodesChange DEF TypesOK

\* A crash keeps the types.
LEMMA CrashTypes ==
    ASSUME TypesOK, NEW n \in Nodes, Crash(n)
    PROVE  TypesOK'
<1>1. UNCHANGED <<groups, updates, llu, shared, acked, incarnation, stamped, assertFailed>>
  BY DEF Crash, history, NoAssertFails
<1>2. NodesOK'
  BY <1>1, NodesBlank DEF Crash, States
<1>3. MergingsOK'
  BY <1>1, MergingsEnd DEF Crash, TypesOK
<1>4. CallsOK' /\ ProcessesOK'
  BY <1>1 DEF Crash, TypesOK, CallsOK, ProcessesOK, Joinings, Invitations, Accepts
<1>5. DataOK' /\ VersionsOK'
  BY <1>1 DEF Crash, TypesOK, DataOK, VersionsOK, Versions, Sendings
<1>6. QED
  BY <1>1, <1>2, <1>3, <1>4, <1>5, TypesSame DEF TypesOK

\* A restart keeps the types.
LEMMA RestartTypes ==
    ASSUME TypesOK, NEW n \in Nodes, Restart(n)
    PROVE  TypesOK'
<1>1. UNCHANGED <<groups, updates, joining, mail, merging, suspect, observers, reaped, shared,
                  acked, committed, sending, stamped, assertFailed>>
  BY DEF Restart, processVars, counts, NoAssertFails
<1>2. NodesOK'
  BY <1>1, NodesBlank DEF Restart, States
<1>3. <<0, 0>> \in Stamps
  BY DEF Stamps
<1>4. DataOK' /\ ProcessesOK'
  BY <1>1, <1>3 DEF Restart, TypesOK, DataOK, Versions, ProcessesOK
<1>5. QED
  BY <1>1, <1>2, <1>4, TypesSame DEF TypesOK

\* Every step keeps the types, whatever has lapsed or failed.
LEMMA NextTypes == TypesOK /\ ReplicasOK /\ [Next]_vars => TypesOK'
<1> SUFFICES ASSUME TypesOK, ReplicasOK, [Next]_vars PROVE TypesOK'
  OBVIOUS
<1>1. ASSUME NEW n \in Nodes, Timer(n) PROVE TypesOK'
  BY <1>1, CheckTypes, MergeTypes, TimeoutTypes, MergeContinueTypes,
     SyncTypes, InitSlaveTypes, ReadySlaveTypes, ReadyDoneTypes DEF Timer
<1>2. ASSUME NEW n \in Nodes, Update(n) PROVE TypesOK'
  BY <1>2, CheckObserversTypes, UpdateStartTypes, UpdateCommitTypes, UpdateSendTypes,
     UpdateFinishTypes, SubscriberFailsTypes, ReplicateTypes DEF Update
<1>3. ASSUME NEW n \in Nodes, Crash(n) \/ Restart(n) PROVE TypesOK'
  BY <1>3, CrashTypes, RestartTypes
<1>4. ASSUME Dispatch PROVE TypesOK'
  BY <1>4, InvitationTypes, AcceptTypes, JoinTypes DEF Dispatch
<1>5. CASE UNCHANGED vars
  BY <1>5, TypesSame
     DEF vars, processVars, replicaVars, counts, history, TypesOK
<1>6. QED
  BY <1>1, <1>2, <1>3, <1>4, <1>5 DEF Next

\* The values of the variables that no other type depends on.
LEMMA InitReplicas == Init => ReplicasOK
BY DEF Init, ReplicasOK

\* ... are kept by every step.
LEMMA NextReplicas == TypesOK /\ ReplicasOK /\ [Next]_vars => ReplicasOK'
<1> SUFFICES ASSUME TypesOK, ReplicasOK, [Next]_vars PROVE ReplicasOK'
  OBVIOUS
<1> DEFINE Sets == SUBSET (1..MaxUpdates)
<1>1. UNCHANGED <<data, topics, call>> => ReplicasOK'
  BY DEF ReplicasOK
<1>2. ASSUME NEW n \in Nodes, Timer(n) PROVE ReplicasOK'
  <2>1. CASE Check(n) \/ Merge(n) \/ TimeoutAsk(n) \/ TimeoutRecover(n) \/ MergeContinue(n)
    BY <1>1, <2>1 DEF Check, Merge, TimeoutAsk, TimeoutRecover, MergeContinue, replicaVars
  <2>2. CASE Sync(n)
    <3> DEFINE best == Best(merging[n].members)
    <3>1. best.id \in Nodes
      BY <2>2, BestOf DEF Sync, Members
    <3>2. topics[best.id] \in Sets /\ topics[best.id] \ InError(n) \in Sets
      BY <3>1 DEF ReplicasOK
    <3>3. UNCHANGED call
      BY <2>2 DEF Sync
    <3>4. \/ UNCHANGED <<data, topics>>
          \/ /\ data' = [data EXCEPT ![n] = topics[best.id]]
             /\ topics' = [topics EXCEPT ![n] = topics[best.id] \ InError(n)]
      BY <2>2 DEF Sync
    <3>5. QED
      BY <3>2, <3>3, <3>4 DEF ReplicasOK
  <2>3. CASE InitSlave(n)
    <3> DEFINE a == NextOf(merging[n].todo)
               content == merging[n].content
    <3>1. merging[n].step = "init" /\ merging[n].todo # {}
      BY <2>3 DEF InitSlave, TypesOK, MergingsOK, MergingOK
    <3>2. a.id \in Nodes /\ content \in Sets
      BY <3>1, NextOfTodo DEF Inits
    <3>3. content \ InError(a.id) \in Sets
      BY <3>2
    <3>4. UNCHANGED call
      BY <2>3 DEF InitSlave
    <3>5. \/ UNCHANGED <<data, topics>>
          \/ /\ data' = [data EXCEPT ![a.id] = content]
             /\ topics' = [topics EXCEPT ![a.id] = content \ InError(a.id)]
      BY <2>3 DEF InitSlave, Initialized
    <3> HIDE DEF a, content
    <3>6. QED
      BY <3>2, <3>3, <3>4, <3>5 DEF ReplicasOK
  <2>4. CASE ReadySlave(n) \/ ReadyDone(n)
    BY <1>1, <2>4 DEF ReadySlave, ReadyDone, replicaVars
  <2>5. QED
    BY <1>2, <2>1, <2>2, <2>3, <2>4 DEF Timer
<1>3. ASSUME NEW n \in Nodes, Update(n) PROVE ReplicasOK'
  <2>1. CASE CheckObservers(n)
    BY <2>1 DEF CheckObservers, ReplicasOK
  <2>2. CASE UpdateStart(n)
    BY <2>2 DEF UpdateStart, ReplicasOK
  <2>3. CASE UpdateCommit(n)
    <3>1. updates + 1 \in 1..MaxUpdates
      BY <2>3, BoundsAssumption DEF UpdateCommit, TypesOK, CountsOK
    <3>2. QED
      BY <2>3, <3>1 DEF UpdateCommit, ReplicasOK
  <2>4. CASE UpdateSend(n)
    BY <1>1, <2>4 DEF UpdateSend
  <2>5. CASE UpdateFinish(n)
    <3>1. sending[n].id \in 1..MaxUpdates
      <4>1. sending[n] # None
        BY <2>5 DEF UpdateFinish
      <4>2. sending[n].id \in 1..updates
        BY <4>1, SendingKinds DEF TypesOK
      <4>3. QED
        BY <4>2, BoundsAssumption DEF TypesOK, CountsOK
    <3>2. QED
      BY <2>5, <3>1 DEF UpdateFinish, ReplicasOK
  <2>6. CASE SubscriberFails(n)
    BY <2>6 DEF SubscriberFails, ReplicasOK
  <2>7. ASSUME NEW o \in observers[n], Replicate(n, o)
        PROVE  ReplicasOK'
    <3>1. sending[n].id \in 1..MaxUpdates
      <4>1. sending[n] # None
        BY <2>7 DEF Replicate
      <4>2. sending[n].id \in 1..updates
        BY <4>1, SendingKinds DEF TypesOK
      <4>3. QED
        BY <4>2, BoundsAssumption DEF TypesOK, CountsOK
    <3>2. /\ UNCHANGED call
          /\ \/ UNCHANGED <<data, topics>>
             \/ /\ data' = [data EXCEPT ![o.id] = @ \cup {sending[n].id}]
                /\ topics' = [topics EXCEPT ![o.id] = @ \cup {sending[n].id}]
      BY <2>7 DEF Replicate
    <3>3. QED
      BY <3>1, <3>2 DEF ReplicasOK
  <2>8. QED
    BY <1>3, <2>1, <2>2, <2>3, <2>4, <2>5, <2>6, <2>7 DEF Update
<1>4. ASSUME NEW n \in Nodes, Crash(n) \/ Restart(n) PROVE ReplicasOK'
  BY <1>4 DEF Crash, Restart, ReplicasOK
<1>5. ASSUME Dispatch PROVE ReplicasOK'
  BY <1>1, <1>5 DEF Dispatch, Invitation, Accept, Join, replicaVars
<1>6. CASE UNCHANGED vars
  BY <1>1, <1>6 DEF vars, replicaVars
<1>7. QED
  BY <1>2, <1>3, <1>4, <1>5, <1>6 DEF Next

-----------------------------------------------------------------------------
(***************************************************************************)
(* The election: one coordinator for each generation                       *)
(***************************************************************************)

\* Bounds and kinds that the proofs below use.
LEMMA Facts ==
    ASSUME TypesOK, NEW n \in Nodes
    PROVE  /\ n \in Nat /\ groups \in Nat
           /\ node[n] \in NodeRecords /\ node[n].group \in 0..groups
           /\ node[n].generation \in Nat \cup {-1}
           /\ llu[n] \in Stamps /\ llu[n][1] \in Nat /\ llu[n][2] \in Nat
           /\ merging[n].step \in {"none", "pending", "sync", "init", "ready"}
           /\ merging[n].step = "none" <=> merging[n] = None
           /\ observers[n] \subseteq Infos /\ committed[n] \subseteq Versions
<1>1. node[n] \in NodeRecords /\ NodeOK(n) /\ groups \in Nat /\ n \in Nat
  BY NodesAssumption, BoundsAssumption DEF TypesOK, NodesOK, CountsOK
<1>2. node[n].group \in 0..groups
  BY <1>1, BoundsAssumption DEF NodeOK, NodeRecords
<1>3. llu[n] \in Stamps /\ llu[n][1] \in Nat /\ llu[n][2] \in Nat
  BY DEF TypesOK, DataOK, Stamps
<1>4. /\ merging[n].step \in {"none", "pending", "sync", "init", "ready"}
      /\ merging[n].step = "none" <=> merging[n] = None
  BY MergingKinds DEF TypesOK, None
<1>5. node[n].generation \in Nat \cup {-1}
  BY <1>1 DEF NodeRecords
<1>6. QED
  BY <1>1, <1>2, <1>3, <1>4, <1>5 DEF TypesOK, DataOK, VersionsOK

\* The parts of the invariant that a step keeps where it changes nothing.
LEMMA StampsKept ==
    ASSUME StampsOK, TypesOK, UNCHANGED stamped,
           \A x \in Nodes : llu'[x][1] \in Nat /\ llu'[x][1] >= llu[x][1]
    PROVE  StampsOK'
<1>1. ASSUME NEW x \in stamped
      PROVE  x.generation <= llu'[x.id][1]
  <2>1. x.id \in Nodes /\ x.generation \in Nat
    BY DEF TypesOK, StampedOK
  <2>2. x.generation <= llu[x.id][1] /\ llu[x.id][1] \in Nat /\ llu'[x.id][1] \in Nat
    BY <2>1, Facts DEF StampsOK
  <2>3. QED
    BY <2>1, <2>2
<1>2. QED
  BY <1>1 DEF StampsOK

\* A node that does not change keeps its role, for stamps are not lost.
LEMMA RolesKept ==
    ASSUME stamped \subseteq stamped', NEW x \in Nodes, RoleOK(x), node'[x] = node[x],
           llu'[x][1] = llu[x][1]
    PROVE  RoleOK(x)'
<1>1. node[x].state = "Normal" =>
         /\ Stamped(x, node[x].coord, node[x].group, llu[x][1])'
         /\ Won(node[x].coord, node[x].group, llu[x][1])'
  BY WonStays DEF RoleOK
<1>2. QED
  BY <1>1 DEF RoleOK

\* A merge whose node does not change stays as it is, unless its group is stamped.
LEMMA MergesKept ==
    ASSUME TypesOK, stamped \subseteq stamped', groups' \in Nat, groups' >= groups,
           NEW x \in Nodes, MergeOK(x), merging'[x] = merging[x], node'[x] = node[x],
           suspect'[x] = suspect[x], joining'[x] = joining[x],
           \A y \in stamped' \ stamped : merging[x].step = "none" \/ y.group # node[x].group
    PROVE  MergeOK(x)'
<1>1. \A group \in 0..groups : group \in 0..groups'
  BY DEF TypesOK, CountsOK
<1>2. ASSUME NEW group \in 0..groups, Won(x, group, node[x].generation)
      PROVE  group \in 0..groups' /\ Won(x, group, node[x].generation)'
  BY <1>1, <1>2, WonStays
<1>3. (\E group \in 0..groups : Won(x, group, node[x].generation)) =>
         (\E group \in 0..groups : Won(x, group, node[x].generation))'
  BY <1>2
<1>4. QED
  BY <1>3 DEF MergeOK, Synced

\* A coordinator's stamps stay, unless a database of its members to do changes.
LEMMA InitsKept ==
    ASSUME stamped \subseteq stamped', NEW x \in Nodes, InitOK(x),
           merging'[x] = merging[x],
           Synced(x) => llu'[x] = llu[x] /\ shared'[x] = shared[x],
           merging[x].step = "init" => \A a \in merging[x].todo : a.id # x => llu'[a.id] = llu[a.id]
    PROVE  InitOK(x)'
<1>1. \A s, c, group, g : Stamped(s, c, group, g) => Stamped(s, c, group, g)'
  BY WonStays
<1>2. \A c, group, g : Won(c, group, g) => Won(c, group, g)'
  BY WonStays
<1>3. QED
  BY <1>1, <1>2 DEF InitOK, Synced

\* A node's updates stay its own.
LEMMA UpdatesKept ==
    ASSUME NEW x \in Nodes, UpdateOK(x), node'[x] = node[x],
           call'[x] = "started" => call[x] = "started",
           committed'[x] = committed[x], sending'[x] = sending[x],
           llu'[x][1] = llu[x][1], shared[x] \subseteq shared'[x],
           observers'[x] \subseteq observers[x]
    PROVE  UpdateOK(x)'
BY DEF UpdateOK, Quiet, Master

\* Where one node moves, and no database changes.
LEMMA OneMoves ==
    ASSUME TypesOK, ElectionOK, NEW n \in Nodes, UNCHANGED <<llu, shared, stamped>>,
           groups' \in Nat, groups' >= groups,
           \A x \in Others(n) :
              /\ node'[x] = node[x] /\ merging'[x] = merging[x] /\ joining'[x] = joining[x]
              /\ suspect'[x] = suspect[x] /\ call'[x] = call[x] /\ committed'[x] = committed[x]
              /\ sending'[x] = sending[x] /\ observers'[x] = observers[x],
           RoleOK(n)', MergeOK(n)', InitOK(n)', UpdateOK(n)',
           \A x \in Others(n) : merging'[n].step # "none" /\ merging[x].step # "none" =>
              node'[n].group # node[x].group
    PROVE  ElectionOK'
<1>1. StampsOK'
  BY StampsKept, Facts DEF ElectionOK
<1>2. GroupsApart'
  BY DEF ElectionOK, GroupsApart, Others
<1>3. ASSUME NEW x \in Nodes
      PROVE  RoleOK(x)' /\ MergeOK(x)' /\ InitOK(x)' /\ UpdateOK(x)'
  <2>1. CASE x = n
    BY <2>1
  <2>2. CASE x \in Others(n)
    <3>1. RoleOK(x)'
      BY <2>2, RolesKept DEF ElectionOK
    <3>2. MergeOK(x)'
      BY <2>2, MergesKept DEF ElectionOK
    <3>3. InitOK(x)'
      BY <2>2, InitsKept DEF ElectionOK
    <3>4. UpdateOK(x)'
      BY <2>2, UpdatesKept DEF ElectionOK
    <3>5. QED
      BY <3>1, <3>2, <3>3, <3>4
  <2>3. QED
    BY <2>1, <2>2 DEF Others
<1>4. QED
  BY <1>1, <1>2, <1>3 DEF ElectionOK

\* recovery(), when no update is under way and no merge goes on.
LEMMA OneRecovers ==
    ASSUME TypesOK, ElectionOK, NEW n \in Nodes, Quiet(n),
           node' = [node EXCEPT ![n] = Recovered(node[n], n)], merging'[n] = None,
           UNCHANGED <<llu, shared, stamped, groups, committed, sending>>, call'[n] # "started",
           observers'[n] \subseteq observers[n],
           \A x \in Others(n) : /\ merging'[x] = merging[x] /\ joining'[x] = joining[x]
                                /\ suspect'[x] = suspect[x] /\ observers'[x] = observers[x]
                                /\ call'[x] = call[x]
    PROVE  ElectionOK'
<1> DEFINE r == Recovered(node[n], n)
<1>1. /\ r.state = "Inactive" /\ r.coord = n /\ r.generation = -1 /\ r.mergeSet = {}
      /\ node'[n] = r /\ \A x \in Others(n) : node'[x] = node[x]
  BY Facts, RecoveredType DEF TypesOK, NodesOK, Others
<1> HIDE DEF r
<1>2. RoleOK(n)'
  BY <1>1 DEF RoleOK
<1>3. MergeOK(n)' /\ InitOK(n)' /\ merging'[n].step = "none"
  BY DEF MergeOK, InitOK, Synced, None
<1>4. UpdateOK(n)'
  BY DEF ElectionOK, UpdateOK, Quiet
<1>5. groups' \in Nat /\ groups' >= groups
  BY Facts
<1>6. QED
  BY <1>1, <1>2, <1>3, <1>4, <1>5, OneMoves DEF Others

\* check() keeps one coordinator for each generation.
LEMMA CheckElection ==
    ASSUME TypesOK, ElectionOK, NEW n \in Nodes, Check(n)
    PROVE  ElectionOK'
<1> DEFINE left == {m \in node[n].up : m.id \notin reaped[n]}
<1>1. UNCHANGED <<groups, joining, merging, suspect, observers, llu, shared, call, committed,
                  sending, stamped>>
  BY DEF Check, processVars, counts, history
<1>2. node[n].state \notin Electing /\ node[n].coord = n /\ merging[n] = None
  BY Facts DEF Check, Electing, ElectionOK, MergeOK
<1>3. CASE Quiet(n) /\ node' = [node EXCEPT ![n] = Recovered(node[n], n)]
  BY <1>1, <1>2, <1>3, OneRecovers DEF Quiet
<1>4. ASSUME NEW s, node' = [node EXCEPT ![n].up = left, ![n].mergeSet = s]
      PROVE  ElectionOK'
  <2>1. /\ \A x \in Others(n) : node'[x] = node[x]
        /\ node'[n].state = node[n].state /\ node'[n].coord = node[n].coord
        /\ node'[n].generation = node[n].generation /\ node'[n].slave = node[n].slave
        /\ node'[n].group = node[n].group
    BY <1>4, Facts DEF TypesOK, NodesOK, NodeRecords, Others
  <2>2. RoleOK(n)'
    BY <1>1, <1>2, <2>1, WonStays DEF ElectionOK, RoleOK
  <2>3. MergeOK(n)' /\ InitOK(n)' /\ merging'[n].step = "none"
    BY <1>1, <1>2 DEF MergeOK, InitOK, Synced, None
  <2>4. UpdateOK(n)'
    BY <1>1, <2>1 DEF ElectionOK, UpdateOK, Quiet, Master
  <2>5. QED
    BY <1>1, <2>1, <2>2, <2>3, <2>4, OneMoves, Facts
<1>5. QED
  BY <1>3, <1>4 DEF Check

\* merge(), with the invitations that it sends, keeps one coordinator for each generation.
LEMMA MergeElection ==
    ASSUME TypesOK, ElectionOK, NEW n \in Nodes, Merge(n)
    PROVE  ElectionOK'
<1>1. /\ UNCHANGED <<joining, suspect, observers, llu, shared, call, committed, sending,
                 stamped>>
      /\ groups' = groups + 1 /\ Quiet(n) /\ ~suspect[n]
      /\ merging' = [merging EXCEPT ![n] = [step |-> "pending"]]
  BY DEF Merge, replicaVars, history, TimerIdle
<1>2. node[n].state \in {"Inactive", "Normal"} /\ node[n].coord = n /\ merging[n] = None
  BY Facts DEF Merge, Electing, ElectionOK, MergeOK, RoleOK, TimerIdle, Alive, NodeRecords, States
<1>3. /\ \A x \in Others(n) : node'[x] = node[x] /\ merging'[x] = merging[x]
      /\ node'[n].state = "Election" /\ node'[n].coord = n /\ node'[n].group = groups + 1
      /\ node'[n].mergeSet = {} /\ node'[n].generation = node[n].generation
      /\ merging'[n].step = "pending"
  BY <1>1, Facts DEF Merge, TypesOK, NodesOK, NodeRecords, MergingsOK, Others
<1>4. RoleOK(n)'
  BY <1>3 DEF RoleOK
<1>5. MergeOK(n)'
  <2>1. node[n].generation = -1 \/ Won(n, node[n].group, node[n].generation)
    BY <1>2 DEF ElectionOK, RoleOK
  <2>2. node[n].group \in 0..groups' /\ groups' \in Nat /\ groups' = groups + 1
    BY <1>1, Facts
  <2>3. \A group, g : Won(n, group, g) => Won(n, group, g)'
    BY <1>1, WonStays
  <2>4. node'[n].generation = -1 \/ (\E group \in 0..groups : Won(n, group, node[n].generation))'
    <3>1. ASSUME NEW g, g = node[n].generation, NEW k \in 0..groups', k = node[n].group,
                 Won(n, k, g)
          PROVE  (\E group \in 0..groups : Won(n, group, node[n].generation))'
      <4>1. Won(n, k, g)' /\ node'[n].generation = g
        BY <1>3, <2>3, <3>1
      <4>2. QED
        BY <4>1
    <3>2. QED
      BY <1>3, <2>1, <2>2, <3>1
  <2>5. joining[n] # None => joining[n].group # groups + 1
    BY JoiningKinds, Facts DEF TypesOK
  <2>6. \A x \in stamped : x.group # groups + 1
    BY Facts DEF TypesOK, StampedOK
  <2>7. QED
    BY <1>1, <1>3, <2>4, <2>5, <2>6 DEF MergeOK, Synced
<1>6. InitOK(n)'
  BY <1>3 DEF InitOK, Synced
<1>7. UpdateOK(n)'
  BY <1>1 DEF ElectionOK, UpdateOK, Quiet
<1>8. \A x \in Others(n) : node'[n].group # node[x].group
  BY <1>3, Facts DEF Others
<1>9. groups' \in Nat /\ groups' >= groups
  BY <1>1, Facts
<1>10. QED
  BY <1>1, <1>3, <1>4, <1>5, <1>6, <1>7, <1>8, <1>9, OneMoves

\* timeout() keeps one coordinator for each generation.
LEMMA TimeoutElection ==
    ASSUME TypesOK, ElectionOK, NEW n \in Nodes, TimeoutAsk(n) \/ TimeoutRecover(n)
    PROVE  ElectionOK'
<1>1. UNCHANGED <<groups, joining, merging, observers, llu, shared, call, committed, sending,
                 stamped>>
  BY DEF TimeoutAsk, TimeoutRecover, replicaVars, counts, history
<1>2. merging[n] = None /\ \A x \in Others(n) : suspect'[x] = suspect[x]
  BY Facts DEF TimeoutAsk, TimeoutRecover, ElectionOK, MergeOK, TypesOK, ProcessesOK, Others
<1>3. CASE TimeoutAsk(n)
  <2>1. UNCHANGED node
    BY <1>3 DEF TimeoutAsk
  <2>2. MergeOK(n)' /\ InitOK(n)' /\ merging'[n].step = "none"
    BY <1>1, <1>2 DEF MergeOK, InitOK, Synced, None
  <2>3. RoleOK(n)' /\ UpdateOK(n)'
    BY <1>1, <2>1, RolesKept, UpdatesKept DEF ElectionOK
  <2>4. QED
    BY <1>1, <1>2, <2>1, <2>2, <2>3, OneMoves, Facts
<1>4. CASE TimeoutRecover(n)
  BY <1>1, <1>2, <1>4, OneRecovers DEF TimeoutRecover, Quiet
<1>5. QED
  BY <1>3, <1>4

\* invitation() keeps one coordinator for each generation.
LEMMA InvitationElection ==
    ASSUME TypesOK, ElectionOK, NEW msg \in mail, Invitation(msg)
    PROVE  ElectionOK'
<1> DEFINE n == msg.to
<1>1. /\ UNCHANGED <<groups, merging, suspect, observers, llu, shared, call, committed, sending,
                 stamped>>
      /\ n \in Nodes
  BY MailKinds DEF Invitation, replicaVars, counts, history
<1> HIDE DEF n
<1>2. CASE UNCHANGED <<node, joining>>
  <2>1. RoleOK(n)' /\ MergeOK(n)' /\ InitOK(n)' /\ UpdateOK(n)'
    BY <1>1, <1>2, Facts, RolesKept, MergesKept, InitsKept, UpdatesKept DEF ElectionOK
  <2>2. \A x \in Others(n) : merging'[n].step # "none" /\ merging[x].step # "none" =>
              node'[n].group # node[x].group
    BY <1>1, <1>2 DEF ElectionOK, GroupsApart, Others
  <2>3. QED
    BY <1>1, <1>2, <2>1, <2>2, OneMoves, Facts
<1>3. CASE /\ Quiet(n) /\ node[n].state \notin Electing
           /\ node' = [node EXCEPT ![n].state = "Election", ![n].coord = msg.from,
                                   ![n].group = msg.group, ![n].mergeSet = {}]
           /\ joining' = [joining EXCEPT ![n] =
                             [step |-> "joining", from |-> msg.from, group |-> msg.group]]
  <2>1. merging[n] = None
    BY <1>1, <1>3, Facts DEF Electing, ElectionOK, MergeOK
  <2>2. /\ \A x \in Others(n) : node'[x] = node[x] /\ joining'[x] = joining[x]
        /\ node'[n].state = "Election" /\ node'[n].mergeSet = {}
    BY <1>1, <1>3, Facts DEF TypesOK, NodesOK, NodeRecords, CallsOK, Others
  <2>3. RoleOK(n)'
    BY <2>2 DEF RoleOK
  <2>4. MergeOK(n)' /\ InitOK(n)' /\ merging'[n].step = "none"
    BY <1>1, <2>1 DEF MergeOK, InitOK, Synced, None
  <2>5. UpdateOK(n)'
    BY <1>1, <1>3 DEF ElectionOK, UpdateOK, Quiet
  <2>6. QED
    BY <1>1, <2>2, <2>3, <2>4, <2>5, OneMoves, Facts
<1>4. QED
  BY <1>2, <1>3 DEF Invitation, n

\* A node that joins has not formed another group meanwhile, or there is a lapse.
LEMMA JoinElection ==
    ASSUME TypesOK, ElectionOK, NEW n \in Nodes, Join(n), lapses' = {}, ~assertFailed'
    PROVE  ElectionOK'
<1> DEFINE j == joining[n]
<1>1. /\ UNCHANGED <<groups, merging, suspect, observers, llu, shared, call, committed, sending,
                 stamped>>
      /\ j # None /\ joining' = [joining EXCEPT ![n] = None]
      /\ node[n].state = "Election" /\ node[n].coord = j.from /\ node[n].group = j.group
  BY DEF Join, replicaVars, Lapse
<1>2. merging[n] = None /\ Quiet(n)
  BY <1>1, Facts DEF ElectionOK, MergeOK, UpdateOK, Master
<1>3. \A x \in Others(n) : joining'[x] = joining[x]
  BY <1>1 DEF TypesOK, CallsOK, Others
<1>4. CASE node' = [node EXCEPT ![n].state = "Reorganization", ![n].timeout = TRUE]
  <2>1. /\ \A x \in Others(n) : node'[x] = node[x]
        /\ node'[n].state = "Reorganization" /\ node'[n].mergeSet = node[n].mergeSet
        /\ node'[n].coord = node[n].coord
    BY <1>4, Facts DEF TypesOK, NodesOK, NodeRecords, Others
  <2>2. RoleOK(n)'
    BY <2>1 DEF ElectionOK, RoleOK
  <2>3. MergeOK(n)' /\ InitOK(n)' /\ merging'[n].step = "none"
    BY <1>1, <1>2 DEF MergeOK, InitOK, Synced, None
  <2>4. UpdateOK(n)'
    BY <1>1, <1>2 DEF ElectionOK, UpdateOK, Quiet
  <2>5. QED
    BY <1>1, <1>3, <2>1, <2>2, <2>3, <2>4, OneMoves, Facts
<1>5. CASE node' = [node EXCEPT ![n] = Recovered(node[n], n)]
  BY <1>1, <1>2, <1>3, <1>5, OneRecovers DEF Quiet
<1>6. QED
  BY <1>4, <1>5 DEF Join

\* accept() keeps one coordinator for each generation.
LEMMA AcceptElection ==
    ASSUME TypesOK, ElectionOK, NEW msg \in mail, Accept(msg)
    PROVE  ElectionOK'
<1> DEFINE n == msg.to
<1>1. /\ UNCHANGED <<groups, joining, merging, suspect, observers, llu, shared, call, committed,
                     sending, stamped>>
      /\ n \in Nodes
  BY MailKinds DEF Accept, processVars, replicaVars, counts, history
<1>2. /\ \A x \in Others(n) : node'[x] = node[x]
      /\ node'[n].state = node[n].state /\ node'[n].coord = node[n].coord
      /\ node'[n].generation = node[n].generation /\ node'[n].slave = node[n].slave
      /\ node'[n].group = node[n].group /\ node'[n].mergeSet = node[n].mergeSet
  BY <1>1, Facts DEF Accept, TypesOK, NodesOK, NodeRecords, Others
<1> HIDE DEF n
<1>3. RoleOK(n)'
  BY <1>1, <1>2, WonStays DEF ElectionOK, RoleOK
<1>4. MergeOK(n)'
  <2>1. \A group, g : Won(n, group, g) => Won(n, group, g)'
    BY <1>1, WonStays
  <2>2. (\E group \in 0..groups : Won(n, group, node[n].generation)) =>
           (\E group \in 0..groups : Won(n, group, node[n].generation))'
    BY <1>1, <1>2, <2>1
  <2>3. QED
    BY <1>1, <1>2, <2>2 DEF ElectionOK, MergeOK, Synced
<1>5. InitOK(n)'
  BY <1>1, InitsKept DEF ElectionOK
<1>6. UpdateOK(n)'
  BY <1>1, <1>2 DEF ElectionOK, UpdateOK, Quiet, Master
<1>7. \A x \in Others(n) : merging'[n].step # "none" /\ merging[x].step # "none" =>
              node'[n].group # node[x].group
  BY <1>1, <1>2 DEF ElectionOK, GroupsApart, Others
<1>8. QED
  BY <1>1, <1>2, <1>3, <1>4, <1>5, <1>6, <1>7, OneMoves, Facts

\* mergeContinue() finds its node as merge() left it.
LEMMA MergeContinueElection ==
    ASSUME TypesOK, ElectionOK, NEW n \in Nodes, MergeContinue(n), ~assertFailed'
    PROVE  ElectionOK'
<1> DEFINE m == [step |-> "sync", group |-> node[n].group, members |-> node[n].up]
<1>1. /\ UNCHANGED <<groups, joining, suspect, observers, llu, shared, call, committed, sending,
                     stamped>>
      /\ merging[n].step = "pending" /\ node[n].state = "Election"
  BY DEF MergeContinue, replicaVars, counts, history
<1>2. Quiet(n)
  BY <1>1 DEF ElectionOK, UpdateOK, Master
<1>3. CASE GiveUp(n)
  <2>1. merging'[n] = None /\ \A x \in Others(n) : merging'[x] = merging[x]
    BY <1>3 DEF GiveUp, TypesOK, MergingsOK, Others
  <2>2. QED
    BY <1>1, <1>2, <1>3, <2>1, OneRecovers DEF GiveUp, Quiet
<1>4. CASE /\ node' = [node EXCEPT ![n].state = "Reorganization"]
           /\ merging' = [merging EXCEPT ![n] = m]
  <2>1. /\ \A x \in Others(n) : node'[x] = node[x] /\ merging'[x] = merging[x]
        /\ node'[n].state = "Reorganization" /\ node'[n].mergeSet = node[n].mergeSet
        /\ node'[n].coord = node[n].coord /\ node'[n].group = node[n].group
        /\ node'[n].generation = node[n].generation
        /\ merging'[n] = m
    BY <1>4, Facts DEF TypesOK, NodesOK, NodeRecords, MergingsOK, Others
  <2>2. m.step = "sync" /\ m.group = node[n].group
    OBVIOUS
  <2> HIDE DEF m
  <2>3. RoleOK(n)'
    BY <2>1 DEF ElectionOK, RoleOK
  <2>4. MergeOK(n)'
    <3>1. \A group, g : Won(n, group, g) => Won(n, group, g)'
      BY <1>1, WonStays
    <3>2. (\E group \in 0..groups : Won(n, group, node[n].generation)) =>
             (\E group \in 0..groups : Won(n, group, node[n].generation))'
      BY <1>1, <2>1, <3>1
    <3>3. /\ node[n].coord = n /\ ~suspect[n]
          /\ joining[n] # None => joining[n].group # node[n].group
          /\ node[n].generation = -1 \/ \E group \in 0..groups : Won(n, group, node[n].generation)
          /\ \A x \in stamped : x.group # node[n].group
      BY <1>1 DEF ElectionOK, MergeOK, Synced
    <3>4. QED
      BY <1>1, <2>1, <2>2, <3>2, <3>3 DEF MergeOK, Synced
  <2>5. InitOK(n)'
    BY <2>1, <2>2 DEF InitOK, Synced
  <2>6. UpdateOK(n)'
    BY <1>1, <1>2 DEF ElectionOK, UpdateOK, Quiet
  <2>7. \A x \in Others(n) : merging[x].step # "none" => node'[n].group # node[x].group
    BY <1>1, <2>1 DEF ElectionOK, GroupsApart, Others
  <2>8. QED
    BY <1>1, <2>1, <2>3, <2>4, <2>5, <2>6, <2>7, OneMoves, Facts
<1>5. QED
  BY <1>3, <1>4 DEF MergeContinue

\* A new stamp, in a generation that its node has not had and for a group that has no other.
LEMMA StampsGrow ==
    ASSUME StampsOK, TypesOK, NEW s \in Nodes, NEW n \in Nodes, NEW group, NEW g \in Nat,
           stamped' = stamped \cup
              {[id |-> s, coord |-> n, group |-> group, generation |-> g]},
           llu'[s][1] = g, llu[s][1] < g, \A x \in Nodes \ {s} : llu'[x] = llu[x],
           \A x \in stamped : x.group = group => x.coord = n /\ x.generation = g
    PROVE  StampsOK'
<1> DEFINE y == [id |-> s, coord |-> n, group |-> group, generation |-> g]
<1>1. y.id = s /\ y.coord = n /\ y.group = group /\ y.generation = g
  OBVIOUS
<1>2. stamped' = stamped \cup {y}
  OBVIOUS
<1> HIDE DEF y
<1>3. ASSUME NEW x \in stamped
      PROVE  /\ x.generation <= llu'[x.id][1]
             /\ x.id = s => x.generation < g
  <2>1. x.id \in Nodes /\ x.generation \in Nat /\ x.generation <= llu[x.id][1]
    BY DEF TypesOK, StampedOK, StampsOK
  <2>2. llu[x.id][1] \in Nat
    BY <2>1, Facts
  <2>3. QED
    BY <2>1, <2>2
<1>4. \A x \in stamped' : x.generation <= llu'[x.id][1]
  BY <1>1, <1>2, <1>3
<1>5. \A x \in stamped : x.id = s => x.generation # g
  <2>1. \A x \in stamped : x.generation \in Nat
    BY DEF TypesOK, StampedOK
  <2>2. QED
    BY <1>3, <2>1
<1>6. \A x, z \in stamped' : x.id = z.id /\ x.generation = z.generation => x = z
  BY <1>1, <1>2, <1>5 DEF StampsOK
<1>7. \A x, z \in stamped' : x.group = z.group => x.coord = z.coord /\ x.generation = z.generation
  BY <1>1, <1>2 DEF StampsOK
<1>8. QED
  BY <1>4, <1>6, <1>7 DEF StampsOK

\* initMaster(): the generation is new to the coordinator, and the first of its group.
LEMMA SyncElection ==
    ASSUME TypesOK, ElectionOK, NEW n \in Nodes, Sync(n), lapses' = {}
    PROVE  ElectionOK'
<1> DEFINE members == merging[n].members
           best == Best(members)
           stamp == NextStamp(best.llu)
           group == merging[n].group
           m == [step |-> "init", group |-> group, members |-> members, todo |-> members,
                 stamp |-> stamp, content |-> topics'[n]]
<1>1. /\ UNCHANGED <<groups, joining, suspect, call, committed, sending>>
      /\ merging[n].step = "sync"
  BY DEF Sync, Fault
<1>2. /\ node[n].state = "Reorganization" /\ node[n].coord = n /\ group = node[n].group
      /\ \A x \in stamped : x.group # group
      /\ Quiet(n)
  BY <1>1 DEF ElectionOK, MergeOK, UpdateOK, Synced, Master
<1>3. CASE GiveUp(n) /\ UNCHANGED <<shared, llu, stamped, lapses, observers>>
  <2>1. merging'[n] = None /\ \A x \in Others(n) : merging'[x] = merging[x]
    BY <1>3 DEF GiveUp, TypesOK, MergingsOK, Others
  <2>2. QED
    BY <1>1, <1>2, <1>3, <2>1, OneRecovers DEF GiveUp, Quiet
<1>4. ASSUME llu' = [llu EXCEPT ![n] = stamp],
             shared' = [shared EXCEPT ![n] = topics'[n]],
             node' = [node EXCEPT ![n].max = Max({@, Cardinality(members) + 1})],
             stamped' = stamped \cup {Stamp(n, n, stamp)},
             observers' = [observers EXCEPT ![n] = {}],
             merging' = [merging EXCEPT ![n] = m],
             lapses' = lapses
                \cup Lapse("reused", best.llu[1] < llu[n][1])
                \cup Lapse("deserted", CountedOn(n, n) \/ \E a \in members : llu[a.id] # a.llu)
      PROVE  ElectionOK'
  <2>1. /\ best.llu[1] >= llu[n][1] /\ \A a \in members : llu[a.id] = a.llu
        /\ \A c \in Others(n) : merging[c].step = "init" => n \notin Ids(merging[c].todo)
    <3>1. /\ ~(best.llu[1] < llu[n][1]) /\ ~CountedOn(n, n)
          /\ ~(\E a \in members : llu[a.id] # a.llu)
      BY <1>4 DEF Lapse
    <3>2. best.llu[1] \in Nat /\ llu[n][1] \in Nat
      BY <1>1, BestOf, Facts
    <3> HIDE DEF best, members
    <3>3. QED
      BY <3>1, <3>2 DEF CountedOn
  <2>2. stamp \in Stamps /\ stamp[1] \in Nat /\ stamp[1] > llu[n][1]
        /\ \A a \in members : a.llu[1] < stamp[1]
    <3>1. /\ best.llu[1] \in Nat /\ stamp \in Stamps /\ stamp[1] = best.llu[1] + 1
          /\ \A a \in members : a.llu[1] \in Nat /\ a.llu[1] <= best.llu[1]
      BY <1>1, BestOf
    <3> HIDE DEF best, members, stamp
    <3>2. QED
      BY <2>1, <3>1, Facts
  <2>3. /\ Stamp(n, n, stamp) = [id |-> n, coord |-> n, group |-> group, generation |-> stamp[1]]
        /\ m.step = "init" /\ m.group = group /\ m.members = members /\ m.todo = members
        /\ m.stamp = stamp /\ m.content = topics'[n]
    BY DEF Stamp
  <2> HIDE DEF members, best, stamp, group, m
  <2>4. /\ \A x \in Others(n) :
              /\ node'[x] = node[x] /\ llu'[x] = llu[x] /\ shared'[x] = shared[x]
              /\ merging'[x] = merging[x] /\ observers'[x] = observers[x]
        /\ node'[n].state = node[n].state /\ node'[n].coord = node[n].coord
        /\ node'[n].group = node[n].group /\ node'[n].mergeSet = node[n].mergeSet
        /\ node'[n].generation = node[n].generation
        /\ llu'[n] = stamp /\ shared'[n] = topics'[n]
        /\ observers'[n] = {} /\ merging'[n] = m
    BY <1>4, Facts DEF TypesOK, NodesOK, NodeRecords, DataOK, MergingsOK, Others
  <2>5. StampsOK'
    <3>1. \A x \in Nodes \ {n} : llu'[x] = llu[x]
      BY <2>4 DEF Others
    <3>2. PICK g \in Nat : g = stamp[1]
      BY <2>2
    <3>3. /\ stamped' = stamped \cup
                 {[id |-> n, coord |-> n, group |-> group, generation |-> g]}
          /\ llu'[n][1] = g /\ llu[n][1] < g
      BY <1>4, <2>2, <2>3, <2>4, <3>2, Facts
    <3>4. StampsOK /\ \A x \in stamped : x.group = group => x.coord = n /\ x.generation = g
      BY <1>2 DEF ElectionOK
    <3>5. QED
      BY <3>1, <3>3, <3>4, StampsGrow
  <2>6. GroupsApart'
    BY <1>1, <2>4 DEF ElectionOK, GroupsApart, Others
  <2>7. stamped \subseteq stamped' /\ \A y \in stamped' \ stamped : y.group = group
    BY <1>4, <2>3
  <2>8. ASSUME NEW x \in Others(n)
        PROVE  RoleOK(x)' /\ MergeOK(x)' /\ InitOK(x)' /\ UpdateOK(x)'
    <3>1. x \in Nodes /\ x # n
      BY DEF Others
    <3>2. RoleOK(x)'
      BY <2>4, <2>7, <3>1, RolesKept DEF ElectionOK
    <3>3. MergeOK(x)'
      <4>1. merging[x].step = "none" \/ group # node[x].group
        BY <1>1, <1>2, <3>1 DEF ElectionOK, GroupsApart
      <4>2. QED
        BY <1>1, <2>4, <2>7, <3>1, <4>1, MergesKept, Facts DEF ElectionOK
    <3>4. InitOK(x)'
      <4>1. ASSUME merging[x].step = "init", NEW a \in merging[x].todo
            PROVE  llu'[a.id] = llu[a.id]
        <5>1. a.id # n
          BY <2>1, <3>1, <4>1 DEF Ids
        <5>2. a.id \in Nodes
          BY <3>1, <4>1, MergingKinds DEF TypesOK, Inits, Members
        <5>3. QED
          BY <2>4, <5>1, <5>2 DEF Others
      <4>2. QED
        BY <2>4, <2>7, <3>1, <4>1, InitsKept DEF ElectionOK
    <3>5. UpdateOK(x)'
      BY <1>1, <2>4, <3>1, UpdatesKept DEF ElectionOK
    <3>6. QED
      BY <3>2, <3>3, <3>4, <3>5
  <2>9. RoleOK(n)'
    BY <1>2, <2>4 DEF ElectionOK, RoleOK
  <2>10. MergeOK(n)'
    <3>1. \A g, h : Won(n, g, h) => Won(n, g, h)'
      BY <2>7, WonStays
    <3>2. (\E g \in 0..groups : Won(n, g, node[n].generation)) =>
             (\E g \in 0..groups : Won(n, g, node[n].generation))'
      BY <1>1, <2>4, <3>1
    <3>3. QED
      BY <1>1, <1>2, <2>3, <2>4, <3>2 DEF ElectionOK, MergeOK, Synced
  <2>11. InitOK(n)'
    <3>1. Stamped(n, n, merging[n].group, llu[n][1])'
      BY <1>4, <2>3, <2>4 DEF Stamped
    <3>2. \A a \in members : a.id # n => llu'[a.id] = a.llu /\ a.llu[1] < llu'[n][1]
      <4>1. \A a \in members : a.id \in Nodes
        BY <1>1, BestOf DEF Members, members
      <4>2. QED
        BY <2>1, <2>2, <2>4, <4>1 DEF Others
    <3>3. QED
      BY <2>3, <2>4, <3>1, <3>2 DEF InitOK, Synced
  <2>12. UpdateOK(n)'
    BY <1>1, <1>2, <2>4 DEF ElectionOK, UpdateOK, Quiet
  <2>13. QED
    BY <2>5, <2>6, <2>8, <2>9, <2>10, <2>11, <2>12 DEF ElectionOK, Others
<1>5. QED
  <2>1. \/ GiveUp(n) /\ UNCHANGED <<shared, llu, stamped, lapses, observers>>
        \/ /\ llu' = [llu EXCEPT ![n] = stamp]
           /\ shared' = [shared EXCEPT ![n] = topics'[n]]
           /\ node' = [node EXCEPT ![n].max = Max({@, Cardinality(members) + 1})]
           /\ stamped' = stamped \cup {Stamp(n, n, stamp)}
           /\ observers' = [observers EXCEPT ![n] = {}]
           /\ merging' = [merging EXCEPT ![n] = m]
           /\ lapses' = lapses
                \cup Lapse("reused", best.llu[1] < llu[n][1])
                \cup Lapse("deserted", CountedOn(n, n) \/ \E a \in members : llu[a.id] # a.llu)
    BY DEF Sync
  <2>2. QED
    BY <1>3, <1>4, <2>1

\* A member that is initialised belongs to the coordinator, and has not had the generation.
LEMMA InitializedFacts ==
    ASSUME TypesOK, ElectionOK, NEW n \in Nodes, merging[n].step = "init",
           NEW a \in merging[n].todo, NEW s \in Nodes, s = a.id,
           node[s].state = "Reorganization", node[s].coord # s, Initialized(s, n), lapses' = {}
    PROVE  /\ s # n /\ node[s].coord = n /\ node[s].group = merging[n].group
           /\ merging[s] = None /\ Quiet(s)
           /\ llu'[s] = llu[n] /\ shared'[s] = shared[n] /\ llu[s][1] < llu[n][1]
           /\ \A x \in Others(s) : llu'[x] = llu[x] /\ shared'[x] = shared[x]
           /\ stamped' = stamped \cup {Stamp(s, n, llu[n])}
           /\ stamped \subseteq stamped' /\ \A y \in stamped' \ stamped : y.group = merging[n].group
           /\ \A group, g : group = merging[n].group /\ g = llu[n][1] => Stamped(s, n, group, g)'
           /\ \A c \in Others(n) : merging[c].step = "init" => s \notin Ids(merging[c].todo)
           /\ StampsOK'
<1> DEFINE group == merging[n].group
<1>1. /\ node[n].coord = n /\ node[n].group = group
      /\ Stamped(n, n, group, llu[n][1])
      /\ a.id # n => llu[a.id] = a.llu /\ a.llu[1] < llu[n][1]
      /\ merging[n].stamp = llu[n] /\ merging[n].content = shared[n]
  BY DEF ElectionOK, MergeOK, InitOK, Synced
<1>2. s # n
  BY <1>1
<1>3. node[s].coord = n /\ node[s].group = group /\ ~CountedOn(s, n)
  BY DEF Initialized, Lapse
<1>4. merging[s] = None /\ Quiet(s)
  BY <1>2, <1>3, Facts DEF ElectionOK, MergeOK, UpdateOK, Master
<1>5. /\ llu'[s] = llu[n] /\ shared'[s] = shared[n]
      /\ \A x \in Others(s) : llu'[x] = llu[x] /\ shared'[x] = shared[x]
      /\ stamped' = stamped \cup {Stamp(s, n, llu[n])}
  BY <1>1 DEF Initialized, TypesOK, DataOK, Others
<1>6. Stamp(s, n, llu[n]) = [id |-> s, coord |-> n, group |-> group, generation |-> llu[n][1]]
  BY DEF Stamp
<1>7. stamped \subseteq stamped' /\ \A y \in stamped' \ stamped : y.group = group
  BY <1>5, <1>6
<1>8. \A z, g : z = group /\ g = llu[n][1] => Stamped(s, n, z, g)'
  BY <1>5, <1>6 DEF Stamped
<1>9. \A c \in Others(n) : merging[c].step = "init" => s \notin Ids(merging[c].todo)
  BY <1>3 DEF CountedOn
<1> HIDE DEF group
<1>10. StampsOK'
  <2>1. PICK g \in Nat : g = llu[n][1]
    BY Facts
  <2>2. \A x \in stamped : x.group = group => x.coord = n /\ x.generation = g
    <3> DEFINE y == [id |-> n, coord |-> n, group |-> group, generation |-> g]
    <3>1. y \in stamped /\ y.group = group /\ y.coord = n /\ y.generation = g
      BY <1>1, <2>1 DEF Stamped
    <3> HIDE DEF y
    <3>2. QED
      BY <3>1 DEF ElectionOK, StampsOK
  <2>3. /\ stamped' = stamped \cup {[id |-> s, coord |-> n, group |-> group, generation |-> g]}
        /\ llu'[s][1] = g /\ llu[s][1] < g /\ \A x \in Nodes \ {s} : llu'[x] = llu[x]
        /\ StampsOK
    BY <1>1, <1>2, <1>5, <1>6, <2>1 DEF Others, ElectionOK
  <2>4. QED
    BY <2>1, <2>2, <2>3, StampsGrow, SMTT(30)
<1>11. QED
  BY <1>1, <1>2, <1>3, <1>4, <1>5, <1>7, <1>8, <1>9, <1>10 DEF group

\* ReplicaObserverI::init on a member keeps one coordinator for each generation.
LEMMA InitSlaveElection ==
    ASSUME TypesOK, TypesOK', ElectionOK, NEW n \in Nodes, InitSlave(n), lapses' = {}
    PROVE  ElectionOK'
<1>k. PICK k : k = merging[n]
  OBVIOUS
<1>a. PICK a : a = NextOf(k.todo)
  OBVIOUS
<1>s. PICK s : s = a.id
  OBVIOUS
<1> DEFINE left == k.todo \ {a}
           m == IF left # {} THEN [k EXCEPT !.todo = left]
                ELSE [k EXCEPT !.step = "ready", !.todo = k.members]
<1>1. /\ UNCHANGED <<groups, joining, suspect, call, committed, sending>>
      /\ k.step = "init"
  BY <1>k DEF InitSlave, Fault
<1>2. /\ a \in k.todo /\ s \in Nodes /\ k.todo \subseteq k.members /\ k \in Inits
      /\ Distinct(k.members) /\ k.members \in SUBSET Members /\ Cardinality(k.members) >= Majority
  <2>1. k.todo # {}
    BY <1>1, <1>k DEF TypesOK, MergingsOK, MergingOK
  <2>2. QED
    BY <1>1, <1>k, <1>a, <1>s, <2>1, NextOfTodo
<1>3. /\ node[n].state = "Reorganization" /\ node[n].coord = n /\ k.group = node[n].group
      /\ Quiet(n)
  BY <1>1, <1>k DEF ElectionOK, MergeOK, UpdateOK, Synced, Master
<1>4. ASSUME GiveUp(n), UNCHANGED <<shared, llu, stamped, observers>>
      PROVE  ElectionOK'
  <2>1. merging'[n] = None /\ \A x \in Others(n) : merging'[x] = merging[x]
    BY <1>4 DEF GiveUp, TypesOK, MergingsOK, Others
  <2>2. QED
    BY <1>1, <1>3, <1>4, <2>1, OneRecovers DEF GiveUp, Quiet
<1>5. ASSUME node[s].state = "Reorganization", node[s].coord # s, Initialized(s, n),
             \/ /\ node' = node /\ merging' = [merging EXCEPT ![n] = m]
                /\ observers' = [observers EXCEPT ![n] = @ \cup {[id |-> s, inc |-> a.inc]},
                                                  ![s] = {}]
             \/ GiveUp(n) /\ observers' = [observers EXCEPT ![s] = {}]
      PROVE  ElectionOK'
  <2>1. /\ s # n /\ node[s].coord = n /\ merging[s] = None /\ Quiet(s)
        /\ llu'[s] = llu[n] /\ shared'[s] = shared[n] /\ llu[s][1] < llu[n][1]
        /\ \A x \in Others(s) : llu'[x] = llu[x] /\ shared'[x] = shared[x]
        /\ stamped \subseteq stamped' /\ \A y \in stamped' \ stamped : y.group = k.group
        /\ \A group, g : group = k.group /\ g = llu[n][1] => Stamped(s, n, group, g)'
        /\ \A c \in Others(n) : merging[c].step = "init" => s \notin Ids(merging[c].todo)
        /\ StampsOK'
    BY <1>1, <1>2, <1>5, <1>k, <1>s, InitializedFacts
  <2> HIDE DEF m
  <2>2. /\ \A x \in Others(n) : node'[x] = node[x] /\ merging'[x] = merging[x]
        /\ \A x \in Others(n) : x # s => observers'[x] = observers[x]
        /\ observers'[s] = {}
        /\ \A o \in observers'[n] : o \in observers[n] \/ o.id = s
    BY <1>2, <1>5, <2>1, Facts
       DEF GiveUp, TypesOK, NodesOK, MergingsOK, DataOK, Others
  <2>3. GroupsApart'
    <3>1. CASE GiveUp(n)
      <4>1. merging'[n].step = "none"
        BY <3>1, Facts DEF GiveUp, TypesOK, MergingsOK, None
      <4>2. QED
        BY <2>2, <4>1 DEF ElectionOK, GroupsApart, Others
    <3>2. CASE node' = node
      BY <1>1, <1>k, <2>2, <3>2 DEF ElectionOK, GroupsApart, Others
    <3>3. QED
      BY <1>5, <3>1, <3>2
  <2>4. ASSUME NEW x \in Nodes, x # n, x # s
        PROVE  RoleOK(x)' /\ MergeOK(x)' /\ InitOK(x)' /\ UpdateOK(x)'
    <3>1. /\ node'[x] = node[x] /\ merging'[x] = merging[x] /\ observers'[x] = observers[x]
          /\ llu'[x] = llu[x] /\ shared'[x] = shared[x] /\ joining'[x] = joining[x]
          /\ suspect'[x] = suspect[x] /\ call'[x] = call[x]
          /\ committed'[x] = committed[x] /\ sending'[x] = sending[x]
          /\ groups' \in Nat /\ groups' >= groups
      BY <1>1, <2>1, <2>2, <2>4, Facts DEF Others
    <3>2. RoleOK(x)'
      BY <2>1, <3>1, RolesKept DEF ElectionOK
    <3>3. MergeOK(x)'
      <4>1. merging[x].step = "none" \/ k.group # node[x].group
        BY <1>1, <1>3, <1>k, <2>4 DEF ElectionOK, GroupsApart
      <4>2. QED
        BY <2>1, <3>1, <4>1, MergesKept DEF ElectionOK
    <3>4. InitOK(x)'
      <4>1. ASSUME merging[x].step = "init", NEW b \in merging[x].todo
            PROVE  llu'[b.id] = llu[b.id]
        <5>1. b.id # s
          BY <2>1, <2>4, <4>1 DEF Ids, Others
        <5>2. b.id \in Nodes
          BY <4>1, MergingKinds DEF TypesOK, Inits, Members
        <5>3. QED
          BY <2>1, <5>1, <5>2 DEF Others
      <4>2. QED
        BY <2>1, <3>1, <4>1, InitsKept DEF ElectionOK
    <3>5. UpdateOK(x)'
      BY <3>1, UpdatesKept DEF ElectionOK
    <3>6. QED
      BY <3>2, <3>3, <3>4, <3>5
  <2>5. RoleOK(s)' /\ MergeOK(s)' /\ InitOK(s)' /\ UpdateOK(s)'
    <3>1. node'[s] = node[s] /\ merging'[s] = None /\ observers'[s] = {} /\ s \in Others(n)
      BY <1>2, <2>1, <2>2 DEF Others
    <3>2. RoleOK(s)'
      BY <1>2, <1>5, <2>1, <3>1 DEF ElectionOK, RoleOK
    <3>3. MergeOK(s)' /\ InitOK(s)'
      BY <3>1 DEF MergeOK, InitOK, Synced, None
    <3>4. UpdateOK(s)'
      BY <1>1, <1>2, <2>1, <3>1 DEF ElectionOK, UpdateOK, Quiet
    <3>5. QED
      BY <3>2, <3>3, <3>4
  <2>6. UpdateOK(n)'
    <3>1. call'[n] # "started" /\ committed'[n] = {} /\ sending'[n] = None
      BY <1>1, <1>3 DEF Quiet
    <3>2. \A o \in observers'[n] : o.id # n
      BY <2>1, <2>2 DEF ElectionOK, UpdateOK
    <3>3. QED
      BY <3>1, <3>2 DEF UpdateOK, Quiet
  <2>7. CASE GiveUp(n)
    <3> DEFINE r == Recovered(node[n], n)
    <3>1. /\ r.state = "Inactive" /\ r.coord = n /\ r.generation = -1 /\ r.mergeSet = {}
          /\ node'[n] = r /\ merging'[n] = None
      BY <2>7, Facts, RecoveredType DEF GiveUp, TypesOK, NodesOK, MergingsOK
    <3> HIDE DEF r
    <3>2. RoleOK(n)' /\ MergeOK(n)' /\ InitOK(n)'
      BY <3>1 DEF RoleOK, MergeOK, InitOK, Synced, None
    <3>3. QED
      BY <2>1, <2>3, <2>4, <2>5, <2>6, <3>2 DEF ElectionOK
  <2>8. CASE node' = node /\ merging' = [merging EXCEPT ![n] = m]
    <3>1. /\ llu'[n] = llu[n] /\ shared'[n] = shared[n]
          /\ node'[n] = node[n] /\ merging'[n] = m
      BY <2>1, <2>8 DEF Others, TypesOK, MergingsOK
    <3>2. /\ m.group = k.group /\ m.members = k.members /\ m.stamp = k.stamp
          /\ m.content = k.content
          /\ \/ m.step = "init" /\ m.todo = left
             \/ m.step = "ready" /\ left = {}
      <4>1. CASE left # {}
        BY <1>1, <1>2, <4>1 DEF m, Inits
      <4>2. CASE left = {}
        BY <1>1, <1>2, <4>2 DEF m, Inits
      <4>3. QED
        BY <4>1, <4>2
    <3>3. RoleOK(n)'
      BY <2>1, <3>1, RolesKept DEF ElectionOK
    <3>4. MergeOK(n)'
      <4>1. \A g, h : Won(n, g, h) => Won(n, g, h)'
        BY <2>1, WonStays
      <4>2. (\E g \in 0..groups : Won(n, g, node[n].generation)) =>
               (\E g \in 0..groups : Won(n, g, node[n].generation))'
        BY <1>1, <3>1, <4>1
      <4>3. QED
        BY <1>1, <1>3, <1>k, <3>1, <3>2, <4>2 DEF ElectionOK, MergeOK, Synced
    <3>5. InitOK(n)'
      <4>1. /\ Stamped(n, n, k.group, llu[n][1]) /\ k.stamp = llu[n] /\ k.content = shared[n]
            /\ \A b \in k.members \ k.todo : b.id # n /\ Stamped(b.id, n, k.group, llu[n][1])
            /\ \A b \in k.todo : b.id # n => llu[b.id] = b.llu /\ b.llu[1] < llu[n][1]
        BY <1>1, <1>k DEF ElectionOK, InitOK, Synced
      <4>2. \A t, g, h : Stamped(t, n, g, h) => Stamped(t, n, g, h)'
        BY <2>1, WonStays
      <4>3. PICK g : g = llu[n][1]
        OBVIOUS
      <4>4. PICK group : group = k.group
        OBVIOUS
      <4>5. Stamped(n, n, group, g)' /\ Stamped(s, n, group, g)'
        <5>1. Stamped(n, n, group, g)'
          BY <4>1, <4>2, <4>3, <4>4
        <5>2. Stamped(s, n, group, g)'
          BY <2>1, <4>3, <4>4
        <5>3. QED
          BY <5>1, <5>2
      <4>6. ASSUME NEW b \in k.members, b \notin left
            PROVE  b.id # n /\ Stamped(b.id, n, group, g)'
        <5>1. CASE b = a
          BY <1>s, <2>1, <4>5, <5>1
        <5>2. CASE b \in k.members \ k.todo
          BY <4>1, <4>2, <4>3, <4>4, <5>2
        <5>3. QED
          BY <4>6, <5>1, <5>2
      <4>7. ASSUME NEW b \in left, b.id # n
            PROVE  llu'[b.id] = b.llu /\ b.llu[1] < llu'[n][1]
        <5>1. b.id # s /\ b.id \in Nodes
          BY <1>2, <1>s DEF Distinct, Members
        <5>2. llu'[b.id] = llu[b.id]
          BY <2>1, <5>1 DEF Others
        <5>3. QED
          BY <3>1, <4>1, <4>7, <5>2
      <4>8. CASE m.step = "init" /\ m.todo = left
        BY <3>1, <3>2, <4>1, <4>3, <4>4, <4>5, <4>6, <4>7, <4>8 DEF InitOK, Synced
      <4>9. CASE m.step = "ready" /\ left = {}
        <5>1. \A b \in k.members : b.id # n /\ Stamped(b.id, n, group, g)'
          BY <4>6, <4>9
        <5>2. Won(n, group, g)'
          <6> DEFINE A == {t \in Nodes : Stamped(t, n, group, g)'}
          <6>1. n \in A /\ Ids(k.members) \subseteq A /\ n \notin Ids(k.members)
            BY <1>2, <4>5, <5>1 DEF Ids, Members
          <6>2. A \in SUBSET Nodes
            OBVIOUS
          <6> HIDE DEF A
          <6>3. Cardinality(A) > Majority
            BY <1>2, <6>1, <6>2, QuorumCounts
          <6>4. QED
            BY <6>3 DEF Won, A
        <5>3. QED
          BY <3>1, <3>2, <4>1, <4>3, <4>4, <4>5, <4>9, <5>1, <5>2 DEF InitOK, Synced
      <4>10. QED
        BY <3>2, <4>8, <4>9
    <3>6. QED
      BY <2>1, <2>3, <2>4, <2>5, <2>6, <3>3, <3>4, <3>5 DEF ElectionOK
  <2>9. QED
    BY <1>5, <2>7, <2>8
<1>6. QED
  BY <1>4, <1>5, <1>k, <1>a, <1>s DEF InitSlave

\* ready(): the members called have been stamped with the coordinator's generation.
LEMMA ReadySlaveElection ==
    ASSUME TypesOK, ElectionOK, NEW n \in Nodes, ReadySlave(n), lapses' = {}
    PROVE  ElectionOK'
<1>1. PICK k : k = merging[n]
  OBVIOUS
<1>2. PICK a : a = NextOf(k.todo)
  OBVIOUS
<1>3. PICK s : s = a.id
  OBVIOUS
<1>4. /\ UNCHANGED <<groups, joining, suspect, observers, llu, shared, call, committed, sending,
                     stamped>>
      /\ k.step = "ready" /\ k.todo # {}
  BY <1>1 DEF ReadySlave, Fault, replicaVars
<1>5. /\ a \in k.todo /\ s \in Nodes /\ k.todo \subseteq k.members /\ k \in Inits
  BY <1>1, <1>2, <1>3, <1>4, NextOfTodo
<1>6. /\ node[n].state = "Reorganization" /\ node[n].coord = n /\ k.group = node[n].group
      /\ Quiet(n)
  BY <1>1, <1>4 DEF ElectionOK, MergeOK, UpdateOK, Synced, Master
<1>7. /\ s # n /\ Stamped(s, n, k.group, llu[n][1]) /\ Won(n, k.group, llu[n][1])
      /\ k.stamp = llu[n]
  BY <1>1, <1>3, <1>4, <1>5 DEF ElectionOK, InitOK, Synced
<1>8. ASSUME NEW r \in {node[s], Readied(s, n)}, node'[s] = r,
             r # node[s] => llu[s] = llu[n], merging'[s] = merging[s]
      PROVE  RoleOK(s)' /\ MergeOK(s)' /\ InitOK(s)' /\ UpdateOK(s)'
             /\ (merging[s].step # "none" => r = node[s])
  <2>1. CASE r = node[s]
    BY <1>4, <1>5, <1>8, <2>1, Facts, RolesKept, MergesKept, InitsKept, UpdatesKept DEF ElectionOK
  <2>2. CASE r # node[s]
    <3>1. /\ node[s].state = "Reorganization" /\ node[s].group = k.group /\ node[s].coord = n
          /\ r.state = "Normal" /\ r.slave = TRUE /\ r.generation = llu[n][1]
          /\ r.group = node[s].group /\ r.coord = n /\ r.mergeSet = node[s].mergeSet
      <4>1. r = Readied(s, n)
        BY <1>8, <2>2
      <4>2. s \in Nodes /\ k = merging[n] /\ TypesOK /\ n \in Nodes /\ merging[n].step = "ready"
        BY <1>1, <1>4, <1>5
      <4>3. LET q == Readied(s, n) IN
            /\ q.group = node[s].group /\ q.coord = node[s].coord /\ q.mergeSet = node[s].mergeSet
            /\ \/ q = node[s]
               \/ /\ node[s].state = "Reorganization" /\ node[s].group = merging[n].group
                  /\ node[s].coord = n
                  /\ q.state = "Normal" /\ q.slave = TRUE /\ q.generation = k.stamp[1]
        BY <4>2, ReadiedType, ZenonT(60)
      <4>4. QED
        BY <1>7, <2>2, <4>1, <4>2, <4>3
    <3>2. merging[s] = None /\ Quiet(s)
      BY <1>5, <1>7, <3>1, Facts DEF ElectionOK, MergeOK, UpdateOK, Master
    <3>3. MergeOK(s)' /\ InitOK(s)'
      BY <1>8, <3>2 DEF MergeOK, InitOK, Synced, None
    <3>4. UpdateOK(s)'
      BY <1>4, <1>5, <3>2 DEF ElectionOK, UpdateOK, Quiet
    <3>5. RoleOK(s)'
      <4>1. PICK g : g = llu[n][1]
        OBVIOUS
      <4>2. PICK group : group = k.group
        OBVIOUS
      <4>3. Stamped(s, n, group, g)' /\ Won(n, group, g)'
        BY <1>4, <1>7, <4>1, <4>2, WonStays
      <4>4. /\ node'[s].state = "Normal" /\ node'[s].slave = TRUE /\ node'[s].generation = g
            /\ node'[s].group = group /\ node'[s].coord = n /\ node'[s].mergeSet = {}
            /\ llu'[s][1] = g
        BY <1>4, <1>5, <1>7, <1>8, <2>2, <3>1, <4>1, <4>2 DEF ElectionOK, RoleOK
      <4>5. QED
        BY <1>7, <4>3, <4>4 DEF RoleOK
    <3>6. QED
      BY <3>2, <3>3, <3>4, <3>5 DEF None
  <2>3. QED
    BY <2>1, <2>2
<1>9. ASSUME NEW x \in Nodes, x # n, x # s, node'[x] = node[x], merging'[x] = merging[x]
      PROVE  RoleOK(x)' /\ MergeOK(x)' /\ InitOK(x)' /\ UpdateOK(x)'
  BY <1>4, <1>9, Facts, RolesKept, MergesKept, InitsKept, UpdatesKept DEF ElectionOK
<1>10. StampsOK'
  BY <1>4, StampsKept, Facts DEF ElectionOK
<1>11. CASE /\ node' = [node EXCEPT ![s] = Readied(s, n)]
            /\ node'[s] # node[s] => llu[s] = llu[n]
            /\ merging' = [merging EXCEPT ![n].todo = @ \ {a}]
  <2>1. /\ node'[s] = Readied(s, n) /\ \A x \in Others(s) : node'[x] = node[x]
        /\ \A x \in Others(n) : merging'[x] = merging[x]
        /\ merging'[n] = [k EXCEPT !.todo = k.todo \ {a}]
    BY <1>1, <1>5, <1>11 DEF TypesOK, NodesOK, MergingsOK, Others
  <2>2. /\ merging'[n].step = "ready" /\ merging'[n].group = k.group
        /\ merging'[n].members = k.members /\ merging'[n].stamp = k.stamp
        /\ merging'[n].content = k.content
    BY <1>4, <1>5, <2>1 DEF Inits
  <2>3. node'[n] = node[n] /\ merging'[s] = merging[s]
    BY <1>5, <1>7, <2>1 DEF Others
  <2>4. RoleOK(s)' /\ MergeOK(s)' /\ InitOK(s)' /\ UpdateOK(s)'
        /\ (merging[s].step # "none" => node'[s] = node[s])
    BY <1>8, <1>11, <2>1, <2>3
  <2>5. RoleOK(n)' /\ UpdateOK(n)'
    BY <1>4, <2>3, RolesKept, UpdatesKept DEF ElectionOK
  <2>6. MergeOK(n)'
    <3>1. \A g, h : Won(n, g, h) => Won(n, g, h)'
      BY <1>4, WonStays
    <3>2. (\E g \in 0..groups : Won(n, g, node[n].generation)) =>
             (\E g \in 0..groups : Won(n, g, node[n].generation))'
      BY <1>4, <2>3, <3>1
    <3>3. QED
      BY <1>1, <1>4, <1>6, <2>2, <2>3, <3>2 DEF ElectionOK, MergeOK, Synced
  <2>7. InitOK(n)'
    <3>1. \A t, c, group, g : Stamped(t, c, group, g) => Stamped(t, c, group, g)'
      BY <1>4, WonStays
    <3>2. \A c, group, g : Won(c, group, g) => Won(c, group, g)'
      BY <1>4, WonStays
    <3>3. QED
      BY <1>1, <1>4, <2>2, <3>1, <3>2 DEF ElectionOK, InitOK, Synced
  <2>8. GroupsApart'
    <3>1. \A x \in Nodes : merging'[x].step # "none" =>
             merging[x].step # "none" /\ node'[x] = node[x]
      BY <1>1, <1>4, <2>1, <2>3, <2>4 DEF Others
    <3>2. QED
      BY <3>1 DEF ElectionOK, GroupsApart
  <2>9. QED
    BY <1>9, <1>10, <2>1, <2>4, <2>5, <2>6, <2>7, <2>8 DEF ElectionOK, Others
<1>12. ASSUME NEW r \in {node[s], Readied(s, n)}, r # node[s] => llu[s] = llu[n],
              node' = [node EXCEPT ![s] = r, ![n] = Recovered(node[n], n)],
              merging' = [merging EXCEPT ![n] = None]
       PROVE  ElectionOK'
  <2> DEFINE q == Recovered(node[n], n)
  <2>1. /\ q.state = "Inactive" /\ q.coord = n /\ q.generation = -1 /\ q.mergeSet = {}
    BY Facts, RecoveredType
  <2> HIDE DEF q
  <2>2. /\ node'[s] = r /\ node'[n] = q /\ merging'[n] = None
        /\ \A x \in Others(n) : merging'[x] = merging[x] /\ (x # s => node'[x] = node[x])
    BY <1>5, <1>7, <1>12 DEF TypesOK, NodesOK, MergingsOK, Others, q
  <2>3. merging'[s] = merging[s]
    BY <1>5, <1>7, <2>2 DEF Others
  <2>4. RoleOK(s)' /\ MergeOK(s)' /\ InitOK(s)' /\ UpdateOK(s)'
        /\ (merging[s].step # "none" => node'[s] = node[s])
    BY <1>8, <1>12, <2>2, <2>3
  <2>5. RoleOK(n)' /\ MergeOK(n)' /\ InitOK(n)'
    BY <2>1, <2>2 DEF RoleOK, MergeOK, InitOK, Synced, None
  <2>6. UpdateOK(n)'
    BY <1>4, <1>6 DEF ElectionOK, UpdateOK, Quiet
  <2>7. GroupsApart'
    <3>1. \A x \in Nodes : merging'[x].step # "none" =>
             merging[x].step # "none" /\ node'[x] = node[x]
      BY <2>2, <2>4 DEF Others, None
    <3>2. QED
      BY <3>1 DEF ElectionOK, GroupsApart
  <2>8. QED
    BY <1>9, <1>10, <2>2, <2>4, <2>5, <2>6, <2>7 DEF ElectionOK, Others
<1>13. QED
  <2>1. \/ /\ node' = [node EXCEPT ![s] = Readied(s, n)]
           /\ lapses' = lapses \cup Lapse("deserted", node'[s] # node[s] /\ llu[s] # k.stamp)
           /\ merging' = [merging EXCEPT ![n].todo = @ \ {a}]
        \/ /\ merging' = [merging EXCEPT ![n] = None]
           /\ \E r \in {node[s], Readied(s, n)} :
                /\ node' = [node EXCEPT ![s] = r, ![n] = Recovered(node[n], n)]
                /\ lapses' = lapses \cup Lapse("deserted", r # node[s] /\ llu[s] # k.stamp)
    BY <1>1, <1>2, <1>3 DEF ReadySlave
  <2>2. \A happens \in BOOLEAN : lapses' = lapses \cup Lapse("deserted", happens) => ~happens
    BY DEF Lapse
  <2>3. QED
    BY <1>7, <1>11, <1>12, <2>1, <2>2

\* The coordinator becomes the master of the generation.
LEMMA ReadyDoneElection ==
    ASSUME TypesOK, ElectionOK, NEW n \in Nodes, ReadyDone(n)
    PROVE  ElectionOK'
<1>1. /\ UNCHANGED <<groups, joining, suspect, observers, llu, shared, call, committed, sending,
                     stamped>>
      /\ merging[n].step = "ready" /\ merging' = [merging EXCEPT ![n] = None]
  BY DEF ReadyDone, replicaVars, counts, history
<1>2. /\ node[n].coord = n /\ merging[n].group = node[n].group /\ Quiet(n)
      /\ node[n].state = "Reorganization" /\ merging[n].stamp = llu[n]
  BY <1>1 DEF ElectionOK, MergeOK, InitOK, UpdateOK, Synced, Master
<1>3. /\ \A x \in Others(n) : node'[x] = node[x] /\ merging'[x] = merging[x]
      /\ node'[n].state = "Normal" /\ node'[n].slave = FALSE /\ node'[n].generation = llu[n][1]
      /\ node'[n].coord = n /\ node'[n].group = node[n].group
      /\ node'[n].mergeSet = node[n].mergeSet
      /\ merging'[n] = None
  BY <1>1, <1>2, Facts DEF ReadyDone, TypesOK, NodesOK, NodeRecords, MergingsOK, Others
<1>4. RoleOK(n)'
  <2>1. PICK g : g = llu[n][1]
    OBVIOUS
  <2>2. PICK group : group = node[n].group
    OBVIOUS
  <2>3. Stamped(n, n, group, g) /\ Won(n, group, g)
    BY <1>1, <1>2, <2>1, <2>2 DEF ElectionOK, InitOK, Synced
  <2>4. Stamped(n, n, group, g)' /\ Won(n, group, g)'
    BY <1>1, <2>3, WonStays
  <2>5. QED
    BY <1>1, <1>3, <2>1, <2>2, <2>4 DEF RoleOK
<1>5. MergeOK(n)' /\ InitOK(n)' /\ merging'[n].step = "none"
  BY <1>3 DEF MergeOK, InitOK, Synced, None
<1>6. UpdateOK(n)'
  BY <1>1, <1>2 DEF ElectionOK, UpdateOK, Quiet
<1>7. QED
  BY <1>1, <1>3, <1>4, <1>5, <1>6, OneMoves, Facts

\* Nodes on duty in the same generation follow the same coordinator in the same group.
LEMMA SameGeneration ==
    ASSUME TypesOK, ElectionOK, NEW m \in Nodes, NEW n \in Nodes,
           node[m].state = "Normal", node[n].state = "Normal",
           node[m].generation = node[n].generation
    PROVE  node[m].coord = node[n].coord /\ node[m].group = node[n].group
<1> DEFINE g == llu[m][1]
<1>1. /\ Won(node[m].coord, node[m].group, g) /\ Won(node[n].coord, node[n].group, g)
  BY DEF ElectionOK, RoleOK
<1>2. PICK s \in Nodes : /\ Stamped(s, node[m].coord, node[m].group, g)
                         /\ Stamped(s, node[n].coord, node[n].group, g)
  BY <1>1, WonMeet
<1> HIDE DEF g
<1> DEFINE x == [id |-> s, coord |-> node[m].coord, group |-> node[m].group, generation |-> g]
           y == [id |-> s, coord |-> node[n].coord, group |-> node[n].group, generation |-> g]
<1>3. x = y
  BY <1>2 DEF ElectionOK, StampsOK, Stamped
<1>4. QED
  BY <1>3

\* check() of the observers keeps one coordinator for each generation.
LEMMA CheckObserversElection ==
    ASSUME TypesOK, ReplicasOK, ElectionOK, NEW m \in Nodes, CheckObservers(m)
    PROVE  ElectionOK'
<1>1. UNCHANGED <<node, groups, joining, merging, suspect, llu, shared, committed, sending,
                  stamped>>
  BY DEF CheckObservers, processVars, history
<1>2. /\ observers'[m] \subseteq observers[m] /\ call'[m] # "started"
      /\ \A x \in Others(m) : observers'[x] = observers[x] /\ call'[x] = call[x]
  BY DEF CheckObservers, TypesOK, ReplicasOK, DataOK, Others
<1>3. UpdateOK(m)'
  BY <1>1, <1>2, UpdatesKept DEF ElectionOK
<1>4. RoleOK(m)' /\ MergeOK(m)' /\ InitOK(m)'
  BY <1>1, Facts, RolesKept, MergesKept, InitsKept DEF ElectionOK
<1>5. \A x \in Others(m) : merging'[m].step # "none" /\ merging[x].step # "none" =>
              node'[m].group # node[x].group
  BY <1>1 DEF ElectionOK, GroupsApart, Others
<1>6. QED
  BY <1>1, <1>2, <1>3, <1>4, <1>5, OneMoves, Facts

\* startUpdate() keeps one coordinator for each generation.
LEMMA UpdateStartElection ==
    ASSUME TypesOK, ReplicasOK, ElectionOK, NEW m \in Nodes, UpdateStart(m)
    PROVE  ElectionOK'
<1>1. UNCHANGED <<groups, joining, merging, suspect, observers, llu, shared, committed, sending,
                  stamped>>
  BY DEF UpdateStart, processVars, counts, history
<1>2. \A x \in Others(m) : call'[x] = call[x]
  BY DEF UpdateStart, ReplicasOK, Others
<1>3. CASE /\ Master(m) /\ Quiet(m) /\ call'[m] = "none"
           /\ node' = [node EXCEPT ![m] = Recovered(node[m], m)]
  <2>1. merging[m] = None
    BY <1>3, Facts DEF ElectionOK, MergeOK, Master
  <2>2. QED
    BY <1>1, <1>2, <1>3, <2>1, OneRecovers
<1>4. CASE UNCHANGED node /\ (Master(m) \/ call'[m] = "none")
  <2>1. UpdateOK(m)'
    <3>1. CASE Master(m)
      BY <1>1, <1>4, <3>1 DEF ElectionOK, UpdateOK, Master
    <3>2. CASE call'[m] = "none"
      BY <1>1, <1>4, <3>2, UpdatesKept DEF ElectionOK
    <3>3. QED
      BY <1>4, <3>1, <3>2
  <2>2. RoleOK(m)' /\ MergeOK(m)' /\ InitOK(m)'
    BY <1>1, <1>4, Facts, RolesKept, MergesKept, InitsKept DEF ElectionOK
  <2>3. \A x \in Others(m) : merging'[m].step # "none" /\ merging[x].step # "none" =>
              node'[m].group # node[x].group
    BY <1>1, <1>4 DEF ElectionOK, GroupsApart, Others
  <2>4. QED
    BY <1>1, <1>2, <1>4, <2>1, <2>2, <2>3, OneMoves, Facts
<1>5. QED
  BY <1>3, <1>4 DEF UpdateStart, ReplicasOK

\* A commit keeps one coordinator for each generation.
LEMMA UpdateCommitElection ==
    ASSUME TypesOK, ReplicasOK, ElectionOK, NEW m \in Nodes, UpdateCommit(m), lapses' = {}
    PROVE  ElectionOK'
<1> DEFINE stamp == <<llu[m][1], llu[m][2] + 1>>
<1>1. /\ UNCHANGED <<node, groups, joining, merging, suspect, observers, sending, stamped>>
      /\ call[m] = "started"
  BY DEF UpdateCommit, processVars
<1>2. Master(m)
  BY <1>1 DEF ElectionOK, UpdateOK, Quiet
<1>3. merging[m] = None
  BY <1>2, Facts DEF ElectionOK, MergeOK, Master
<1>4. \A c \in Others(m) : merging[c].step = "init" => m \notin Ids(merging[c].todo)
  BY DEF UpdateCommit, Lapse, CountedOn
<1>5. /\ \A x \in Others(m) : llu'[x] = llu[x] /\ committed'[x] = committed[x]
                              /\ shared'[x] = shared[x] /\ call'[x] = call[x]
      /\ shared'[m] = shared[m] \cup {updates + 1} /\ llu'[m] = stamp /\ stamp[1] = llu[m][1]
      /\ committed'[m] = committed[m] \cup {[id |-> updates + 1, llu |-> stamp]}
  BY DEF UpdateCommit, TypesOK, ReplicasOK, DataOK, VersionsOK, Others
<1> HIDE DEF stamp
<1>6. \A x \in Nodes : llu'[x][1] = llu[x][1] /\ shared[x] \subseteq shared'[x]
  BY <1>5 DEF Others
<1>7. StampsOK'
  BY <1>1, <1>6, StampsKept, Facts DEF ElectionOK
<1>8. GroupsApart'
  BY <1>1 DEF ElectionOK, GroupsApart
<1>9. ASSUME NEW x \in Nodes
      PROVE  RoleOK(x)' /\ MergeOK(x)' /\ InitOK(x)'
  <2>1. RoleOK(x)'
    BY <1>1, <1>6, RolesKept DEF ElectionOK
  <2>2. MergeOK(x)'
    BY <1>1, MergesKept, Facts DEF ElectionOK
  <2>3. InitOK(x)'
    <3>1. ASSUME merging[x].step = "init", NEW b \in merging[x].todo
          PROVE  llu'[b.id] = llu[b.id]
      <4>1. x # m
        BY <1>3, <3>1 DEF None
      <4>2. b.id # m
        BY <1>4, <3>1, <4>1 DEF Ids, Others
      <4>3. b.id \in Nodes
        BY <3>1, MergingKinds DEF TypesOK, Inits, Members
      <4>4. QED
        BY <1>5, <4>2, <4>3 DEF Others
    <3>2. Synced(x) => llu'[x] = llu[x] /\ shared'[x] = shared[x]
      BY <1>3, <1>5 DEF Synced, None, Others
    <3>3. QED
      BY <1>1, <3>1, <3>2, InitsKept DEF ElectionOK
  <2>4. QED
    BY <2>1, <2>2, <2>3
<1>10. ASSUME NEW x \in Others(m)
       PROVE  UpdateOK(x)'
  BY <1>1, <1>5, UpdatesKept DEF ElectionOK, Others
<1>11. UpdateOK(m)'
  <2>1. \A u \in committed'[m] : u.llu[1] = llu'[m][1] /\ u.id \in shared'[m]
    BY <1>5 DEF ElectionOK, UpdateOK
  <2>2. Master(m)'
    BY <1>1, <1>2 DEF Master
  <2>3. QED
    BY <1>1, <1>5, <2>1, <2>2 DEF ElectionOK, UpdateOK
<1>12. QED
  BY <1>7, <1>8, <1>9, <1>10, <1>11 DEF ElectionOK, Others

\* Taking an update to send keeps one coordinator for each generation.
LEMMA UpdateSendElection ==
    ASSUME TypesOK, ElectionOK, NEW m \in Nodes, UpdateSend(m)
    PROVE  ElectionOK'
<1>1. /\ UNCHANGED <<node, groups, joining, merging, suspect, observers, llu, shared, call,
                     stamped>>
      /\ sending[m] = None
  BY DEF UpdateSend, processVars, counts
<1>2. PICK u \in committed[m] :
         /\ committed' = [committed EXCEPT ![m] = @ \ {u}]
         /\ sending' = [sending EXCEPT ![m] =
                          [step |-> "sending", id |-> u.id, llu |-> u.llu, todo |-> observers[m]]]
  BY DEF UpdateSend
<1>3. /\ committed'[m] = committed[m] \ {u} /\ sending'[m].id = u.id /\ sending'[m].llu = u.llu
      /\ \A x \in Others(m) : committed'[x] = committed[x] /\ sending'[x] = sending[x]
  BY <1>2 DEF TypesOK, VersionsOK, Others
<1>4. UpdateOK(m)'
  <2>1. Master(m) /\ u.llu[1] = llu[m][1] /\ u.id \in shared[m]
    BY <1>2 DEF ElectionOK, UpdateOK, Quiet
  <2>2. QED
    BY <1>1, <1>3, <2>1 DEF ElectionOK, UpdateOK, Master
<1>5. RoleOK(m)' /\ MergeOK(m)' /\ InitOK(m)'
  BY <1>1, Facts, RolesKept, MergesKept, InitsKept DEF ElectionOK
<1>6. \A x \in Others(m) : merging'[m].step # "none" /\ merging[x].step # "none" =>
              node'[m].group # node[x].group
  BY <1>1 DEF ElectionOK, GroupsApart, Others
<1>7. QED
  BY <1>1, <1>3, <1>4, <1>5, <1>6, OneMoves, Facts

\* finishUpdate() keeps one coordinator for each generation.
LEMMA UpdateFinishElection ==
    ASSUME TypesOK, ElectionOK, NEW m \in Nodes, UpdateFinish(m)
    PROVE  ElectionOK'
<1>1. /\ UNCHANGED <<node, groups, joining, merging, suspect, observers, llu, shared, call,
                     committed, stamped>>
      /\ sending[m] # None /\ sending' = [sending EXCEPT ![m] = None]
  BY DEF UpdateFinish, processVars, counts
<1>2. sending'[m] = None /\ \A x \in Others(m) : sending'[x] = sending[x]
  BY <1>1 DEF TypesOK, VersionsOK, Others
<1>3. UpdateOK(m)'
  BY <1>1, <1>2 DEF ElectionOK, UpdateOK, Quiet, Master
<1>4. RoleOK(m)' /\ MergeOK(m)' /\ InitOK(m)'
  BY <1>1, Facts, RolesKept, MergesKept, InitsKept DEF ElectionOK
<1>5. \A x \in Others(m) : merging'[m].step # "none" /\ merging[x].step # "none" =>
              node'[m].group # node[x].group
  BY <1>1 DEF ElectionOK, GroupsApart, Others
<1>6. QED
  BY <1>1, <1>2, <1>3, <1>4, <1>5, OneMoves, Facts

\* A subscriber that fails does not change the election.
LEMMA SubscriberFailsElection ==
    ASSUME TypesOK, ElectionOK, NEW m \in Nodes, SubscriberFails(m)
    PROVE  ElectionOK'
<1>1. UNCHANGED <<node, groups, joining, merging, suspect, observers, llu, shared, call, committed,
                  sending, stamped>>
  BY DEF SubscriberFails, processVars
<1>2. RoleOK(m)' /\ MergeOK(m)' /\ InitOK(m)' /\ UpdateOK(m)'
  BY <1>1, Facts, RolesKept, MergesKept, InitsKept, UpdatesKept DEF ElectionOK
<1>3. \A x \in Others(m) : merging'[m].step # "none" /\ merging[x].step # "none" =>
              node'[m].group # node[x].group
  BY <1>1 DEF ElectionOK, GroupsApart, Others
<1>4. QED
  BY <1>1, <1>2, <1>3, OneMoves, Facts

\* What is known of an update that an observer is sent.
LEMMA SendingFacts ==
    ASSUME TypesOK, ElectionOK, NEW m \in Nodes, sending[m] # None
    PROVE  /\ Master(m) /\ merging[m] = None
           /\ sending[m].llu[1] = llu[m][1] /\ sending[m].id \in shared[m]
           /\ node[m].generation = llu[m][1]
BY Facts DEF ElectionOK, UpdateOK, Quiet, Master, MergeOK, RoleOK

\* A node that refuses an update of its generation does not form a group.
LEMMA RefuserIsIdle ==
    ASSUME TypesOK, ElectionOK, NEW m \in Nodes, NEW s \in Nodes, s # m, Master(m),
           node[s].generation = llu[m][1]
    PROVE  merging[s] = None
<1> SUFFICES ASSUME merging[s].step # "none" PROVE FALSE
  BY Facts
<1> DEFINE g == llu[m][1]
<1>1. g \in Nat
  BY Facts
<1>2. PICK group : Won(s, group, g)
  BY <1>1 DEF ElectionOK, MergeOK
<1>3. Won(m, node[m].group, g)
  BY DEF ElectionOK, RoleOK, Master
<1>4. PICK t \in Nodes : Stamped(t, s, group, g) /\ Stamped(t, m, node[m].group, g)
  BY <1>2, <1>3, WonMeet
<1> HIDE DEF g
<1> DEFINE x == [id |-> t, coord |-> s, group |-> group, generation |-> g]
           y == [id |-> t, coord |-> m, group |-> node[m].group, generation |-> g]
<1>5. x = y
  BY <1>4 DEF ElectionOK, StampsOK, Stamped
<1>6. QED
  BY <1>5

\* A replica's update keeps one coordinator for each generation.
LEMMA ReplicateElection ==
    ASSUME TypesOK, ElectionOK, NEW m \in Nodes, NEW o \in observers[m], Replicate(m, o),
           lapses' = {}
    PROVE  ElectionOK'
<1>1. PICK s : s = o.id
  OBVIOUS
<1>2. PICK u : u = sending[m]
  OBVIOUS
<1>3. /\ UNCHANGED <<groups, joining, merging, suspect, call, committed, stamped>>
      /\ u # None /\ sending' = [sending EXCEPT ![m].todo = @ \ {o}]
  BY <1>2 DEF Replicate, processVars
<1>4. /\ s \in Nodes /\ s # m /\ Master(m) /\ u.llu[1] = llu[m][1] /\ u.id \in shared[m]
      /\ merging[m] = None
  BY <1>1, <1>2, <1>3, Facts, SendingFacts DEF ElectionOK, UpdateOK, Infos
<1>5. /\ sending'[m].id = u.id /\ sending'[m].llu = u.llu
      /\ \A x \in Others(m) : sending'[x] = sending[x]
  BY <1>2, <1>3, SendingKinds DEF TypesOK, VersionsOK, Others
<1>6. /\ observers'[m] \subseteq observers[m] /\ \A x \in Others(m) : observers'[x] = observers[x]
  BY DEF Replicate, TypesOK, DataOK, Others
<1>7. ASSUME NEW x \in Nodes, node'[x] = node[x], llu'[x][1] = llu[x][1],
             shared[x] \subseteq shared'[x]
      PROVE  UpdateOK(x)'
  <2>1. CASE x = m
    BY <1>2, <1>3, <1>4, <1>5, <1>6, <1>7, <2>1 DEF ElectionOK, UpdateOK, Master
  <2>2. CASE x \in Others(m)
    BY <1>3, <1>5, <1>6, <1>7, <2>2, UpdatesKept DEF ElectionOK, Others
  <2>3. QED
    BY <2>1, <2>2 DEF Others
<1>8. ASSUME UNCHANGED node,
             \A x \in Nodes : llu'[x][1] = llu[x][1] /\ shared[x] \subseteq shared'[x],
             \A x \in Nodes : Synced(x) => llu'[x] = llu[x] /\ shared'[x] = shared[x],
             \A x \in Nodes : merging[x].step = "init" =>
                \A b \in merging[x].todo : llu'[b.id] = llu[b.id]
      PROVE  ElectionOK'
  <2>1. StampsOK' /\ GroupsApart'
    BY <1>3, <1>8, StampsKept, Facts DEF ElectionOK, GroupsApart
  <2>2. ASSUME NEW x \in Nodes
        PROVE  RoleOK(x)' /\ MergeOK(x)' /\ InitOK(x)' /\ UpdateOK(x)'
    <3>1. RoleOK(x)' /\ MergeOK(x)'
      BY <1>3, <1>8, RolesKept, MergesKept, Facts DEF ElectionOK
    <3>2. InitOK(x)'
      BY <1>3, <1>8, InitsKept DEF ElectionOK
    <3>3. QED
      BY <1>7, <1>8, <3>1, <3>2
  <2>3. QED
    BY <2>1, <2>2 DEF ElectionOK
<1>9. CASE /\ TakesUpdate(s, u) /\ UNCHANGED node
           /\ shared' = [shared EXCEPT ![s] = @ \cup {u.id}]
           /\ llu' = [llu EXCEPT ![s] = u.llu]
           /\ ~CountedOn(s, m)
  <2>1. /\ llu'[s] = u.llu /\ shared[s] \subseteq shared'[s]
        /\ \A x \in Others(s) : llu'[x] = llu[x] /\ shared'[x] = shared[x]
    BY <1>4, <1>9 DEF TypesOK, DataOK, Others
  <2>2. llu[s][1] = u.llu[1]
    BY <1>4, <1>9 DEF TakesUpdate, ElectionOK, RoleOK
  <2>3. \A x \in Nodes : llu'[x][1] = llu[x][1] /\ shared[x] \subseteq shared'[x]
    BY <2>1, <2>2 DEF Others
  <2>4. ASSUME NEW x \in Nodes, merging[x].step = "init", NEW b \in merging[x].todo
        PROVE  llu'[b.id] = llu[b.id]
    <3>1. x # m
      BY <1>4, <2>4 DEF None
    <3>2. b.id # s
      BY <1>9, <2>4, <3>1 DEF CountedOn, Ids, Others
    <3>3. b.id \in Nodes
      BY <2>4, MergingKinds DEF TypesOK, Inits, Members
    <3>4. QED
      BY <2>1, <3>2, <3>3 DEF Others
  <2>5. ASSUME NEW x \in Nodes, Synced(x)
        PROVE  llu'[x] = llu[x] /\ shared'[x] = shared[x]
    <3>1. merging[s] = None
      BY <1>4, <1>9, <2>2, RefuserIsIdle DEF TakesUpdate
    <3>2. QED
      BY <2>1, <2>5, <3>1 DEF Synced, None, Others
  <2>6. QED
    BY <1>8, <1>9, <2>3, <2>4, <2>5
<1>10. CASE UNCHANGED <<node, llu, shared>>
  BY <1>8, <1>10
<1>11. CASE /\ node[s].generation = u.llu[1] /\ Quiet(s)
            /\ node' = [node EXCEPT ![s] = Recovered(node[s], s)]
            /\ UNCHANGED <<llu, shared>>
  <2> DEFINE r == Recovered(node[s], s)
  <2>1. /\ r.state = "Inactive" /\ r.coord = s /\ r.generation = -1 /\ r.mergeSet = {}
        /\ node'[s] = r /\ \A x \in Others(s) : node'[x] = node[x]
    BY <1>4, <1>11, Facts, RecoveredType DEF TypesOK, NodesOK, Others
  <2> HIDE DEF r
  <2>2. merging[s] = None
    BY <1>4, <1>11, RefuserIsIdle
  <2>3. RoleOK(s)' /\ MergeOK(s)' /\ InitOK(s)'
    BY <1>3, <2>1, <2>2 DEF RoleOK, MergeOK, InitOK, Synced, None
  <2>4. UpdateOK(s)'
    BY <1>3, <1>4, <1>5, <1>6, <1>11 DEF ElectionOK, UpdateOK, Quiet, Others
  <2>5. ASSUME NEW x \in Others(s)
        PROVE  RoleOK(x)' /\ MergeOK(x)' /\ InitOK(x)' /\ UpdateOK(x)'
    <3>1. x \in Nodes /\ node'[x] = node[x]
      BY <2>1 DEF Others
    <3>2. RoleOK(x)' /\ MergeOK(x)' /\ InitOK(x)'
      BY <1>3, <1>11, <3>1, RolesKept, MergesKept, InitsKept, Facts DEF ElectionOK
    <3>3. QED
      BY <1>7, <1>11, <3>1, <3>2
  <2>6. StampsOK'
    BY <1>3, <1>11, StampsKept, Facts DEF ElectionOK
  <2>7. GroupsApart'
    BY <1>3, <2>1, <2>2 DEF ElectionOK, GroupsApart, Others, None
  <2>8. QED
    BY <2>3, <2>4, <2>5, <2>6, <2>7 DEF ElectionOK, Others
<1>12. QED
  <2>1. \A happens \in BOOLEAN : lapses' = lapses \cup Lapse("deserted", happens) => ~happens
    BY DEF Lapse
  <2>2. QED
    BY <1>1, <1>2, <1>9, <1>10, <1>11, <2>1 DEF Replicate

\* A crash keeps one coordinator for each generation.
LEMMA CrashElection ==
    ASSUME TypesOK, ReplicasOK, ElectionOK, NEW n \in Nodes, Crash(n)
    PROVE  ElectionOK'
<1> DEFINE r == Blank(n, "Down")
<1>1. /\ UNCHANGED <<groups, llu, shared, stamped>>
      /\ \A x \in Others(n) :
            /\ node'[x] = node[x] /\ merging'[x] = merging[x] /\ joining'[x] = joining[x]
            /\ suspect'[x] = suspect[x] /\ call'[x] = call[x] /\ committed'[x] = committed[x]
            /\ sending'[x] = sending[x] /\ observers'[x] = observers[x]
      /\ merging'[n] = None /\ call'[n] = "none" /\ committed'[n] = {} /\ sending'[n] = None
      /\ observers'[n] = {}
      /\ node'[n] = r
  BY DEF Crash, history, TypesOK, ReplicasOK, NodesOK, MergingsOK, CallsOK, ProcessesOK,
         VersionsOK, DataOK,
         Others
<1>2. r.state = "Down" /\ r.coord = n /\ r.generation = -1 /\ r.mergeSet = {}
  BY DEF Blank
<1> HIDE DEF r
<1>3. RoleOK(n)' /\ MergeOK(n)' /\ InitOK(n)' /\ UpdateOK(n)' /\ merging'[n].step = "none"
  BY <1>1, <1>2 DEF RoleOK, MergeOK, InitOK, UpdateOK, Quiet, Synced, None
<1>4. QED
  BY <1>1, <1>3, OneMoves, Facts

\* A restart without a lapse keeps the LLU.
LEMMA RestartElection ==
    ASSUME TypesOK, ElectionOK, NEW n \in Nodes, Restart(n), lapses' = {}
    PROVE  ElectionOK'
<1> DEFINE r == Blank(n, "Inactive")
<1>1. UNCHANGED <<groups, joining, merging, suspect, observers, shared, call, committed, sending,
                  stamped>>
      /\ node[n].state = "Down"
  BY DEF Restart, processVars, counts
<1>2. UNCHANGED llu
  BY DEF Restart, Lapse, TypesOK, DataOK
<1>3. merging[n] = None /\ Quiet(n)
  BY <1>1, Facts DEF ElectionOK, MergeOK, UpdateOK, Master
<1>4. /\ r.state = "Inactive" /\ r.coord = n /\ r.generation = -1 /\ r.mergeSet = {}
      /\ node'[n] = r /\ \A x \in Others(n) : node'[x] = node[x]
  BY DEF Restart, Blank, TypesOK, NodesOK, Others
<1> HIDE DEF r
<1>5. RoleOK(n)' /\ MergeOK(n)' /\ InitOK(n)' /\ merging'[n].step = "none"
  BY <1>1, <1>3, <1>4 DEF RoleOK, MergeOK, InitOK, Synced, None
<1>6. UpdateOK(n)'
  BY <1>1, <1>3 DEF ElectionOK, UpdateOK, Quiet
<1>7. QED
  BY <1>1, <1>2, <1>4, <1>5, <1>6, OneMoves, Facts

\* A step without a lapse keeps one coordinator for each generation.
LEMMA NextElection ==
    ASSUME TypesOK, TypesOK', ReplicasOK, ElectionOK, [Next]_vars, lapses' = {}, ~assertFailed'
    PROVE  ElectionOK'
<1>1. ASSUME NEW n \in Nodes, Timer(n) PROVE ElectionOK'
  BY <1>1, CheckElection, MergeElection, TimeoutElection, MergeContinueElection, SyncElection,
     InitSlaveElection, ReadySlaveElection, ReadyDoneElection DEF Timer
<1>2. ASSUME NEW n \in Nodes, Update(n) PROVE ElectionOK'
  BY <1>2, CheckObserversElection, UpdateStartElection, UpdateCommitElection, UpdateSendElection,
     UpdateFinishElection, SubscriberFailsElection, ReplicateElection DEF Update
<1>3. ASSUME NEW n \in Nodes, Crash(n) \/ Restart(n) PROVE ElectionOK'
  BY <1>3, CrashElection, RestartElection
<1>4. ASSUME Dispatch PROVE ElectionOK'
  BY <1>4, InvitationElection, AcceptElection, JoinElection DEF Dispatch
<1>5. CASE UNCHANGED vars
  <2>1. UNCHANGED <<node, groups, joining, merging, suspect, observers, llu, shared, call,
                    committed, sending, stamped>>
    BY <1>5 DEF vars, processVars, replicaVars, counts, history
  <2>2. PICK n \in Nodes : TRUE
    BY NodesAssumption
  <2>3. RoleOK(n)' /\ MergeOK(n)' /\ InitOK(n)' /\ UpdateOK(n)'
    BY <2>1, Facts, RolesKept, MergesKept, InitsKept, UpdatesKept DEF ElectionOK
  <2>4. \A x \in Others(n) : merging'[n].step # "none" /\ merging[x].step # "none" =>
              node'[n].group # node[x].group
    BY <2>1 DEF ElectionOK, GroupsApart, Others
  <2>5. QED
    BY <2>1, <2>3, <2>4, OneMoves, Facts
<1>6. QED
  BY <1>1, <1>2, <1>3, <1>4, <1>5 DEF Next

-----------------------------------------------------------------------------
(***************************************************************************)
(* Replication: the observers on duty have the master's database           *)
(***************************************************************************)

\* A group has one coordinator, which forms it or is its master.
LEMMA GroupOwner ==
    ASSUME TypesOK, ElectionOK, NEW m \in Nodes, Master(m)
    PROVE  /\ node[m].coord = m
           /\ \A x \in Nodes : Master(x) /\ node[x].group = node[m].group => x = m
           /\ \A c \in Nodes : Synced(c) =>
                 c # m /\ merging[c].group # node[m].group /\ node[c].group = merging[c].group
<1>1. node[m].coord = m /\ Stamped(m, m, node[m].group, llu[m][1])
  BY DEF ElectionOK, RoleOK, Master
<1>2. ASSUME NEW x \in Nodes, NEW group, NEW g, Stamped(x, x, group, g), group = node[m].group
      PROVE  x = m
  <2> DEFINE y == [id |-> x, coord |-> x, group |-> group, generation |-> g]
             z == [id |-> m, coord |-> m, group |-> node[m].group, generation |-> llu[m][1]]
  <2>1. y \in stamped /\ z \in stamped /\ y.group = z.group /\ y.coord = x /\ z.coord = m
    BY <1>1, <1>2 DEF Stamped
  <2> HIDE DEF y, z
  <2>2. QED
    BY <2>1 DEF ElectionOK, StampsOK
<1>3. \A x \in Nodes : Master(x) /\ node[x].group = node[m].group => x = m
  <2>1. \A x \in Nodes : Master(x) => Stamped(x, x, node[x].group, llu[x][1])
    BY DEF ElectionOK, RoleOK, Master
  <2>2. QED
    BY <1>2, <2>1
<1>4. ASSUME NEW c \in Nodes, Synced(c)
      PROVE  c # m /\ merging[c].group # node[m].group /\ node[c].group = merging[c].group
  <2>1. Stamped(c, c, merging[c].group, llu[c][1])
    BY <1>4 DEF ElectionOK, InitOK
  <2>2. c # m /\ node[c].group = merging[c].group
    BY <1>4 DEF ElectionOK, MergeOK, Synced, Master
  <2>3. QED
    BY <1>2, <2>1, <2>2
<1>5. QED
  BY <1>1, <1>3, <1>4

\* While a group is formed: what no step of another node disturbs.
LEMMA FormingKept ==
    ASSUME NEW x \in Nodes, FormingOK(x), stamped \subseteq stamped',
           Synced(x)' => Synced(x) /\ merging'[x].group = merging[x].group
                         /\ (merging[x].step = "ready" => merging'[x].step = "ready"),
           llu'[x] = llu[x], shared'[x] = shared[x],
           \A o \in observers'[x] : o \in observers[x],
           \A o \in observers'[x] : Synced(x)' /\ llu'[o.id] = llu[x] =>
              llu'[o.id] = llu[o.id] /\ shared'[o.id] = shared[o.id],
           \A s \in Nodes : Synced(x)' /\ node'[s].state = "Normal"
                              /\ node'[s].group = merging'[x].group =>
              node[s].state = "Normal" /\ node[s].group = node'[s].group /\ llu'[s] = llu[s]
    PROVE  FormingOK(x)'
<1> SUFFICES ASSUME Synced(x)' PROVE FormingOK(x)'
  BY DEF FormingOK
<1>1. PICK group : group = merging[x].group
  OBVIOUS
<1>2. PICK g : g = llu[x][1]
  OBVIOUS
<1>3. /\ \A o \in observers[x] :
            Stamped(o.id, x, group, g) /\ (llu[o.id] = llu[x] => shared[o.id] = shared[x])
      /\ \A s \in Nodes : node[s].state = "Normal" /\ node[s].group = group =>
              merging[x].step = "ready" /\ llu[s] = llu[x]
  BY <1>1, <1>2 DEF FormingOK
<1>4. \A o \in observers'[x] :
         Stamped(o.id, x, group, g)' /\ (llu'[o.id] = llu'[x] => shared'[o.id] = shared'[x])
  BY <1>3, WonStays
<1>5. \A s \in Nodes : node'[s].state = "Normal" /\ node'[s].group = group =>
              merging'[x].step = "ready" /\ llu'[s] = llu'[x]
  BY <1>1, <1>3
<1>6. QED
  BY <1>1, <1>2, <1>4, <1>5 DEF FormingOK

\* The same of a master on duty.
LEMMA DutyKept ==
    ASSUME NEW x \in Nodes, DutyOK(x), Master(x)' => Master(x) /\ shared'[x] = shared[x],
           \A o \in observers'[x] : Master(x)' /\ (o.id \in SlavesOf(x))' =>
              /\ o \in observers[x] /\ o.id \in SlavesOf(x)
              /\ shared'[o.id] = shared[o.id]
              /\ Unsent(x, o) \subseteq Unsent(x, o)'
    PROVE  DutyOK(x)'
BY DEF DutyOK

\* Where no database changes and no node goes on duty.
LEMMA NoneGoesOnDuty ==
    ASSUME TypesOK, SyncOK, UNCHANGED <<llu, shared>>, stamped \subseteq stamped',
           \A x \in Nodes : node'[x].state = "Normal" =>
              /\ node[x].state = "Normal"
              /\ node'[x].slave = node[x].slave /\ node'[x].group = node[x].group,
           \A x \in Nodes : Synced(x)' =>
              Synced(x) /\ merging'[x].group = merging[x].group
              /\ (merging[x].step = "ready" => merging'[x].step = "ready"),
           \A x \in Nodes : observers'[x] \subseteq observers[x],
           \A x \in Nodes : Master(x)' =>
              \A o \in observers'[x] : Unsent(x, o) \subseteq Unsent(x, o)'
    PROVE  SyncOK'
<1>1. \A x \in Nodes : Master(x)' => Master(x)
  BY DEF Master
<1>2. \A x \in Nodes : Master(x)' => SlavesOf(x)' \subseteq SlavesOf(x)
  BY DEF SlavesOf, Master
<1>3. ASSUME NEW x \in Nodes
      PROVE  FormingOK(x)' /\ DutyOK(x)'
  <2>1. FormingOK(x)'
    BY FormingKept DEF SyncOK
  <2>2. DutyOK(x)'
    BY <1>1, <1>2, DutyKept DEF SyncOK
  <2>3. QED
    BY <2>1, <2>2
<1>4. QED
  BY <1>3 DEF SyncOK

\* What is being sent stays, but that observers are done with, or no observers any more.
SameSending(x) ==
    /\ sending'[x] = None <=> sending[x] = None
    /\ sending[x] # None =>
          /\ sending'[x].id = sending[x].id /\ sending'[x].llu = sending[x].llu
          /\ \A o \in observers'[x] : o \in sending[x].todo => o \in sending'[x].todo

\* A step that changes no database, and after which no more nodes are on duty than before.
Calm ==
    /\ UNCHANGED <<llu, shared, stamped, updates>>
    /\ \A x \in Nodes : node'[x].state = "Normal" =>
          /\ node[x].state = "Normal"
          /\ node'[x].slave = node[x].slave /\ node'[x].group = node[x].group
    /\ \A x \in Nodes : Synced(x)' =>
          Synced(x) /\ merging'[x].group = merging[x].group
          /\ (merging[x].step = "ready" => merging'[x].step = "ready")
    /\ \A x \in Nodes : Master(x)' =>
          committed'[x] = committed[x] /\ SameSending(x)
    /\ \A x \in Nodes : observers'[x] \subseteq observers[x]

\* Such a step keeps the observers in step.
LEMMA CalmSync == TypesOK /\ SyncOK /\ Calm => SyncOK'
<1> SUFFICES ASSUME TypesOK, SyncOK, Calm PROVE SyncOK'
  OBVIOUS
<1>1. \A x \in Nodes : Master(x)' => \A o \in observers'[x] : Unsent(x, o) \subseteq Unsent(x, o)'
  BY DEF Unsent, Calm, SameSending
<1>2. QED
  BY <1>1, NoneGoesOnDuty DEF Calm

\* recovery() of one node, and the end of its merge.
LEMMA OneLeaves ==
    ASSUME NEW n \in Nodes, UNCHANGED <<llu, shared, stamped, updates, committed, sending>>,
           \A x \in Others(n) : node'[x] = node[x] /\ merging'[x] = merging[x],
           node'[n].state # "Normal", ~Synced(n)',
           \A x \in Nodes : observers'[x] \subseteq observers[x]
    PROVE  Calm
<1>1. \A x \in Nodes : x = n \/ x \in Others(n)
  BY DEF Others
<1>2. \A x \in Nodes : node'[x].state = "Normal" =>
              /\ node[x].state = "Normal"
              /\ node'[x].slave = node[x].slave /\ node'[x].group = node[x].group
  BY <1>1
<1>3. \A x \in Nodes : Synced(x)' =>
              Synced(x) /\ merging'[x].group = merging[x].group
              /\ (merging[x].step = "ready" => merging'[x].step = "ready")
  BY <1>1 DEF Synced
<1>4. QED
  BY <1>2, <1>3 DEF Calm, SameSending

\* No node goes on duty or off it.
LEMMA DutiesSame ==
    ASSUME UNCHANGED <<llu, shared, stamped, updates, merging, committed, sending>>,
           \A x \in Nodes : observers'[x] \subseteq observers[x],
           \A x \in Nodes : node'[x].state = node[x].state /\ node'[x].slave = node[x].slave
                            /\ node'[x].group = node[x].group
    PROVE  Calm
<1>1. \A x \in Nodes : Synced(x)' =>
              Synced(x) /\ merging'[x].group = merging[x].group
              /\ (merging[x].step = "ready" => merging'[x].step = "ready")
  BY DEF Synced
<1>2. QED
  BY <1>1 DEF Calm, SameSending

\* check() changes no database, and takes no node on duty.
LEMMA CheckCalm ==
    ASSUME TypesOK, ElectionOK, NEW n \in Nodes, Check(n)
    PROVE  Calm
<1> DEFINE left == {m \in node[n].up : m.id \notin reaped[n]}
<1>1. UNCHANGED <<merging, observers, llu, shared, committed, sending, stamped, updates>>
  BY DEF Check, processVars, history, counts
<1>2. ~Synced(n)
  BY DEF Check, Electing, ElectionOK, MergeOK, Synced
<1>3. CASE node' = [node EXCEPT ![n] = Recovered(node[n], n)]
  <2>1. node'[n].state = "Inactive" /\ \A x \in Others(n) : node'[x] = node[x]
    BY <1>3, Facts, RecoveredType DEF TypesOK, NodesOK, Others
  <2>2. QED
    BY <1>1, <1>2, <2>1, OneLeaves DEF Synced
<1>4. ASSUME NEW s, node' = [node EXCEPT ![n].up = left, ![n].mergeSet = s]
      PROVE  Calm
  <2>1. \A x \in Nodes : node'[x].state = node[x].state /\ node'[x].slave = node[x].slave
                         /\ node'[x].group = node[x].group
    BY <1>4, Facts DEF TypesOK, NodesOK, NodeRecords
  <2>2. QED
    BY <1>1, <2>1, DutiesSame
<1>5. QED
  BY <1>3, <1>4 DEF Check

\* merge(), with the invitations that it sends, changes no database, and takes no node on duty.
LEMMA MergeCalm ==
    ASSUME TypesOK, NEW n \in Nodes, Merge(n)
    PROVE  Calm
<1>1. UNCHANGED <<observers, llu, shared, committed, sending, stamped, updates>>
  BY DEF Merge, replicaVars, history, counts
<1>2. /\ \A x \in Others(n) : node'[x] = node[x] /\ merging'[x] = merging[x]
      /\ node'[n].state = "Election" /\ merging'[n].step = "pending"
  BY Facts DEF Merge, TypesOK, NodesOK, NodeRecords, MergingsOK, Others
<1>3. QED
  BY <1>1, <1>2, OneLeaves DEF Synced

\* timeout() changes no database, and takes no node on duty.
LEMMA TimeoutCalm ==
    ASSUME TypesOK, ElectionOK, NEW n \in Nodes, TimeoutAsk(n) \/ TimeoutRecover(n)
    PROVE  Calm
<1>1. UNCHANGED <<merging, observers, llu, shared, committed, sending, stamped, updates>>
  BY DEF TimeoutAsk, TimeoutRecover, replicaVars, history, counts
<1>2. CASE UNCHANGED node
  BY <1>1, <1>2, DutiesSame
<1>3. CASE suspect[n] /\ node' = [node EXCEPT ![n] = Recovered(node[n], n)]
  <2>1. node'[n].state = "Inactive" /\ \A x \in Others(n) : node'[x] = node[x]
    BY <1>3, Facts, RecoveredType DEF TypesOK, NodesOK, Others
  <2>2. ~Synced(n)
    BY <1>3 DEF ElectionOK, MergeOK, Synced
  <2>3. QED
    BY <1>1, <2>1, <2>2, OneLeaves DEF Synced
<1>4. QED
  BY <1>2, <1>3 DEF TimeoutAsk, TimeoutRecover

\* invitation() changes no database, and takes no node on duty.
LEMMA InvitationCalm ==
    ASSUME TypesOK, ElectionOK, NEW msg \in mail, Invitation(msg)
    PROVE  Calm
<1>1. PICK n \in Nodes : n = msg.to
  BY MailKinds DEF Invitation
<1>2. UNCHANGED <<merging, observers, llu, shared, committed, sending, stamped, updates>>
  BY DEF Invitation, replicaVars, history, counts
<1>3. CASE UNCHANGED node
  BY <1>2, <1>3, DutiesSame
<1>4. CASE /\ node[n].state \notin Electing
           /\ node' = [node EXCEPT ![n].state = "Election", ![n].coord = msg.from,
                                   ![n].group = msg.group, ![n].mergeSet = {}]
  <2>1. node'[n].state = "Election" /\ \A x \in Others(n) : node'[x] = node[x]
    BY <1>4, Facts DEF TypesOK, NodesOK, NodeRecords, Others
  <2>2. ~Synced(n)
    BY <1>4 DEF ElectionOK, MergeOK, Synced, Electing
  <2>3. QED
    BY <1>2, <2>1, <2>2, OneLeaves DEF Synced
<1>5. QED
  BY <1>1, <1>3, <1>4 DEF Invitation

\* The rest of invitation(), with the acceptance, changes no database, and takes no node on duty.
LEMMA JoinCalm ==
    ASSUME TypesOK, ElectionOK, NEW n \in Nodes, Join(n), lapses' = {}, ~assertFailed'
    PROVE  Calm
<1>1. /\ UNCHANGED <<merging, observers, llu, shared, committed, sending, stamped, updates>>
      /\ node[n].state = "Election"
  BY DEF Join, replicaVars, history, counts
<1>2. ~Synced(n)
  BY <1>1 DEF ElectionOK, MergeOK, Synced
<1>3. node'[n].state # "Normal" /\ \A x \in Others(n) : node'[x] = node[x]
  <2>1. CASE node' = [node EXCEPT ![n].state = "Reorganization", ![n].timeout = TRUE]
    BY <2>1, Facts DEF TypesOK, NodesOK, NodeRecords, Others
  <2>2. CASE node' = [node EXCEPT ![n] = Recovered(node[n], n)]
    BY <2>2, Facts, RecoveredType DEF TypesOK, NodesOK, Others
  <2>3. QED
    BY <2>1, <2>2 DEF Join
<1>4. QED
  BY <1>1, <1>2, <1>3, OneLeaves DEF Synced

\* accept() changes no database, and takes no node on duty.
LEMMA AcceptCalm ==
    ASSUME TypesOK, NEW msg \in mail, Accept(msg)
    PROVE  Calm
<1>1. UNCHANGED <<merging, observers, llu, shared, committed, sending, stamped, updates>>
  BY DEF Accept, processVars, replicaVars, history, counts
<1>2. \A x \in Nodes : node'[x].state = node[x].state /\ node'[x].slave = node[x].slave
                       /\ node'[x].group = node[x].group
  BY MailKinds, Facts DEF Accept, TypesOK, NodesOK, NodeRecords
<1>3. QED
  BY <1>1, <1>2, DutiesSame

\* What recovery() in the middle of a merge leaves.
LEMMA GiveUpFacts ==
    ASSUME TypesOK, NEW n \in Nodes, GiveUp(n)
    PROVE  /\ node'[n].state = "Inactive" /\ merging'[n] = None /\ ~Synced(n)'
           /\ \A x \in Others(n) : node'[x] = node[x] /\ merging'[x] = merging[x]
<1>1. node'[n].state = "Inactive" /\ \A x \in Others(n) : node'[x] = node[x]
  BY Facts, RecoveredType DEF GiveUp, TypesOK, NodesOK, Others
<1>2. merging'[n] = None /\ \A x \in Others(n) : merging'[x] = merging[x]
  BY DEF GiveUp, TypesOK, MergingsOK, Others
<1>3. QED
  BY <1>1, <1>2 DEF Synced, None

\* mergeContinue() changes no database, and takes no node on duty.
LEMMA MergeContinueCalm ==
    ASSUME TypesOK, NEW n \in Nodes, MergeContinue(n)
    PROVE  Calm
<1>1. UNCHANGED <<observers, llu, shared, committed, sending, stamped, updates>>
  BY DEF MergeContinue, replicaVars, history, counts
<1>2. CASE GiveUp(n)
  BY <1>1, <1>2, GiveUpFacts, OneLeaves
<1>3. CASE /\ node' = [node EXCEPT ![n].state = "Reorganization"]
           /\ merging' = [merging EXCEPT ![n] =
                             [step |-> "sync", group |-> node[n].group, members |-> node[n].up]]
  <2>1. /\ \A x \in Others(n) : node'[x] = node[x] /\ merging'[x] = merging[x]
        /\ node'[n].state = "Reorganization" /\ merging'[n].step = "sync"
    BY <1>3, Facts DEF TypesOK, NodesOK, NodeRecords, MergingsOK, Others
  <2>2. QED
    BY <1>1, <2>1, OneLeaves DEF Synced
<1>4. QED
  BY <1>2, <1>3 DEF MergeContinue

\* A database that is given the generation of a merge is not another group's.
LEMMA NewGeneration ==
    ASSUME TypesOK, ElectionOK, SyncOK, NEW s \in Nodes, node[s].state # "Normal",
           llu'[s][1] \in Nat, llu'[s][1] > llu[s][1], stamped \subseteq stamped',
           \A x \in Others(s) : llu'[x] = llu[x] /\ shared'[x] = shared[x],
           NEW x \in Others(s), merging'[x] = merging[x], observers'[x] \subseteq observers[x],
           UNCHANGED <<committed, sending>>,
           \A t \in Nodes : node'[t].state = "Normal" =>
              /\ node[t].state = "Normal"
              /\ node'[t].slave = node[t].slave /\ node'[t].group = node[t].group
    PROVE  FormingOK(x)' /\ DutyOK(x)'
<1>1. x \in Nodes /\ x # s /\ llu'[x] = llu[x] /\ shared'[x] = shared[x]
  BY DEF Others
<1>2. FormingOK(x)'
  <2>1. ASSUME NEW o \in observers'[x], Synced(x), llu'[o.id] = llu[x]
        PROVE  llu'[o.id] = llu[o.id] /\ shared'[o.id] = shared[o.id]
    <3>1. o.id \in Nodes
      BY <1>1, <2>1, Facts DEF Infos
    <3>2. o.id # s
      <4>1. Stamped(o.id, x, merging[x].group, llu[x][1])
        BY <1>1, <2>1 DEF SyncOK, FormingOK
      <4>2. llu[x][1] <= llu[o.id][1]
        BY <4>1 DEF ElectionOK, StampsOK, Stamped
      <4>3. llu[x][1] \in Nat /\ llu[o.id][1] \in Nat
        BY <1>1, <3>1, Facts
      <4>4. QED
        BY <2>1, <4>2, <4>3
    <3>3. QED
      BY <3>1, <3>2 DEF Others
  <2>2. \A t \in Nodes : node'[t].state = "Normal" =>
           node[t].state = "Normal" /\ node[t].group = node'[t].group /\ llu'[t] = llu[t]
    BY DEF Others
  <2>3. QED
    BY <1>1, <2>1, <2>2, FormingKept DEF SyncOK, Synced
<1>3. DutyOK(x)'
  <2>1. Master(x)' => Master(x)
    BY <1>1 DEF Master
  <2>2. ASSUME NEW o \in observers'[x], Master(x)', (o.id \in SlavesOf(x))'
        PROVE  o.id \in SlavesOf(x) /\ shared'[o.id] = shared[o.id]
    BY <1>1, <2>2 DEF SlavesOf, Others, Master
  <2>3. \A o : Unsent(x, o) = Unsent(x, o)'
    BY DEF Unsent
  <2>4. QED
    BY <1>1, <2>1, <2>2, <2>3, DutyKept DEF SyncOK
<1>4. QED
  BY <1>2, <1>3

\* The download of the best database and initMaster() keeps the observers in step.
LEMMA SyncSync ==
    ASSUME TypesOK, TypesOK', ElectionOK, SyncOK, NEW n \in Nodes, Sync(n), lapses' = {}
    PROVE  SyncOK'
<1>1. /\ UNCHANGED <<committed, sending, updates>>
      /\ merging[n].step = "sync"
  BY DEF Sync
<1>2. /\ node[n].state = "Reorganization" /\ node[n].coord = n /\ merging[n].group = node[n].group
      /\ \A x \in stamped : x.group # node[n].group
  BY <1>1 DEF ElectionOK, MergeOK, Synced
<1>3. CASE GiveUp(n) /\ UNCHANGED <<shared, llu, stamped, lapses, observers>>
  BY <1>1, <1>3, GiveUpFacts, OneLeaves, CalmSync
<1>4. PICK best : best = Best(merging[n].members)
  OBVIOUS
<1>5. PICK stamp : stamp = NextStamp(best.llu)
  OBVIOUS
<1>6. PICK m : m = [step |-> "init", group |-> merging[n].group, members |-> merging[n].members,
                    todo |-> merging[n].members, stamp |-> stamp, content |-> topics'[n]]
  OBVIOUS
<1>7. CASE /\ shared' = [shared EXCEPT ![n] = topics'[n]]
           /\ llu' = [llu EXCEPT ![n] = stamp]
           /\ node' = [node EXCEPT ![n].max = Max({@, Cardinality(merging[n].members) + 1})]
           /\ stamped' = stamped \cup {Stamp(n, n, stamp)}
           /\ observers' = [observers EXCEPT ![n] = {}]
           /\ merging' = [merging EXCEPT ![n] = m]
           /\ lapses' = lapses
                \cup Lapse("reused", best.llu[1] < llu[n][1])
                \cup Lapse("deserted", CountedOn(n, n) \/ \E a \in merging[n].members :
                                                             llu[a.id] # a.llu)
  <2>1. stamp \in Stamps /\ stamp[1] \in Nat /\ stamp[1] > llu[n][1]
    <3>1. ~(best.llu[1] < llu[n][1])
      BY <1>7 DEF Lapse
    <3>2. best.llu[1] \in Nat /\ stamp \in Stamps /\ stamp[1] = best.llu[1] + 1
      BY <1>1, <1>4, <1>5, BestOf
    <3>3. QED
      BY <3>1, <3>2, Facts
  <2>2. /\ \A x \in Others(n) :
              /\ node'[x] = node[x] /\ llu'[x] = llu[x] /\ shared'[x] = shared[x]
              /\ merging'[x] = merging[x] /\ observers'[x] = observers[x]
        /\ node'[n].state = node[n].state /\ node'[n].group = node[n].group
        /\ node'[n].slave = node[n].slave
        /\ llu'[n] = stamp /\ observers'[n] = {} /\ merging'[n] = m
    BY <1>7, Facts DEF TypesOK, NodesOK, NodeRecords, DataOK, MergingsOK, Others
  <2>3. \A x \in Others(n) : FormingOK(x)' /\ DutyOK(x)'
    <3>1. \A t \in Nodes : node'[t].state = "Normal" =>
              /\ node[t].state = "Normal"
              /\ node'[t].slave = node[t].slave /\ node'[t].group = node[t].group
      BY <2>2 DEF Others
    <3>2. node[n].state # "Normal" /\ stamped \subseteq stamped'
      BY <1>2, <1>7
    <3>3. QED
      BY <1>1, <2>1, <2>2, <3>1, <3>2, NewGeneration
  <2>4. FormingOK(n)'
    <3>1. \A s \in Nodes : node[s].state = "Normal" => node[s].group # node[n].group
      <4>1. \A s \in Nodes : node[s].state = "Normal" =>
               Stamped(s, node[s].coord, node[s].group, llu[s][1])
        BY DEF ElectionOK, RoleOK
      <4>2. \A y \in stamped : y.group # node[n].group
        BY <1>2
      <4>3. QED
        BY <4>1, <4>2 DEF Stamped
    <3>2. m.group = node[n].group
      BY <1>2, <1>6
    <3>3. \A s \in Nodes : node'[s].state = "Normal" => node'[s].group # merging'[n].group
      BY <1>2, <2>2, <3>1, <3>2 DEF Others
    <3>4. QED
      BY <2>2, <3>3 DEF FormingOK
  <2>5. DutyOK(n)'
    BY <2>2 DEF DutyOK
  <2>6. QED
    BY <2>3, <2>4, <2>5 DEF SyncOK, Others
<1>8. QED
  BY <1>3, <1>4, <1>5, <1>6, <1>7 DEF Sync

\* ReplicaObserverI::init: the member has the coordinator's database and LLU.
LEMMA InitSlaveSync ==
    ASSUME TypesOK, TypesOK', ElectionOK, SyncOK, NEW n \in Nodes, InitSlave(n), lapses' = {}
    PROVE  SyncOK'
<1>1. PICK k : k = merging[n]
  OBVIOUS
<1>2. PICK a : a = NextOf(k.todo)
  OBVIOUS
<1>3. PICK s : s = a.id
  OBVIOUS
<1>4. PICK left : left = k.todo \ {a}
  OBVIOUS
<1>5. PICK m : m = IF left # {} THEN [k EXCEPT !.todo = left]
                   ELSE [k EXCEPT !.step = "ready", !.todo = k.members]
  OBVIOUS
<1>6. /\ UNCHANGED <<committed, sending, updates>>
      /\ k.step = "init"
  BY <1>1 DEF InitSlave
<1>7. /\ a \in k.todo /\ s \in Nodes /\ k \in Inits
  <2>1. k.todo # {}
    BY <1>1, <1>6 DEF TypesOK, MergingsOK, MergingOK
  <2>2. QED
    BY <1>1, <1>2, <1>3, <1>6, <2>1, NextOfTodo
<1>8. /\ node[n].state = "Reorganization" /\ node[n].coord = n /\ k.group = node[n].group
  BY <1>1, <1>6 DEF ElectionOK, MergeOK, Synced
<1>9. CASE GiveUp(n) /\ UNCHANGED <<shared, llu, stamped, observers>>
  BY <1>6, <1>9, GiveUpFacts, OneLeaves, CalmSync
<1>10. ASSUME node[s].state = "Reorganization", node[s].coord # s, Initialized(s, n),
              \/ /\ node' = node /\ merging' = [merging EXCEPT ![n] = m]
                 /\ observers' = [observers EXCEPT ![n] = @ \cup {[id |-> s, inc |-> a.inc]},
                                                   ![s] = {}]
              \/ GiveUp(n) /\ observers' = [observers EXCEPT ![s] = {}]
       PROVE  SyncOK'
  <2>1. /\ s # n /\ merging[s] = None
        /\ llu'[s] = llu[n] /\ shared'[s] = shared[n] /\ llu[s][1] < llu[n][1]
        /\ \A x \in Others(s) : llu'[x] = llu[x] /\ shared'[x] = shared[x]
        /\ stamped \subseteq stamped'
        /\ \A group, g : group = k.group /\ g = llu[n][1] => Stamped(s, n, group, g)'
    BY <1>1, <1>3, <1>6, <1>7, <1>10, InitializedFacts
  <2>2. /\ \A x \in Others(n) : node'[x] = node[x] /\ merging'[x] = merging[x]
        /\ node'[n] = node[n] \/ node'[n].state = "Inactive"
        /\ merging'[n] = m \/ merging'[n] = None
        /\ \A x \in Others(n) : observers'[x] \subseteq observers[x]
        /\ \A o \in observers'[n] : o \in observers[n] \/ o.id = s
    <3>1. CASE GiveUp(n) /\ observers' = [observers EXCEPT ![s] = {}]
      BY <1>7, <3>1, GiveUpFacts DEF TypesOK, DataOK, Others
    <3>2. CASE /\ node' = node /\ merging' = [merging EXCEPT ![n] = m]
               /\ observers' = [observers EXCEPT ![n] = @ \cup {[id |-> s, inc |-> a.inc]},
                                                 ![s] = {}]
      BY <1>7, <2>1, <3>2 DEF TypesOK, DataOK, MergingsOK, Others
    <3>3. QED
      BY <1>10, <3>1, <3>2
  <2>3. \A t \in Nodes : node'[t].state = "Normal" =>
              /\ node[t].state = "Normal"
              /\ node'[t].slave = node[t].slave /\ node'[t].group = node[t].group
    BY <2>2 DEF Others
  <2>4. ASSUME NEW x \in Others(s), x # n
        PROVE  FormingOK(x)' /\ DutyOK(x)'
    <3>1. x \in Others(n)
      BY <2>4 DEF Others
    <3>2. llu'[s][1] \in Nat /\ llu'[s][1] > llu[s][1]
      BY <1>7, <2>1, Facts
    <3>3. merging'[x] = merging[x] /\ observers'[x] \subseteq observers[x]
      BY <2>2, <3>1
    <3>4. node[s].state # "Normal"
      BY <1>10
    <3>5. QED
      BY <1>6, <1>7, <2>1, <2>3, <3>2, <3>3, <3>4, NewGeneration
  <2>5. FormingOK(s)' /\ DutyOK(s)' /\ DutyOK(n)'
    <3>1. s \in Others(n)
      BY <1>7, <2>1 DEF Others
    <3>2. node'[s] = node[s] /\ merging'[s] = None
      BY <2>1, <2>2, <3>1
    <3>3. node'[n].state # "Normal"
      BY <1>8, <2>2
    <3>4. QED
      BY <1>10, <3>2, <3>3 DEF FormingOK, DutyOK, Master, Synced, None
  <2>6. FormingOK(n)'
    <3>1. CASE merging'[n] = None
      BY <3>1 DEF FormingOK, Synced, None
    <3>2. CASE merging'[n] = m
      <4>1. m.group = k.group
        BY <1>5, <1>7 DEF Inits
      <4>2. PICK g : g = llu[n][1]
        OBVIOUS
      <4>3. PICK group : group = k.group
        OBVIOUS
      <4>4. llu'[n] = llu[n] /\ shared'[n] = shared[n]
        BY <2>1 DEF Others
      <4>5. /\ \A o \in observers[n] :
                  Stamped(o.id, n, group, g) /\ (llu[o.id] = llu[n] => shared[o.id] = shared[n])
            /\ \A t \in Nodes : ~(node[t].state = "Normal" /\ node[t].group = group)
        BY <1>1, <1>6, <4>2, <4>3 DEF SyncOK, FormingOK, Synced
      <4>6. ASSUME NEW o \in observers'[n]
            PROVE  Stamped(o.id, n, group, g)'
                   /\ (llu'[o.id] = llu'[n] => shared'[o.id] = shared'[n])
        <5>1. CASE o.id = s
          BY <2>1, <4>2, <4>3, <4>4, <5>1
        <5>2. CASE o.id # s
          <6>1. o \in observers[n] /\ o.id \in Others(s)
            BY <2>2, <5>2, Facts DEF Infos, Others
          <6>2. Stamped(o.id, n, group, g)'
            BY <2>1, <4>5, <6>1, WonStays
          <6>3. QED
            BY <2>1, <4>4, <4>5, <6>1, <6>2
        <5>3. QED
          BY <5>1, <5>2
      <4>7. \A t \in Nodes : ~(node'[t].state = "Normal" /\ node'[t].group = group)
        BY <2>3, <4>5
      <4>8. QED
        BY <3>2, <4>1, <4>2, <4>3, <4>4, <4>6, <4>7 DEF FormingOK
    <3>3. QED
      BY <2>2, <3>1, <3>2
  <2>7. QED
    BY <2>4, <2>5, <2>6 DEF SyncOK, Others
<1>11. QED
  BY <1>1, <1>2, <1>3, <1>4, <1>5, <1>9, <1>10 DEF InitSlave

\* ready(): the member that goes on duty has the coordinator's LLU.
LEMMA ReadySlaveEffect ==
    ASSUME TypesOK, ElectionOK, NEW n \in Nodes, ReadySlave(n), lapses' = {}
    PROVE  /\ UNCHANGED <<observers, llu, shared, committed, sending, stamped, updates>>
           /\ merging[n].step = "ready" /\ Synced(n) /\ node[n].group = merging[n].group
           /\ \A x \in Others(n) : merging'[x] = merging[x]
           /\ \/ merging'[n] = None
              \/ merging'[n].step = "ready" /\ merging'[n].group = merging[n].group
           /\ \E s \in Others(n) :
                 /\ \A group, g : group = merging[n].group /\ g = llu[n][1] =>
                       Stamped(s, n, group, g)
                 /\ \A t \in Nodes : node'[t].state = "Normal" =>
                       \/ /\ node[t].state = "Normal"
                          /\ node'[t].slave = node[t].slave /\ node'[t].group = node[t].group
                       \/ /\ node'[t].slave = TRUE /\ node'[t].group = merging[n].group
                          /\ t = s /\ llu[t] = llu[n]
<1>1. PICK k : k = merging[n]
  OBVIOUS
<1>2. PICK a : a = NextOf(k.todo)
  OBVIOUS
<1>3. PICK s : s = a.id
  OBVIOUS
<1>4. /\ UNCHANGED <<observers, llu, shared, committed, sending, stamped, updates>>
      /\ k.step = "ready" /\ k.todo # {}
  BY <1>1 DEF ReadySlave, Fault, replicaVars
<1>5. /\ a \in k.todo /\ s \in Nodes /\ k.todo \subseteq k.members /\ k \in Inits
  BY <1>1, <1>2, <1>3, <1>4, NextOfTodo
<1>6. /\ node[n].state = "Reorganization" /\ node[n].coord = n /\ k.group = node[n].group
      /\ s # n /\ Synced(n) /\ k.stamp = llu[n]
  BY <1>1, <1>3, <1>4, <1>5 DEF ElectionOK, MergeOK, InitOK, Synced
<1>7. PICK r \in {node[s], Readied(s, n)} :
        /\ r # node[s] => llu[s] = k.stamp
        /\ \/ /\ node' = [node EXCEPT ![s] = r]
              /\ merging' = [merging EXCEPT ![n].todo = @ \ {a}]
           \/ /\ merging' = [merging EXCEPT ![n] = None]
              /\ node' = [node EXCEPT ![s] = r, ![n] = Recovered(node[n], n)]
  <2>1. \A happens \in BOOLEAN : lapses' = lapses \cup Lapse("deserted", happens) => ~happens
    BY DEF Lapse
  <2>2. \/ /\ node' = [node EXCEPT ![s] = Readied(s, n)]
           /\ node'[s] # node[s] => llu[s] = k.stamp
           /\ merging' = [merging EXCEPT ![n].todo = @ \ {a}]
        \/ /\ merging' = [merging EXCEPT ![n] = None]
           /\ \E r \in {node[s], Readied(s, n)} :
                /\ node' = [node EXCEPT ![s] = r, ![n] = Recovered(node[n], n)]
                /\ r # node[s] => llu[s] = k.stamp
    BY <1>1, <1>2, <1>3, <2>1 DEF ReadySlave
  <2>3. CASE /\ node' = [node EXCEPT ![s] = Readied(s, n)]
             /\ node'[s] # node[s] => llu[s] = k.stamp
             /\ merging' = [merging EXCEPT ![n].todo = @ \ {a}]
    BY <1>5, <2>3 DEF TypesOK, NodesOK
  <2>4. QED
    BY <2>2, <2>3
<1>8. /\ node'[s] = r /\ \A x \in Nodes : x # s /\ x # n => node'[x] = node[x]
      /\ node'[n].state # "Normal"
      /\ \A x \in Others(n) : merging'[x] = merging[x]
      /\ \/ merging'[n] = None
         \/ merging'[n].step = "ready" /\ merging'[n].group = k.group
  <2>1. CASE /\ node' = [node EXCEPT ![s] = r]
             /\ merging' = [merging EXCEPT ![n].todo = @ \ {a}]
    <3>1. /\ node'[s] = r /\ \A x \in Nodes : x # s => node'[x] = node[x]
      BY <1>5, <2>1 DEF TypesOK, NodesOK
    <3>2. /\ \A x \in Others(n) : merging'[x] = merging[x]
          /\ merging'[n] = [k EXCEPT !.todo = k.todo \ {a}]
      BY <1>1, <2>1 DEF TypesOK, MergingsOK, Others
    <3>3. merging'[n].step = "ready" /\ merging'[n].group = k.group
      BY <1>4, <1>5, <3>2 DEF Inits
    <3>4. QED
      BY <1>6, <3>1, <3>2, <3>3
  <2>2. CASE /\ merging' = [merging EXCEPT ![n] = None]
             /\ node' = [node EXCEPT ![s] = r, ![n] = Recovered(node[n], n)]
    <3>1. Recovered(node[n], n).state = "Inactive"
      BY Facts, RecoveredType
    <3>2. /\ node'[s] = r /\ \A x \in Nodes : x # s /\ x # n => node'[x] = node[x]
          /\ node'[n] = Recovered(node[n], n)
      BY <1>5, <1>6, <2>2 DEF TypesOK, NodesOK
    <3>3. merging'[n] = None /\ \A x \in Others(n) : merging'[x] = merging[x]
      BY <2>2 DEF TypesOK, MergingsOK, Others
    <3>4. QED
      BY <3>1, <3>2, <3>3
  <2>3. QED
    BY <1>7, <2>1, <2>2
<1>9. \/ r = node[s]
      \/ /\ r # node[s] /\ node[s].state = "Reorganization" /\ node[s].group = k.group
         /\ r.state = "Normal" /\ r.slave = TRUE /\ r.group = k.group /\ llu[s] = llu[n]
  <2>1. CASE r = Readied(s, n) /\ r # node[s]
    <3>1. s \in Nodes /\ k = merging[n] /\ TypesOK /\ n \in Nodes /\ merging[n].step = "ready"
      BY <1>1, <1>4, <1>5
    <3>2. LET q == Readied(s, n) IN
          /\ q.group = node[s].group
          /\ \/ q = node[s]
             \/ /\ node[s].state = "Reorganization" /\ node[s].group = merging[n].group
                /\ q.state = "Normal" /\ q.slave = TRUE
      BY <3>1, ReadiedType, ZenonT(60)
    <3>3. QED
      BY <1>6, <1>7, <2>1, <3>1, <3>2
  <2>2. QED
    BY <1>7, <2>1
\* Who is on duty: as before, or in the group of n with its LLU.
<1>10. \A t \in Nodes : node'[t].state = "Normal" =>
          \/ /\ node[t].state = "Normal"
             /\ node'[t].slave = node[t].slave /\ node'[t].group = node[t].group
          \/ /\ node'[t].slave = TRUE /\ node'[t].group = k.group
             /\ t = s /\ llu[t] = llu[n]
  BY <1>6, <1>8, <1>9
<1>11. \A group, g : group = k.group /\ g = llu[n][1] => Stamped(s, n, group, g)
  BY <1>1, <1>3, <1>4, <1>5, <1>6 DEF ElectionOK, InitOK
<1>12. s \in Others(n)
  BY <1>5, <1>6 DEF Others
<1>13. QED
  BY <1>1, <1>4, <1>6, <1>8, <1>10, <1>11, <1>12

\* ready() on a member keeps the observers in step.
LEMMA ReadySlaveSync ==
    ASSUME TypesOK, ElectionOK, SyncOK, NEW n \in Nodes, ReadySlave(n), lapses' = {}
    PROVE  SyncOK'
<1>1. PICK k : k = merging[n]
  OBVIOUS
<1>2. UNCHANGED <<observers, llu, shared, committed, sending, stamped>>
  BY ReadySlaveEffect
<1>3. k.step = "ready" /\ Synced(n) /\ node[n].group = k.group
  BY <1>1, ReadySlaveEffect
<1>4. /\ \A x \in Others(n) : merging'[x] = merging[x]
      /\ \/ merging'[n] = None
         \/ merging'[n].step = "ready" /\ merging'[n].group = k.group
  BY <1>1, ReadySlaveEffect
<1>5. \A t \in Nodes : node'[t].state = "Normal" =>
          \/ /\ node[t].state = "Normal"
             /\ node'[t].slave = node[t].slave /\ node'[t].group = node[t].group
          \/ node'[t].slave = TRUE /\ node'[t].group = k.group /\ llu[t] = llu[n] /\ t # n
  BY <1>1, ReadySlaveEffect DEF Others
<1>6. \A x, o : Unsent(x, o) = Unsent(x, o)'
  BY <1>2 DEF Unsent
<1>7. ASSUME NEW x \in Nodes
      PROVE  FormingOK(x)'
  <2>1. CASE x # n
    <3>1. merging'[x] = merging[x]
      BY <1>4, <2>1 DEF Others
    <3>2. Synced(x) => merging[x].group # k.group
      BY <1>1, <1>3, <2>1 DEF ElectionOK, GroupsApart, MergeOK, Synced
    <3>3. QED
      BY <1>2, <1>5, <3>1, <3>2, FormingKept DEF SyncOK, Synced
  <2>2. CASE x = n
    <3>1. CASE merging'[n] = None
      BY <2>2, <3>1 DEF FormingOK, Synced, None
    <3>2. CASE merging'[n].step = "ready" /\ merging'[n].group = k.group
      <4>1. PICK g : g = llu[n][1]
        OBVIOUS
      <4>2. PICK group : group = k.group
        OBVIOUS
      <4>3. /\ \A o \in observers[n] :
                  Stamped(o.id, n, group, g) /\ (llu[o.id] = llu[n] => shared[o.id] = shared[n])
            /\ \A t \in Nodes : node[t].state = "Normal" /\ node[t].group = group => llu[t] = llu[n]
        BY <1>1, <1>3, <4>1, <4>2 DEF SyncOK, FormingOK
      <4>4. \A t, c, z, h : Stamped(t, c, z, h) => Stamped(t, c, z, h)'
        BY <1>2, WonStays
      <4>5. /\ \A o \in observers'[n] :
                  Stamped(o.id, n, group, g)'
                  /\ (llu'[o.id] = llu'[n] => shared'[o.id] = shared'[n])
            /\ \A t \in Nodes : node'[t].state = "Normal" /\ node'[t].group = group =>
                  llu'[t] = llu'[n]
        BY <1>2, <1>5, <4>2, <4>3, <4>4
      <4>6. QED
        BY <1>2, <2>2, <3>2, <4>1, <4>2, <4>5 DEF FormingOK
    <3>3. QED
      BY <1>4, <3>1, <3>2
  <2>3. QED
    BY <2>1, <2>2
<1>8. ASSUME NEW x \in Nodes
      PROVE  DutyOK(x)'
  <2>1. Master(x)' => Master(x) /\ node'[x].group = node[x].group
    BY <1>5 DEF Master
  <2>2. Master(x) => node[x].group # k.group
    BY <1>1, <1>3, GroupOwner
  <2>3. Master(x)' => SlavesOf(x)' \subseteq SlavesOf(x)
    BY <1>5, <2>1, <2>2 DEF SlavesOf
  <2>4. QED
    BY <1>2, <1>6, <2>1, <2>3, DutyKept DEF SyncOK
<1>9. QED
  BY <1>7, <1>8 DEF SyncOK

\* A new master: its observers on duty have its LLU, and so its database.
LEMMA ReadyDoneSync ==
    ASSUME TypesOK, ElectionOK, SyncOK, NEW n \in Nodes, ReadyDone(n)
    PROVE  SyncOK'
<1>1. /\ UNCHANGED <<observers, llu, shared, committed, sending, stamped>>
      /\ merging[n].step = "ready" /\ merging' = [merging EXCEPT ![n] = None]
  BY DEF ReadyDone, replicaVars, history
<1>2. /\ node[n].coord = n /\ merging[n].group = node[n].group /\ Synced(n)
      /\ node[n].state = "Reorganization"
  BY <1>1 DEF ElectionOK, MergeOK, Synced
<1>3. /\ \A x \in Others(n) : node'[x] = node[x] /\ merging'[x] = merging[x]
      /\ node'[n].state = "Normal" /\ node'[n].slave = FALSE /\ node'[n].group = node[n].group
      /\ merging'[n] = None
  BY <1>1, <1>2, Facts DEF ReadyDone, TypesOK, NodesOK, NodeRecords, MergingsOK, Others
<1>4. \A x, o : Unsent(x, o) = Unsent(x, o)'
  BY <1>1 DEF Unsent
<1>5. FormingOK(n)' /\ DutyOK(n)'
  <2>1. FormingOK(n)'
    BY <1>3 DEF FormingOK, Synced, None
  <2>2. ASSUME NEW o \in observers'[n], (o.id \in SlavesOf(n))'
        PROVE  shared'[o.id] = shared'[n]
    <3>1. o \in observers[n] /\ o.id \in Nodes /\ o.id # n
      BY <1>1, <2>2, Facts DEF Infos, ElectionOK, UpdateOK
    <3>2. node[o.id].state = "Normal" /\ node[o.id].group = merging[n].group
      BY <1>2, <1>3, <2>2, <3>1 DEF SlavesOf, Others
    <3>3. QED
      BY <1>1, <1>2, <3>1, <3>2 DEF SyncOK, FormingOK
  <2>3. QED
    BY <2>1, <2>2 DEF DutyOK
<1>6. ASSUME NEW x \in Others(n)
      PROVE  FormingOK(x)' /\ DutyOK(x)'
  <2>1. x \in Nodes /\ x # n /\ node'[x] = node[x] /\ merging'[x] = merging[x]
    BY <1>3 DEF Others
  <2>2. Synced(x) => merging[x].group # node[n].group
    BY <1>1, <2>1 DEF ElectionOK, GroupsApart, MergeOK, Synced
  <2>3. FormingOK(x)'
    <3>1. \A t \in Nodes :
             Synced(x) /\ node'[t].state = "Normal" /\ node'[t].group = merging[x].group =>
             node[t].state = "Normal" /\ node[t].group = node'[t].group
      BY <1>3, <2>2 DEF Others
    <3>2. QED
      BY <1>1, <2>1, <3>1, FormingKept DEF SyncOK, Synced
  <2>4. DutyOK(x)'
    <3>1. SlavesOf(x)' \subseteq SlavesOf(x)
      BY <1>3, <2>1 DEF SlavesOf, Others
    <3>2. QED
      BY <1>1, <1>4, <2>1, <3>1, DutyKept DEF SyncOK, Master
  <2>5. QED
    BY <2>3, <2>4
<1>7. QED
  BY <1>5, <1>6 DEF SyncOK, Others

\* A commit keeps the observers in step.
LEMMA UpdateCommitSync ==
    ASSUME TypesOK, ElectionOK, SyncOK, NEW m \in Nodes, UpdateCommit(m), lapses' = {}
    PROVE  SyncOK'
<1> DEFINE stamp == <<llu[m][1], llu[m][2] + 1>>
<1>1. UNCHANGED <<node, merging, sending, observers, stamped>> /\ Master(m)
  BY DEF UpdateCommit, processVars, ElectionOK, UpdateOK, Quiet
<1>2. \A x \in Nodes : observers'[x] \subseteq observers[x]
  BY <1>1
<1>3. ~Synced(m) /\ node[m].coord = m
  BY <1>1, GroupOwner
<1>4. /\ \A x \in Others(m) :
            llu'[x] = llu[x] /\ committed'[x] = committed[x] /\ shared'[x] = shared[x]
      /\ shared'[m] = shared[m] \cup {updates + 1} /\ llu'[m] = stamp /\ stamp[1] = llu[m][1]
      /\ committed'[m] = committed[m] \cup {[id |-> updates + 1, llu |-> stamp]}
  BY DEF UpdateCommit, TypesOK, DataOK, VersionsOK, Others
<1> HIDE DEF stamp
<1>5. ASSUME NEW x \in Others(m)
      PROVE  FormingOK(x)'
  <2>1. x \in Nodes /\ llu'[x] = llu[x] /\ shared'[x] = shared[x]
    BY <1>4 DEF Others
  <2>2. ASSUME NEW o \in observers'[x], Synced(x), llu'[o.id] = llu[x]
        PROVE  llu'[o.id] = llu[o.id] /\ shared'[o.id] = shared[o.id]
    <3>1. o \in observers[x] /\ o.id \in Nodes
      BY <1>2, <2>1, <2>2, Facts DEF Infos
    <3>2. o.id # m
      <4> SUFFICES ASSUME o.id = m PROVE FALSE
        OBVIOUS
      <4> DEFINE y == [id |-> m, coord |-> x, group |-> merging[x].group,
                          generation |-> llu[x][1]]
                 z == [id |-> m, coord |-> m, group |-> node[m].group, generation |-> llu[m][1]]
      <4>1. y \in stamped
        BY <2>1, <2>2, <3>1 DEF SyncOK, FormingOK, Stamped
      <4>2. z \in stamped
        BY <1>1, <1>3 DEF ElectionOK, RoleOK, Stamped, Master
      <4>3. llu[x][1] = llu[m][1]
        BY <1>4, <2>2
      <4>4. y = z
        BY <4>1, <4>2, <4>3 DEF ElectionOK, StampsOK
      <4>5. QED
        BY <4>4 DEF Others
    <3>3. QED
      BY <1>4, <3>1, <3>2 DEF Others
  <2>3. \A s \in Nodes : Synced(x) /\ node'[s].state = "Normal"
                         /\ node'[s].group = merging[x].group =>
            node[s].state = "Normal" /\ node[s].group = node'[s].group /\ llu'[s] = llu[s]
    BY <1>1, <1>4, <2>1, GroupOwner DEF Others
  <2>4. QED
    BY <1>1, <1>2, <2>1, <2>2, <2>3, FormingKept DEF SyncOK, Synced
<1>6. FormingOK(m)'
  BY <1>1, <1>3 DEF FormingOK, Synced
<1>7. ASSUME NEW x \in Others(m)
      PROVE  DutyOK(x)'
  <2>1. x \in Nodes /\ shared'[x] = shared[x]
    BY <1>4 DEF Others
  <2>2. ASSUME NEW o \in observers'[x], o.id \in SlavesOf(x)
        PROVE  o \in observers[x] /\ shared'[o.id] = shared[o.id]
               /\ Unsent(x, o) \subseteq Unsent(x, o)'
    <3>1. o \in observers[x] /\ o.id \in Others(m)
      BY <1>1, <1>2, <2>1, <2>2 DEF SlavesOf, Others, Master
    <3>2. QED
      BY <1>1, <1>4, <3>1 DEF Unsent
  <2>3. SlavesOf(x)' = SlavesOf(x) /\ Master(x)' = Master(x)
    BY <1>1 DEF SlavesOf, Master
  <2>4. QED
    BY <2>1, <2>2, <2>3, DutyKept DEF SyncOK
<1>8. DutyOK(m)'
  <2>1. ASSUME NEW o \in observers'[m], (o.id \in SlavesOf(m))'
        PROVE  shared'[o.id] \subseteq shared'[m]
               /\ shared'[m] \ shared'[o.id] \subseteq Unsent(m, o)'
    <3>1. o \in observers[m] /\ o.id \in SlavesOf(m) /\ o.id \in Others(m)
      BY <1>1, <1>2, <2>1 DEF SlavesOf, Others, Master
    <3>2. shared[o.id] \subseteq shared[m] /\ shared[m] \ shared[o.id] \subseteq Unsent(m, o)
      BY <1>1, <3>1 DEF SyncOK, DutyOK
    <3>3. Unsent(m, o) \subseteq Unsent(m, o)' /\ updates + 1 \in Unsent(m, o)'
      <4>1. PICK id : id = updates + 1
        OBVIOUS
      <4> DEFINE v == [id |-> updates + 1, llu |-> stamp]
      <4>2. committed[m] \subseteq committed'[m] /\ v \in committed'[m] /\ v.id = id
        BY <1>4, <4>1
      <4> HIDE DEF v
      <4>3. Ids(committed[m]) \subseteq Ids(committed'[m]) /\ id \in Ids(committed'[m])
        BY <4>2 DEF Ids
      <4>4. QED
        BY <1>1, <4>1, <4>3 DEF Unsent
    <3>4. QED
      BY <1>4, <3>1, <3>2, <3>3
  <2>2. QED
    BY <2>1 DEF DutyOK
<1>9. QED
  BY <1>5, <1>6, <1>7, <1>8 DEF SyncOK, Others

\* All the observers are sent the update.
LEMMA UpdateSendSync ==
    ASSUME TypesOK, ElectionOK, SyncOK, NEW m \in Nodes, UpdateSend(m)
    PROVE  SyncOK'
<1>1. /\ UNCHANGED <<node, merging, observers, llu, shared, stamped>>
      /\ sending[m] = None
  BY DEF UpdateSend, processVars
<1>2. PICK u \in committed[m] :
         /\ committed' = [committed EXCEPT ![m] = @ \ {u}]
         /\ sending' = [sending EXCEPT ![m] =
                          [step |-> "sending", id |-> u.id, llu |-> u.llu, todo |-> observers[m]]]
  BY DEF UpdateSend
<1>3. /\ committed'[m] = committed[m] \ {u}
      /\ sending'[m] = [step |-> "sending", id |-> u.id, llu |-> u.llu, todo |-> observers[m]]
      /\ \A x \in Others(m) : committed'[x] = committed[x] /\ sending'[x] = sending[x]
  BY <1>2 DEF TypesOK, VersionsOK, Others
<1>4. ASSUME NEW x \in Nodes, NEW o \in observers'[x]
      PROVE  Unsent(x, o) \subseteq Unsent(x, o)'
  <2>1. CASE x = m
    <3>1. Ids(committed[m]) \subseteq Ids(committed'[m]) \cup {u.id}
      BY <1>3 DEF Ids
    <3>2. sending'[m] # None /\ sending'[m].id = u.id /\ o \in sending'[m].todo
      BY <1>1, <1>3, <1>4, <2>1 DEF None
    <3>3. QED
      BY <1>1, <2>1, <3>1, <3>2 DEF Unsent
  <2>2. CASE x \in Others(m)
    BY <1>3, <2>2 DEF Unsent
  <2>3. QED
    BY <2>1, <2>2 DEF Others
<1>5. QED
  BY <1>1, <1>4, NoneGoesOnDuty DEF Synced

\* finishUpdate() keeps the observers in step.
LEMMA UpdateFinishSync ==
    ASSUME TypesOK, SyncOK, NEW m \in Nodes, UpdateFinish(m)
    PROVE  SyncOK'
<1>1. /\ UNCHANGED <<node, merging, observers, llu, shared, committed, stamped>>
      /\ sending[m].todo = {} /\ sending' = [sending EXCEPT ![m] = None]
  BY DEF UpdateFinish, processVars
<1>2. sending'[m] = None /\ \A x \in Others(m) : sending'[x] = sending[x]
  BY <1>1 DEF TypesOK, VersionsOK, Others
<1>3. \A x \in Nodes : \A o : Unsent(x, o) \subseteq Unsent(x, o)'
  BY <1>1, <1>2 DEF Unsent, Others
<1>4. QED
  BY <1>1, <1>3, NoneGoesOnDuty DEF Synced

\* An observer takes the update, or is an observer no longer.
LEMMA ReplicateSync ==
    ASSUME TypesOK, ElectionOK, SyncOK, NEW m \in Nodes, NEW o \in observers[m], Replicate(m, o),
           lapses' = {}
    PROVE  SyncOK'
<1>1. PICK s : s = o.id
  OBVIOUS
<1>2. PICK u : u = sending[m]
  OBVIOUS
<1>3. /\ UNCHANGED <<merging, committed, stamped>>
      /\ u # None /\ sending' = [sending EXCEPT ![m].todo = @ \ {o}]
  BY <1>2 DEF Replicate, processVars
<1>4. /\ s \in Nodes /\ s # m /\ Master(m) /\ u.llu[1] = llu[m][1] /\ u.id \in shared[m]
      /\ node[m].generation = llu[m][1]
  BY <1>1, <1>2, <1>3, Facts, SendingFacts DEF ElectionOK, UpdateOK, Infos
<1>5. /\ sending'[m] # None /\ sending'[m].id = u.id /\ sending'[m].todo = u.todo \ {o}
      /\ \A x \in Others(m) : sending'[x] = sending[x]
  <2>1. /\ u \in [step : {"sending"}, id : 1..updates, llu : Stamps, todo : SUBSET Infos]
    BY <1>2, <1>3, SendingKinds DEF TypesOK
  <2>2. sending'[m] = [u EXCEPT !.todo = @ \ {o}] /\ \A x \in Others(m) : sending'[x] = sending[x]
    BY <1>2, <1>3 DEF TypesOK, VersionsOK, Others
  <2>3. sending'[m].step = "sending" /\ sending'[m].id = u.id /\ sending'[m].todo = u.todo \ {o}
    BY <2>1, <2>2
  <2>4. QED
    BY <2>2, <2>3 DEF None
<1>6. \A x \in Nodes : observers'[x] \subseteq observers[x]
  BY DEF Replicate, TypesOK, DataOK
<1>7. ASSUME NEW x \in Nodes, NEW p, x # m \/ p # o
      PROVE  Unsent(x, p) \subseteq Unsent(x, p)'
  BY <1>2, <1>3, <1>5, <1>7 DEF Unsent, Others
<1>8. CASE /\ UNCHANGED <<llu, shared>> /\ o \notin observers'[m]
           /\ UNCHANGED node \/ node' = [node EXCEPT ![s] = Recovered(node[s], s)]
  <2>1. \A t \in Nodes : node'[t].state = "Normal" =>
              /\ node[t].state = "Normal"
              /\ node'[t].slave = node[t].slave /\ node'[t].group = node[t].group
    <3>1. Recovered(node[s], s).state = "Inactive"
      BY <1>4, Facts, RecoveredType
    <3>2. \A t \in Nodes : node'[t] = node[t] \/ (node'[t] = Recovered(node[s], s) /\ t = s)
      <4>1. CASE UNCHANGED node
        BY <4>1
      <4>2. CASE node' = [node EXCEPT ![s] = Recovered(node[s], s)]
        BY <4>2 DEF TypesOK, NodesOK
      <4>3. QED
        BY <1>8, <4>1, <4>2
    <3>3. QED
      BY <3>1, <3>2
  <2>2. \A x \in Nodes : \A p \in observers'[x] : Unsent(x, p) \subseteq Unsent(x, p)'
    BY <1>7, <1>8
  <2>3. QED
    BY <1>3, <1>6, <1>8, <2>1, <2>2, NoneGoesOnDuty DEF Synced
<1>9. CASE /\ TakesUpdate(s, u) /\ UNCHANGED node
           /\ shared' = [shared EXCEPT ![s] = @ \cup {u.id}]
           /\ llu' = [llu EXCEPT ![s] = u.llu]
  <2>1. /\ llu'[s] = u.llu /\ shared'[s] = shared[s] \cup {u.id}
        /\ \A x \in Others(s) : llu'[x] = llu[x] /\ shared'[x] = shared[x]
    BY <1>4, <1>9 DEF TypesOK, DataOK, Others
  <2>2. /\ node[s].state = "Normal" /\ node[s].slave /\ node[s].group = node[m].group
        /\ node[s].coord = m /\ llu[s][1] = u.llu[1]
    <3>1. /\ node[s].state = "Normal" /\ node[s].slave /\ node[s].generation = node[m].generation
          /\ node[m].state = "Normal" /\ node[m].coord = m
      BY <1>4, <1>9, GroupOwner DEF TakesUpdate, Master
    <3>2. llu[s][1] = u.llu[1]
      BY <1>4, <3>1 DEF ElectionOK, RoleOK
    <3>3. QED
      BY <1>4, <3>1, <3>2, SameGeneration
  <2>3. ~Synced(s) /\ ~Synced(m)
    BY <1>4, <2>2 DEF ElectionOK, MergeOK, Synced, Master
  <2>4. ASSUME NEW x \in Nodes
        PROVE  FormingOK(x)'
    <3>1. CASE ~Synced(x)
      BY <1>3, <3>1 DEF FormingOK, Synced
    <3>2. CASE Synced(x)
      <4>1. x \in Others(s) /\ x # m /\ llu'[x] = llu[x] /\ shared'[x] = shared[x]
        BY <2>1, <2>3, <3>2 DEF Others
      <4>2. merging[x].group # node[m].group
        BY <1>4, <3>2, GroupOwner
      <4>3. ASSUME NEW p \in observers'[x], llu'[p.id] = llu[x]
            PROVE  llu'[p.id] = llu[p.id] /\ shared'[p.id] = shared[p.id]
        <5>1. p \in observers[x] /\ p.id \in Nodes
          BY <1>6, <4>3, Facts DEF Infos
        <5>2. p.id # s
          <6> SUFFICES ASSUME p.id = s PROVE FALSE
            OBVIOUS
          <6> DEFINE y == [id |-> s, coord |-> x, group |-> merging[x].group,
                              generation |-> llu[x][1]]
                     z == [id |-> s, coord |-> node[s].coord, group |-> node[s].group,
                           generation |-> llu[s][1]]
          <6>1. y \in stamped
            BY <3>2, <5>1 DEF SyncOK, FormingOK, Stamped
          <6>2. z \in stamped
            BY <1>4, <2>2 DEF ElectionOK, RoleOK, Stamped
          <6>3. llu[x][1] = llu[s][1]
            BY <2>1, <2>2, <4>3
          <6>4. y = z
            BY <6>1, <6>2, <6>3 DEF ElectionOK, StampsOK
          <6>5. QED
            BY <2>2, <4>1, <6>4
        <5>3. QED
          BY <2>1, <5>1, <5>2 DEF Others
      <4>4. \A t \in Nodes : node'[t].state = "Normal" /\ node'[t].group = merging[x].group =>
               node[t].state = "Normal" /\ node[t].group = node'[t].group /\ llu'[t] = llu[t]
        BY <1>9, <2>1, <2>2, <4>2 DEF Others
      <4>5. QED
        BY <1>3, <1>6, <4>1, <4>3, <4>4, FormingKept DEF SyncOK, Synced
    <3>3. QED
      BY <3>1, <3>2
  <2>5. ASSUME NEW x \in Nodes
        PROVE  DutyOK(x)'
    <3>1. Master(x)' = Master(x) /\ SlavesOf(x)' = SlavesOf(x)
      BY <1>9 DEF Master, SlavesOf
    <3>2. CASE x = m
      <4>1. shared'[m] = shared[m]
        BY <1>4, <2>1 DEF Others
      <4>2. ASSUME NEW p \in observers'[m], p.id \in SlavesOf(m)
            PROVE  shared'[p.id] \subseteq shared'[m]
                   /\ shared'[m] \ shared'[p.id] \subseteq Unsent(m, p)'
        <5>1. p \in observers[m] /\ p.id \in Nodes
          BY <1>6, <4>2 DEF SlavesOf
        <5>2. shared[p.id] \subseteq shared[m] /\ shared[m] \ shared[p.id] \subseteq Unsent(m, p)
          BY <1>4, <4>2, <5>1 DEF SyncOK, DutyOK
        <5>3. shared'[p.id] \subseteq shared'[m] /\ shared[p.id] \subseteq shared'[p.id]
          BY <1>4, <2>1, <4>1, <5>1, <5>2 DEF Others
        <5>4. CASE p # o
          <6>1. Unsent(m, p) \subseteq Unsent(m, p)'
            BY <1>7, <5>4
          <6>2. QED
            BY <4>1, <5>2, <5>3, <6>1
        <5>5. CASE p = o
          <6>1. u.id \in shared'[p.id]
            BY <1>1, <2>1, <5>5
          <6>2. Unsent(m, p) \ {u.id} \subseteq Unsent(m, p)'
            BY <1>2, <1>3 DEF Unsent
          <6>3. QED
            BY <4>1, <5>2, <5>3, <6>1, <6>2
        <5>6. QED
          BY <5>4, <5>5
      <4>3. QED
        BY <3>1, <3>2, <4>2 DEF DutyOK
    <3>3. CASE x # m
      <4>1. CASE ~Master(x)
        BY <3>1, <4>1 DEF DutyOK
      <4>2. CASE Master(x)
        <5>1. s \notin SlavesOf(x) /\ x # s
          BY <1>4, <2>2, <3>3, <4>2, GroupOwner DEF SlavesOf, Master
        <5>2. shared'[x] = shared[x]
          BY <2>1, <5>1 DEF Others
        <5>3. ASSUME NEW p \in observers'[x], p.id \in SlavesOf(x)
              PROVE  p \in observers[x] /\ shared'[p.id] = shared[p.id]
                     /\ Unsent(x, p) \subseteq Unsent(x, p)'
          <6>1. p.id \in Others(s)
            BY <5>1, <5>3 DEF SlavesOf, Others
          <6>2. QED
            BY <1>6, <1>7, <2>1, <3>3, <6>1
        <5>4. QED
          BY <3>1, <4>2, <5>2, <5>3, DutyKept DEF SyncOK
      <4>3. QED
        BY <4>1, <4>2
    <3>4. QED
      BY <3>2, <3>3
  <2>6. QED
    BY <2>4, <2>5 DEF SyncOK
<1>10. QED
  <2>1. \/ /\ TakesUpdate(s, u) /\ UNCHANGED node
           /\ shared' = [shared EXCEPT ![s] = @ \cup {u.id}]
           /\ llu' = [llu EXCEPT ![s] = u.llu]
        \/ /\ UNCHANGED <<llu, shared>> /\ observers' = [observers EXCEPT ![m] = @ \ {o}]
           /\ UNCHANGED node \/ node' = [node EXCEPT ![s] = Recovered(node[s], s)]
    BY <1>1, <1>2 DEF Replicate
  <2>2. observers' = [observers EXCEPT ![m] = @ \ {o}] => o \notin observers'[m]
    BY DEF TypesOK, DataOK
  <2>3. QED
    BY <1>8, <1>9, <2>1, <2>2

\* A crash changes no database, and takes no node on duty.
LEMMA CrashCalm ==
    ASSUME TypesOK, NEW n \in Nodes, Crash(n)
    PROVE  Calm
<1>1. /\ UNCHANGED <<llu, shared, stamped, updates>>
      /\ \A x \in Others(n) :
            /\ node'[x] = node[x] /\ merging'[x] = merging[x]
            /\ committed'[x] = committed[x] /\ sending'[x] = sending[x]
      /\ merging'[n] = None /\ node'[n] = Blank(n, "Down")
      /\ \A x \in Nodes : observers'[x] \subseteq observers[x]
  BY DEF Crash, history, counts, TypesOK, NodesOK, MergingsOK, VersionsOK, DataOK, Others
<1>2. node'[n].state = "Down"
  BY <1>1 DEF Blank
<1>3. \A t \in Nodes : node'[t].state = "Normal" => t # n
  BY <1>2
<1>4. \A x \in Nodes : Master(x)' => x # n
  BY <1>3 DEF Master
<1>5. \A x \in Nodes : Synced(x)' => x # n
  BY <1>1 DEF Synced, None
<1>6. QED
  BY <1>1, <1>3, <1>4, <1>5 DEF Calm, SameSending, Others, Synced

\* A restart changes no database, and takes no node on duty.
LEMMA RestartCalm ==
    ASSUME TypesOK, ElectionOK, NEW n \in Nodes, Restart(n), lapses' = {}
    PROVE  Calm
<1>1. UNCHANGED <<merging, observers, shared, committed, sending, stamped, updates>>
      /\ node[n].state = "Down"
  BY DEF Restart, processVars, counts
<1>2. UNCHANGED llu
  BY DEF Restart, Lapse, TypesOK, DataOK
<1>3. node'[n].state = "Inactive" /\ \A x \in Others(n) : node'[x] = node[x]
  BY DEF Restart, Blank, TypesOK, NodesOK, Others
<1>4. ~Synced(n)'
  BY <1>1 DEF ElectionOK, MergeOK, Synced
<1>5. QED
  BY <1>1, <1>2, <1>3, <1>4, OneLeaves

\* check() of the observers changes no database, and takes no node on duty.
LEMMA CheckObserversCalm ==
    ASSUME TypesOK, NEW n \in Nodes, CheckObservers(n)
    PROVE  Calm
<1>1. UNCHANGED <<node, merging, llu, shared, committed, sending, stamped, updates>>
  BY DEF CheckObservers, processVars, history
<1>2. \A x \in Nodes : observers'[x] \subseteq observers[x]
  BY DEF CheckObservers, TypesOK, DataOK
<1>3. QED
  BY <1>1, <1>2, DutiesSame

\* startUpdate() changes no database, and takes no node on duty.
LEMMA UpdateStartCalm ==
    ASSUME TypesOK, ElectionOK, NEW n \in Nodes, UpdateStart(n)
    PROVE  Calm
<1>1. UNCHANGED <<merging, observers, llu, shared, committed, sending, stamped, updates>>
  BY DEF UpdateStart, processVars, history, counts
<1>2. CASE Master(n) /\ node' = [node EXCEPT ![n] = Recovered(node[n], n)]
  <2>1. node'[n].state = "Inactive" /\ \A x \in Others(n) : node'[x] = node[x]
    BY <1>2, Facts, RecoveredType DEF TypesOK, NodesOK, Others
  <2>2. ~Synced(n)
    BY <1>2, GroupOwner
  <2>3. QED
    BY <1>1, <2>1, <2>2, OneLeaves DEF Synced
<1>3. CASE UNCHANGED node
  BY <1>1, <1>3, DutiesSame
<1>4. QED
  BY <1>2, <1>3 DEF UpdateStart

\* A subscriber that fails changes neither.
LEMMA SubscriberFailsCalm ==
    ASSUME NEW n \in Nodes, SubscriberFails(n)
    PROVE  Calm
<1>1. UNCHANGED <<node, merging, observers, llu, shared, committed, sending, stamped, updates>>
  BY DEF SubscriberFails, processVars
<1>2. QED
  BY <1>1, DutiesSame

\* The steps that change databases, or take nodes on duty; the others are calm.
Replicating ==
    \E n \in Nodes : \/ Sync(n) \/ InitSlave(n) \/ ReadySlave(n) \/ ReadyDone(n)
                     \/ UpdateCommit(n) \/ UpdateSend(n) \/ UpdateFinish(n)
                     \/ \E o \in observers[n] : Replicate(n, o)

\* A step without a lapse is calm, unless it replicates.
LEMMA NextCalm ==
    ASSUME TypesOK, ElectionOK, [Next]_vars, lapses' = {}, ~assertFailed', ~Replicating
    PROVE  Calm
<1>1. ASSUME NEW n \in Nodes, Timer(n) PROVE Calm
  BY <1>1, CheckCalm, MergeCalm, TimeoutCalm, MergeContinueCalm DEF Timer, Replicating
<1>2. ASSUME NEW n \in Nodes, Crash(n) \/ Restart(n) PROVE Calm
  BY <1>2, CrashCalm, RestartCalm
<1>3. ASSUME Dispatch PROVE Calm
  BY <1>3, InvitationCalm, AcceptCalm, JoinCalm DEF Dispatch
<1>4. CASE UNCHANGED vars
  BY <1>4, DutiesSame DEF vars, processVars, replicaVars, history, counts
<1>5. ASSUME NEW n \in Nodes, Update(n) PROVE Calm
  BY <1>5, CheckObserversCalm, UpdateStartCalm, SubscriberFailsCalm DEF Update, Replicating
<1>6. QED
  BY <1>1, <1>2, <1>3, <1>4, <1>5 DEF Next

\* A step without a lapse keeps the observers in step.
LEMMA NextSync ==
    ASSUME TypesOK, TypesOK', ElectionOK, SyncOK, [Next]_vars, lapses' = {}, ~assertFailed'
    PROVE  SyncOK'
<1>1. ASSUME Replicating PROVE SyncOK'
  BY <1>1, SyncSync, InitSlaveSync, ReadySlaveSync, ReadyDoneSync, UpdateCommitSync,
     UpdateSendSync, UpdateFinishSync, ReplicateSync DEF Replicating
<1>2. QED
  BY <1>1, NextCalm, CalmSync

-----------------------------------------------------------------------------
(***************************************************************************)
(* An LLU names the database                                               *)
(***************************************************************************)

\* LLUs are in a strict order, of which none are alike.
LEMMA NewerOrder ==
    /\ \A a, b \in Stamps : Newer(a, b) \/ Newer(b, a) \/ a = b
    /\ \A a, b, c \in Stamps : ~Newer(a, b) /\ ~Newer(b, c) => ~Newer(a, c)
    /\ \A a, b, c \in Stamps : Newer(a, b) /\ ~Newer(c, b) => Newer(a, c)
    /\ \A a, b \in Stamps : Newer(a, b) => ~Newer(b, a) /\ a # b
<1>1. \A a \in Stamps : a[1] \in Nat /\ a[2] \in Nat /\ a = <<a[1], a[2]>>
  BY DEF Stamps
<1>2. \A a, b \in Stamps : a[1] = b[1] /\ a[2] = b[2] => a = b
  BY DEF Stamps
<1>3. \A a, b \in Stamps : Newer(a, b) \/ Newer(b, a) \/ a = b
  BY <1>1, <1>2 DEF Newer
<1>4. QED
  BY <1>1, <1>3 DEF Newer

\* What a master replicates stays true where its databases, and who is on duty for it, do.
LEMMA MasterKept ==
    ASSUME NEW x \in Nodes, MasterOK(x),
           Master(x)' =>
              /\ Master(x) /\ llu'[x] = llu[x] /\ shared'[x] = shared[x]
              /\ committed'[x] = committed[x] /\ SameSending(x)
              /\ observers'[x] \subseteq observers[x],
           \A s \in Nodes : Master(x)' /\ s \in SlavesOf(x)' =>
              s \in SlavesOf(x) /\ llu'[s] = llu[s] /\ shared'[s] = shared[s]
    PROVE  MasterOK(x)'
<1> SUFFICES ASSUME Master(x)' PROVE MasterOK(x)'
  BY DEF MasterOK
<1>1. VersionsInOrder(x) /\ SameSending(x) /\ \A s \in SlavesOf(x) : SlaveOK(x, s)
  BY DEF MasterOK
<1>2. VersionsInOrder(x)'
  BY <1>1 DEF VersionsInOrder, SameSending
<1>3. ASSUME NEW s \in SlavesOf(x)'
      PROVE  SlaveOK(x, s)'
  <2>1. s \in Nodes
    BY DEF SlavesOf
  <2>2. QED
    BY <1>1, <2>1 DEF SlaveOK, SameSending
<1>4. ASSUME NEW o \in observers'[x], o.id \in SlavesOf(x)'
      PROVE  ObserverOK(x, o)'
  <2>1. o.id \in Nodes /\ o \in observers[x]
    BY <1>4 DEF SlavesOf
  <2>2. ObserverOK(x, o)
    BY <1>4, <2>1 DEF MasterOK
  <2>3. QED
    BY <1>1, <1>4, <2>1, <2>2 DEF ObserverOK, SameSending
<1>5. QED
  BY <1>2, <1>3, <1>4 DEF MasterOK

\* The copies of a coordinator's database stay, unless its stamp is given to another node.
LEMMA CopiesKept ==
    ASSUME NEW x \in Nodes, CopiesOK(x),
           Synced(x)' =>
              /\ Synced(x) /\ merging'[x].group = merging[x].group
              /\ llu'[x] = llu[x] /\ shared'[x] = shared[x],
           \A s \in Nodes : \A group, g :
              Synced(x)' /\ group = merging[x].group /\ g = llu[x][1]
                 /\ Stamped(s, x, group, g)' /\ llu'[s] = llu[x] =>
              Stamped(s, x, group, g) /\ llu'[s] = llu[s] /\ shared'[s] = shared[s]
    PROVE  CopiesOK(x)'
<1> SUFFICES ASSUME Synced(x)' PROVE CopiesOK(x)'
  BY DEF CopiesOK
<1>1. PICK group : group = merging[x].group
  OBVIOUS
<1>2. PICK g : g = llu[x][1]
  OBVIOUS
<1>3. \A s \in Nodes : Stamped(s, x, group, g) /\ llu[s] = llu[x] => shared[s] = shared[x]
  BY <1>1, <1>2 DEF CopiesOK
<1>4. \A s \in Nodes : Stamped(s, x, group, g)' /\ llu'[s] = llu'[x] => shared'[s] = shared'[x]
  BY <1>1, <1>2, <1>3
<1>5. merging'[x].group = group /\ llu'[x][1] = g
  BY <1>1, <1>2
<1>6. QED
  BY <1>4, <1>5 DEF CopiesOK

\* One node goes on duty, or changes its database on duty.
LEMMA NamedKept ==
    ASSUME NamedOK, NEW s \in Nodes,
           \A x \in Others(s) : OnDuty(x)' =>
              OnDuty(x) /\ llu'[x] = llu[x] /\ shared'[x] = shared[x],
           \A x \in Others(s) : OnDuty(s)' /\ OnDuty(x)' /\ llu'[x] = llu'[s] =>
              shared'[x] = shared'[s]
    PROVE  NamedOK'
<1> SUFFICES ASSUME NEW m \in Nodes, NEW n \in Nodes, OnDuty(m)', OnDuty(n)', llu'[m] = llu'[n]
             PROVE  shared'[m] = shared'[n]
  BY DEF NamedOK
<1>1. CASE m # s /\ n # s
  BY <1>1 DEF NamedOK, Others
<1>2. CASE m = s \/ n = s
  BY <1>2 DEF Others
<1>3. QED
  BY <1>1, <1>2

\* A calm step keeps the names.
LEMMA CalmNames ==
    ASSUME TypesOK, NamesOK, Calm
    PROVE  NamesOK'
<1>1. KnownOK'
  BY DEF NamesOK, KnownOK, Calm
<1>2. ASSUME NEW x \in Nodes
      PROVE  MasterOK(x)'
  <2>1. Master(x)' => Master(x) /\ node'[x].group = node[x].group
    BY DEF Calm, Master
  <2>2. \A s \in Nodes : Master(x)' /\ s \in SlavesOf(x)' => s \in SlavesOf(x)
    BY <2>1 DEF Calm, SlavesOf
  <2>3. QED
    BY <2>1, <2>2, MasterKept DEF Calm, NamesOK
<1>3. ASSUME NEW x \in Nodes
      PROVE  CopiesOK(x)'
  <2>1. \A s, c, group, g : Stamped(s, c, group, g)' => Stamped(s, c, group, g)
    BY DEF Calm, Stamped
  <2>2. QED
    BY <2>1, CopiesKept DEF Calm, NamesOK
<1>4. NamedOK'
  BY DEF NamesOK, NamedOK, OnDuty, Calm
<1>5. QED
  BY <1>1, <1>2, <1>3, <1>4 DEF NamesOK

\* A node off duty is given a new generation by coordinator c: no other coordinator, and
\* no master, has to do with it.
LEMMA RestampedNames ==
    ASSUME TypesOK, ElectionOK, NamesOK, NEW s \in Nodes, node[s].state # "Normal",
           llu'[s][1] \in Nat, llu'[s][1] > llu[s][1],
           \A x \in Others(s) : llu'[x] = llu[x] /\ shared'[x] = shared[x],
           UNCHANGED <<committed, sending>>,
           \A t \in Nodes : node'[t].state = "Normal" =>
              /\ node[t].state = "Normal"
              /\ node'[t].slave = node[t].slave /\ node'[t].group = node[t].group,
           \A x \in Nodes : node[x].state = "Normal" => observers'[x] \subseteq observers[x],
           NEW c \in Nodes, \A x \in Others(c) : merging'[x] = merging[x],
           s = c \/ merging[s] = None,
           \A y \in stamped' : y \in stamped \/ y.coord = c
    PROVE  (\A x \in Nodes : MasterOK(x)') /\ (\A x \in Others(c) : CopiesOK(x)') /\ NamedOK'
<1>1. ASSUME NEW x \in Nodes
      PROVE  MasterOK(x)'
  <2>1. Master(x)' => Master(x) /\ x # s /\ node'[x].group = node[x].group
    BY DEF Master
  <2>2. \A t \in Nodes : Master(x)' /\ t \in SlavesOf(x)' => t \in SlavesOf(x) /\ t # s
    BY <2>1 DEF SlavesOf
  <2>3. Master(x)' => observers'[x] \subseteq observers[x]
    BY <2>1 DEF Master
  <2>4. SameSending(x) \/ ~Master(x)'
    BY <2>3 DEF SameSending
  <2>5. QED
    BY <2>1, <2>2, <2>3, <2>4, MasterKept DEF NamesOK, Others
<1>2. ASSUME NEW x \in Others(c)
      PROVE  CopiesOK(x)'
  <2>1. x \in Nodes /\ x # c /\ merging'[x] = merging[x]
    BY DEF Others
  <2>2. Synced(x) => x # s
    BY <2>1 DEF Synced, None
  <2>3. ASSUME NEW t \in Nodes, NEW group, NEW g, Synced(x), g = llu[x][1],
               Stamped(t, x, group, g)', llu'[t] = llu[x]
        PROVE  Stamped(t, x, group, g) /\ llu'[t] = llu[t] /\ shared'[t] = shared[t]
    <3> DEFINE y == [id |-> t, coord |-> x, group |-> group, generation |-> g]
    <3>1. y \in stamped' /\ y.coord = x /\ y.id = t /\ y.generation = g
      BY <2>3 DEF Stamped
    <3>2. y \in stamped
      BY <2>1, <3>1
    <3>3. g <= llu[t][1] /\ Stamped(t, x, group, g)
      BY <3>2 DEF ElectionOK, StampsOK, Stamped
    <3>4. t # s
      <4>1. g \in Nat /\ llu[t][1] \in Nat
        BY <2>1, <2>3, Facts
      <4>2. QED
        BY <2>3, <3>3, <4>1
    <3>5. QED
      BY <3>3, <3>4 DEF Others
  <2>4. QED
    BY <2>1, <2>2, <2>3, CopiesKept DEF NamesOK, Synced, Others
<1>3. NamedOK'
  <2>1. \A x \in Nodes : OnDuty(x)' => OnDuty(x) /\ x # s
    BY DEF OnDuty
  <2>2. QED
    BY <2>1, NamedKept DEF NamesOK, Others
<1>4. QED
  BY <1>1, <1>2, <1>3

\* The download of the best database and initMaster() keeps what the LLUs name.
LEMMA SyncNames ==
    ASSUME TypesOK, TypesOK', ReplicasOK, ElectionOK, NamesOK, ContentOK, NEW n \in Nodes,
           Sync(n), lapses' = {}
    PROVE  NamesOK'
<1>1. /\ UNCHANGED <<committed, sending, updates>>
      /\ merging[n].step = "sync"
  BY DEF Sync
<1>2. /\ node[n].state = "Reorganization"
      /\ merging[n].group = node[n].group /\ \A x \in stamped : x.group # node[n].group
  BY <1>1 DEF ElectionOK, MergeOK, Synced
<1>3. CASE GiveUp(n) /\ UNCHANGED <<shared, llu, stamped, lapses, observers>>
  BY <1>1, <1>3, GiveUpFacts, OneLeaves, CalmNames
<1>4. PICK best : best = Best(merging[n].members)
  OBVIOUS
<1>5. PICK stamp : stamp = NextStamp(best.llu)
  OBVIOUS
<1>6. PICK m : m = [step |-> "init", group |-> merging[n].group, members |-> merging[n].members,
                    todo |-> merging[n].members, stamp |-> stamp, content |-> topics'[n]]
  OBVIOUS
<1>7. CASE /\ shared' = [shared EXCEPT ![n] = topics'[n]]
           /\ \/ topics' = topics
              \/ topics' = [topics EXCEPT ![n] = topics[best.id] \ InError(n)]
           /\ llu' = [llu EXCEPT ![n] = stamp]
           /\ node' = [node EXCEPT ![n].max = Max({@, Cardinality(merging[n].members) + 1})]
           /\ stamped' = stamped \cup {Stamp(n, n, stamp)}
           /\ observers' = [observers EXCEPT ![n] = {}]
           /\ merging' = [merging EXCEPT ![n] = m]
           /\ lapses' = lapses
                \cup Lapse("reused", best.llu[1] < llu[n][1])
                \cup Lapse("deserted", CountedOn(n, n) \/ \E a \in merging[n].members :
                                                             llu[a.id] # a.llu)
  <2>1. /\ best.id \in Nodes /\ stamp[1] \in Nat /\ stamp[1] > llu[n][1]
    <3>1. ~(best.llu[1] < llu[n][1])
      BY <1>7 DEF Lapse
    <3>2. best \in Members /\ best.llu[1] \in Nat /\ stamp[1] = best.llu[1] + 1
      BY <1>1, <1>4, <1>5, BestOf
    <3>3. QED
      BY <3>1, <3>2, Facts DEF Members
  <2>2. /\ \A x \in Others(n) :
              /\ node'[x] = node[x] /\ llu'[x] = llu[x] /\ shared'[x] = shared[x]
              /\ merging'[x] = merging[x] /\ observers'[x] = observers[x]
        /\ node'[n].state = node[n].state /\ llu'[n] = stamp /\ merging'[n] = m
        /\ shared'[n] = topics'[n]
        /\ topics'[n] \subseteq shared[n] \/ topics'[n] \subseteq shared[best.id]
    <3>1. topics'[n] = topics[n] \/ topics'[n] \subseteq topics[best.id]
      BY <1>7 DEF ReplicasOK
    <3>2. topics'[n] \subseteq shared[n] \/ topics'[n] \subseteq shared[best.id]
      BY <2>1, <3>1 DEF ContentOK
    <3>3. QED
      BY <1>7, <3>2, Facts DEF TypesOK, NodesOK, NodeRecords, DataOK, MergingsOK, Others
  <2>3. Stamp(n, n, stamp) =
           [id |-> n, coord |-> n, group |-> merging[n].group, generation |-> stamp[1]]
    BY DEF Stamp
  <2>4. (\A x \in Nodes : MasterOK(x)') /\ (\A x \in Others(n) : CopiesOK(x)') /\ NamedOK'
    <3>1. \A t \in Nodes : node'[t].state = "Normal" =>
              /\ node[t].state = "Normal"
              /\ node'[t].slave = node[t].slave /\ node'[t].group = node[t].group
      BY <1>2, <2>2 DEF Others
    <3>2. \A x \in Nodes : node[x].state = "Normal" => observers'[x] \subseteq observers[x]
      BY <1>2, <2>2 DEF Others
    <3>3. \A y \in stamped' : y \in stamped \/ y.coord = n
      BY <1>7, <2>3
    <3>4. QED
      BY <1>1, <1>2, <2>1, <2>2, <3>1, <3>2, <3>3, RestampedNames
  <2>5. CopiesOK(n)'
    <3>1. merging'[n].group = node[n].group
      BY <1>2, <1>6, <2>2
    <3>2. ASSUME NEW s \in Nodes, NEW group, NEW g, group = node[n].group, Stamped(s, n, group, g)'
          PROVE  s = n
      BY <1>2, <1>7, <2>3, <3>2 DEF Stamped
    <3>3. QED
      BY <3>1, <3>2 DEF CopiesOK
  <2>6. KnownOK'
    BY <1>1, <2>1, <2>2 DEF NamesOK, KnownOK, Others
  <2>7. QED
    BY <2>4, <2>5, <2>6 DEF NamesOK, Others
<1>8. QED
  BY <1>3, <1>4, <1>5, <1>6, <1>7 DEF Sync

\* ReplicaObserverI::init on a member keeps what the LLUs name.
LEMMA InitSlaveNames ==
    ASSUME TypesOK, TypesOK', ElectionOK, NamesOK, NEW n \in Nodes, InitSlave(n), lapses' = {}
    PROVE  NamesOK'
<1>1. PICK k : k = merging[n]
  OBVIOUS
<1>2. PICK a : a = NextOf(k.todo)
  OBVIOUS
<1>3. PICK s : s = a.id
  OBVIOUS
<1>4. PICK left : left = k.todo \ {a}
  OBVIOUS
<1>5. PICK m : m = IF left # {} THEN [k EXCEPT !.todo = left]
                   ELSE [k EXCEPT !.step = "ready", !.todo = k.members]
  OBVIOUS
<1>6. /\ UNCHANGED <<committed, sending, updates>>
      /\ k.step = "init"
  BY <1>1 DEF InitSlave
<1>7. /\ a \in k.todo /\ s \in Nodes /\ k \in Inits
  <2>1. k.todo # {}
    BY <1>1, <1>6 DEF TypesOK, MergingsOK, MergingOK
  <2>2. QED
    BY <1>1, <1>2, <1>3, <1>6, <2>1, NextOfTodo
<1>8. node[n].state = "Reorganization"
  BY <1>1, <1>6 DEF ElectionOK, MergeOK, Synced
<1>9. CASE GiveUp(n) /\ UNCHANGED <<shared, llu, stamped, observers>>
  BY <1>6, <1>9, GiveUpFacts, OneLeaves, CalmNames
<1>10. ASSUME node[s].state = "Reorganization", node[s].coord # s, Initialized(s, n),
              \/ /\ node' = node /\ merging' = [merging EXCEPT ![n] = m]
                 /\ observers' = [observers EXCEPT ![n] = @ \cup {[id |-> s, inc |-> a.inc]},
                                                   ![s] = {}]
              \/ GiveUp(n) /\ observers' = [observers EXCEPT ![s] = {}]
       PROVE  NamesOK'
  <2>1. /\ s # n /\ merging[s] = None
        /\ llu'[s] = llu[n] /\ shared'[s] = shared[n] /\ llu[s][1] < llu[n][1]
        /\ \A x \in Others(s) : llu'[x] = llu[x] /\ shared'[x] = shared[x]
        /\ stamped' = stamped \cup {Stamp(s, n, llu[n])}
    BY <1>1, <1>3, <1>6, <1>7, <1>10, InitializedFacts
  <2>2. Stamp(s, n, llu[n]) =
           [id |-> s, coord |-> n, group |-> k.group, generation |-> llu[n][1]]
    BY <1>1 DEF Stamp
  <2>3. /\ \A x \in Others(n) : node'[x] = node[x] /\ merging'[x] = merging[x]
        /\ node'[n] = node[n] \/ node'[n].state = "Inactive"
        /\ merging'[n] = m \/ merging'[n] = None
        /\ \A x \in Others(n) : observers'[x] \subseteq observers[x]
    <3>1. CASE GiveUp(n) /\ observers' = [observers EXCEPT ![s] = {}]
      BY <1>7, <3>1, GiveUpFacts DEF TypesOK, DataOK, Others
    <3>2. CASE /\ node' = node /\ merging' = [merging EXCEPT ![n] = m]
               /\ observers' = [observers EXCEPT ![n] = @ \cup {[id |-> s, inc |-> a.inc]},
                                                 ![s] = {}]
      BY <1>7, <2>1, <3>2 DEF TypesOK, DataOK, MergingsOK, Others
    <3>3. QED
      BY <1>10, <3>1, <3>2
  <2>4. (\A x \in Nodes : MasterOK(x)') /\ (\A x \in Others(n) : CopiesOK(x)') /\ NamedOK'
    <3>1. \A t \in Nodes : node'[t].state = "Normal" =>
              /\ node[t].state = "Normal"
              /\ node'[t].slave = node[t].slave /\ node'[t].group = node[t].group
      BY <2>3 DEF Others
    <3>2. \A x \in Nodes : node[x].state = "Normal" => observers'[x] \subseteq observers[x]
      BY <1>8, <2>3 DEF Others
    <3>3. \A y \in stamped' : y \in stamped \/ y.coord = n
      BY <2>1, <2>2
    <3>4. llu'[s][1] \in Nat /\ llu'[s][1] > llu[s][1] /\ node[s].state # "Normal"
      BY <1>7, <1>10, <2>1, Facts
    <3>5. QED
      BY <1>6, <1>7, <2>1, <2>3, <3>1, <3>2, <3>3, <3>4, RestampedNames
  <2>5. CopiesOK(n)'
    <3>1. CASE merging'[n] = None
      BY <3>1 DEF CopiesOK, Synced, None
    <3>2. CASE merging'[n] = m
      <4>1. m.group = k.group
        BY <1>5, <1>7 DEF Inits
      <4>2. PICK g : g = llu[n][1]
        OBVIOUS
      <4>3. PICK group : group = k.group
        OBVIOUS
      <4>4. llu'[n] = llu[n] /\ shared'[n] = shared[n]
        BY <2>1 DEF Others
      <4>5. \A t \in Nodes : Stamped(t, n, group, g) /\ llu[t] = llu[n] => shared[t] = shared[n]
        BY <1>1, <1>6, <4>2, <4>3 DEF NamesOK, CopiesOK, Synced
      <4>6. ASSUME NEW t \in Others(s), Stamped(t, n, group, g)'
            PROVE  Stamped(t, n, group, g)
        BY <2>1, <2>2, <4>6 DEF Stamped, Others
      <4>7. \A t \in Nodes : Stamped(t, n, group, g)' /\ llu'[t] = llu'[n]
               => shared'[t] = shared'[n]
        BY <2>1, <4>4, <4>5, <4>6 DEF Others
      <4>8. QED
        BY <3>2, <4>1, <4>2, <4>3, <4>4, <4>7 DEF CopiesOK
    <3>3. QED
      BY <2>3, <3>1, <3>2
  <2>6. KnownOK'
    BY <1>6, <2>1 DEF NamesOK, KnownOK, Others
  <2>7. QED
    BY <2>4, <2>5, <2>6 DEF NamesOK, Others
<1>11. QED
  BY <1>1, <1>2, <1>3, <1>4, <1>5, <1>9, <1>10 DEF InitSlave

\* A node on duty in a generation that is won is in the group that won it.
LEMMA GroupOfGeneration ==
    ASSUME TypesOK, ElectionOK, NEW t \in Nodes, OnDuty(t), NEW c, NEW group,
           Won(c, group, llu[t][1])
    PROVE  node[t].coord = c /\ node[t].group = group /\ Stamped(t, c, group, llu[t][1])
<1> DEFINE g == llu[t][1]
<1>1. /\ Won(node[t].coord, node[t].group, g) /\ Won(c, group, g)
      /\ Stamped(t, node[t].coord, node[t].group, g)
  BY DEF ElectionOK, RoleOK, OnDuty
<1>2. PICK s \in Nodes : Stamped(s, node[t].coord, node[t].group, g) /\ Stamped(s, c, group, g)
  BY <1>1, WonMeet
<1> HIDE DEF g
<1> DEFINE x == [id |-> s, coord |-> node[t].coord, group |-> node[t].group, generation |-> g]
           y == [id |-> s, coord |-> c, group |-> group, generation |-> g]
<1>3. x = y
  BY <1>2 DEF ElectionOK, StampsOK, Stamped
<1>4. node[t].coord = c /\ node[t].group = group
  BY <1>3
<1>5. QED
  BY <1>1, <1>4 DEF g

\* Who is on duty with the LLU of a coordinator that readies its group has its database.
LEMMA FormedCopies ==
    ASSUME TypesOK, ElectionOK, NamesOK, NEW n \in Nodes, merging[n].step = "ready",
           NEW t \in Nodes, OnDuty(t), llu[t] = llu[n]
    PROVE  shared[t] = shared[n]
<1>1. Won(n, merging[n].group, llu[t][1]) /\ Synced(n)
  BY DEF ElectionOK, InitOK, Synced
<1>2. PICK group : group = merging[n].group
  OBVIOUS
<1>3. Stamped(t, n, group, llu[t][1])
  BY <1>1, <1>2, GroupOfGeneration
<1>4. QED
  BY <1>1, <1>2, <1>3 DEF NamesOK, CopiesOK

\* The member that goes on duty has the coordinator's LLU, and so its database.
LEMMA ReadySlaveNames ==
    ASSUME TypesOK, ElectionOK, NamesOK, NEW n \in Nodes, ReadySlave(n), lapses' = {}
    PROVE  NamesOK'
<1>1. /\ UNCHANGED <<observers, llu, shared, committed, sending, stamped, updates>>
      /\ merging[n].step = "ready" /\ Synced(n)
      /\ \A x \in Others(n) : merging'[x] = merging[x]
      /\ \/ merging'[n] = None
         \/ merging'[n].step = "ready" /\ merging'[n].group = merging[n].group
  BY ReadySlaveEffect
<1>2. PICK s \in Others(n) :
         /\ \A group, g : group = merging[n].group /\ g = llu[n][1] => Stamped(s, n, group, g)
         /\ \A t \in Nodes : node'[t].state = "Normal" =>
               \/ /\ node[t].state = "Normal"
                  /\ node'[t].slave = node[t].slave /\ node'[t].group = node[t].group
               \/ /\ node'[t].slave = TRUE /\ node'[t].group = merging[n].group
                  /\ t = s /\ llu[t] = llu[n]
  BY ReadySlaveEffect
<1>3. \A x \in Nodes : Synced(x)' => Synced(x) /\ merging'[x].group = merging[x].group
  BY <1>1 DEF Synced, Others, None
<1>4. ASSUME NEW x \in Nodes
      PROVE  MasterOK(x)' /\ CopiesOK(x)'
  <2>1. Master(x)' => Master(x) /\ node'[x].group = node[x].group
    BY <1>2 DEF Master
  <2>2. Master(x) => node[x].group # merging[n].group
    BY <1>1, GroupOwner
  <2>3. \A t \in Nodes : Master(x)' /\ t \in SlavesOf(x)' => t \in SlavesOf(x)
    BY <1>2, <2>1, <2>2 DEF SlavesOf
  <2>4. MasterOK(x)'
    BY <1>1, <2>1, <2>3, MasterKept DEF NamesOK, SameSending
  <2>5. CopiesOK(x)'
    BY <1>1, <1>3, CopiesKept DEF NamesOK, Stamped
  <2>6. QED
    BY <2>4, <2>5
<1>5. NamedOK'
  <2>1. CASE OnDuty(s)' /\ ~OnDuty(s)
    <3>1. llu[s] = llu[n] /\ s \in Nodes
      BY <1>2, <2>1 DEF OnDuty, Others
    <3>2. PICK group : group = merging[n].group
      OBVIOUS
    <3>3. shared[s] = shared[n]
      BY <1>1, <1>2, <3>1, <3>2 DEF NamesOK, CopiesOK
    <3>4. ASSUME NEW x \in Others(s), OnDuty(x)'
          PROVE  OnDuty(x) /\ (llu[x] = llu[s] => shared[x] = shared[s])
      <4>1. x \in Nodes /\ OnDuty(x)
        BY <1>2, <3>4 DEF OnDuty, Others
      <4>2. QED
        BY <1>1, <3>1, <3>3, <4>1, FormedCopies
    <3>5. QED
      BY <1>1, <3>1, <3>4, NamedKept DEF NamesOK
  <2>2. CASE ~(OnDuty(s)' /\ ~OnDuty(s))
    <3>1. \A x \in Nodes : OnDuty(x)' => OnDuty(x)
      BY <1>2, <2>2 DEF OnDuty
    <3>2. QED
      BY <1>1, <3>1 DEF NamesOK, NamedOK
  <2>3. QED
    BY <2>1, <2>2
<1>6. KnownOK'
  BY <1>1 DEF NamesOK, KnownOK
<1>7. QED
  BY <1>4, <1>5, <1>6 DEF NamesOK

\* The new master has no updates yet, and its slaves have its LLU.
LEMMA ReadyDoneNames ==
    ASSUME TypesOK, ElectionOK, SyncOK, NamesOK, NEW n \in Nodes, ReadyDone(n)
    PROVE  NamesOK'
<1>1. /\ UNCHANGED <<observers, llu, shared, committed, sending, stamped, updates>>
      /\ merging[n].step = "ready" /\ merging' = [merging EXCEPT ![n] = None]
  BY DEF ReadyDone, replicaVars, history, counts
<1>2. /\ merging[n].group = node[n].group /\ Synced(n) /\ node[n].state = "Reorganization"
      /\ committed[n] = {} /\ sending[n] = None
  BY <1>1 DEF ElectionOK, MergeOK, UpdateOK, Quiet, Master, Synced
<1>3. /\ \A x \in Others(n) : node'[x] = node[x] /\ merging'[x] = merging[x]
      /\ node'[n].state = "Normal" /\ node'[n].slave = FALSE /\ node'[n].group = node[n].group
      /\ merging'[n] = None
  BY <1>1, <1>2, Facts DEF ReadyDone, TypesOK, NodesOK, NodeRecords, MergingsOK, Others
<1>4. MasterOK(n)'
  <2>1. ASSUME NEW s \in SlavesOf(n)'
        PROVE  llu[s] = llu[n] /\ s \in Nodes
    <3>1. s \in Nodes /\ node[s].state = "Normal" /\ node[s].group = merging[n].group
      BY <1>2, <1>3, <2>1 DEF SlavesOf, Others
    <3>2. QED
      BY <1>2, <3>1 DEF SyncOK, FormingOK
  <2>2. VersionsInOrder(n)'
    BY <1>1, <1>2 DEF VersionsInOrder
  <2>3. \A s \in SlavesOf(n)' : SlaveOK(n, s)'
    <3>1. ~Newer(llu[n], llu[n])
      BY Facts DEF Newer
    <3>2. QED
      BY <1>1, <1>2, <2>1, <3>1 DEF SlaveOK
  <2>4. ASSUME NEW o \in observers[n], o.id \in SlavesOf(n)'
        PROVE  ObserverOK(n, o)'
    <3>1. llu[o.id] = llu[n]
      BY <2>1, <2>4
    <3>2. shared[o.id] = shared[n]
      BY <1>2, <2>4, <3>1 DEF SyncOK, FormingOK
    <3>3. QED
      BY <1>1, <1>2, <3>2 DEF ObserverOK, Ids
  <2>5. QED
    BY <1>1, <2>2, <2>3, <2>4 DEF MasterOK
<1>5. ASSUME NEW x \in Others(n)
      PROVE  MasterOK(x)'
  <2>1. x \in Nodes /\ node'[x] = node[x]
    BY <1>3 DEF Others
  <2>2. \A t \in Nodes : t \in SlavesOf(x)' => t \in SlavesOf(x)
    BY <1>3, <2>1 DEF SlavesOf, Others
  <2>3. QED
    BY <1>1, <2>1, <2>2, MasterKept DEF NamesOK, Master, SameSending
<1>6. ASSUME NEW x \in Nodes
      PROVE  CopiesOK(x)'
  <2>1. Synced(x)' => Synced(x) /\ merging'[x] = merging[x]
    BY <1>3 DEF Synced, Others, None
  <2>2. QED
    BY <1>1, <2>1, CopiesKept DEF NamesOK, Stamped
<1>7. NamedOK'
  <2>1. \A x \in Others(n) : OnDuty(x)' => x \in Nodes /\ OnDuty(x)
    BY <1>3 DEF OnDuty, Others
  <2>2. \A x \in Others(n) : OnDuty(x)' /\ llu[x] = llu[n] => shared[x] = shared[n]
    BY <1>1, <2>1, FormedCopies
  <2>3. QED
    BY <1>1, <2>1, <2>2, NamedKept DEF NamesOK
<1>8. KnownOK'
  BY <1>1 DEF NamesOK, KnownOK
<1>9. QED
  BY <1>4, <1>5, <1>6, <1>7, <1>8 DEF NamesOK, Others

\* A node on duty in the generation of a master is its slave.
LEMMA SlaveOfGeneration ==
    ASSUME TypesOK, ElectionOK, NEW m \in Nodes, Master(m), NEW t \in Others(m), OnDuty(t),
           llu[t][1] = llu[m][1]
    PROVE  t \in SlavesOf(m) /\ Stamped(t, m, node[m].group, llu[m][1])
<1>1. t \in Nodes /\ t # m /\ node[m].coord = m
  BY GroupOwner DEF Others
<1>2. Won(m, node[m].group, llu[t][1])
  BY <1>1 DEF ElectionOK, RoleOK, Master
<1>3. /\ node[t].coord = m /\ node[t].group = node[m].group
      /\ Stamped(t, m, node[m].group, llu[t][1])
  BY <1>1, <1>2, GroupOfGeneration
<1>4. node[t].slave
  BY <1>1, <1>3 DEF ElectionOK, RoleOK, OnDuty
<1>5. QED
  BY <1>1, <1>3, <1>4 DEF SlavesOf, OnDuty

\* While a coordinator is under way, who it has stamped is in the generation of no master.
LEMMA StampedElsewhere ==
    ASSUME TypesOK, ElectionOK, NEW m \in Nodes, Master(m), NEW s \in Nodes, NEW group, NEW g,
           Stamped(s, m, group, g), NEW x \in Nodes, Synced(x)
    PROVE  \A other : ~Stamped(s, x, other, g)
<1>1. x # m
  BY GroupOwner
<1>2. ASSUME NEW other, Stamped(s, x, other, g)
      PROVE  FALSE
  <2> DEFINE y == [id |-> s, coord |-> m, group |-> group, generation |-> g]
             z == [id |-> s, coord |-> x, group |-> other, generation |-> g]
  <2>1. y = z
    BY <1>2 DEF ElectionOK, StampsOK, Stamped
  <2>2. QED
    BY <1>1, <2>1
<1>3. QED
  BY <1>2

\* The stamp of a new update is newer than any in the group.
LEMMA UpdateCommitNames ==
    ASSUME TypesOK, ElectionOK, NamesOK, NEW m \in Nodes, UpdateCommit(m), lapses' = {}
    PROVE  NamesOK'
<1> DEFINE stamp == <<llu[m][1], llu[m][2] + 1>>
<1>1. UNCHANGED <<node, merging, sending, observers, stamped>> /\ Master(m)
      /\ updates' = updates + 1
  BY DEF UpdateCommit, processVars, ElectionOK, UpdateOK, Quiet
<1>2. \A x \in Nodes : observers'[x] \subseteq observers[x]
  BY <1>1
<1>3. ~Synced(m) /\ node[m].coord = m
  BY <1>1, GroupOwner
<1>4. PICK id : id = updates + 1
  OBVIOUS
<1>5. PICK v : v = [id |-> id, llu |-> stamp]
  OBVIOUS
<1>6. /\ \A x \in Others(m) :
            llu'[x] = llu[x] /\ committed'[x] = committed[x] /\ shared'[x] = shared[x]
      /\ shared'[m] = shared[m] \cup {id} /\ llu'[m] = stamp /\ stamp[1] = llu[m][1]
      /\ committed'[m] = committed[m] \cup {v} /\ v.id = id /\ v.llu = stamp
  BY <1>4, <1>5 DEF UpdateCommit, TypesOK, DataOK, VersionsOK, Others
<1>7. stamp \in Stamps /\ Newer(stamp, llu[m]) /\ llu[m] \in Stamps
  BY Facts DEF Newer, Stamps
<1> HIDE DEF stamp
<1>8. /\ \A w \in committed[m] : w.id # id /\ w.llu \in Stamps
      /\ \A x \in Nodes : id \notin shared[x] /\ llu[x] \in Stamps
      /\ sending[m] # None => sending[m].id # id /\ sending[m].llu \in Stamps
  <2>1. updates \in Nat /\ \A i \in 1..updates : i # id
    BY <1>4, BoundsAssumption DEF TypesOK, CountsOK
  <2>2. \A w \in committed[m] : w.id \in 1..updates /\ w.llu \in Stamps
    BY Facts DEF Versions
  <2>3. \A x \in Nodes : shared[x] \subseteq 1..updates /\ llu[x] \in Stamps
    BY Facts DEF NamesOK, KnownOK
  <2>4. sending[m] # None => sending[m].id \in 1..updates /\ sending[m].llu \in Stamps
    BY SendingKinds DEF TypesOK
  <2>5. QED
    BY <2>1, <2>2, <2>3, <2>4
<1>9. MasterOK(m)'
  <2>1. /\ VersionsInOrder(m) /\ \A s \in SlavesOf(m) : SlaveOK(m, s)
        /\ \A o \in observers[m] : o.id \in SlavesOf(m) => ObserverOK(m, o)
    BY <1>1 DEF NamesOK, MasterOK
  <2>2. VersionsInOrder(m)'
    <3>1. \A w \in committed[m] : ~Newer(w.llu, llu[m]) /\ ~Newer(w.llu, stamp) /\ w.llu # stamp
      BY <1>7, <1>8, <2>1, NewerOrder DEF VersionsInOrder
    <3>2. ~Newer(stamp, stamp)
      BY <1>7, NewerOrder
    <3>3. sending[m] # None => Newer(stamp, sending[m].llu) /\ ~Newer(sending[m].llu, stamp)
      BY <1>7, <1>8, <2>1, NewerOrder DEF VersionsInOrder
    <3>4. QED
      BY <1>1, <1>6, <1>8, <2>1, <3>1, <3>2, <3>3 DEF VersionsInOrder
  <2>3. SlavesOf(m)' = SlavesOf(m) /\ \A s \in SlavesOf(m) : s \in Others(m)
    BY <1>1 DEF SlavesOf, Master, Others
  <2>4. /\ Ids(committed'[m]) = Ids(committed[m]) \cup {id}
        /\ shared'[m] \ Ids(committed'[m]) = shared[m] \ Ids(committed[m])
        /\ sending[m] # None => shared'[m] \ (Ids(committed'[m]) \cup {sending[m].id})
                                = shared[m] \ (Ids(committed[m]) \cup {sending[m].id})
    <3>1. Ids(committed'[m]) = Ids(committed[m]) \cup {id}
      BY <1>6 DEF Ids
    <3>2. QED
      BY <1>6, <1>8, <3>1
  <2>5. \A s \in SlavesOf(m) : SlaveOK(m, s)'
    <3>1. \A s \in SlavesOf(m) : Newer(stamp, llu[s]) /\ ~Newer(llu[s], stamp)
      BY <1>7, <1>8, <2>1, NewerOrder DEF SlaveOK, SlavesOf
    <3>2. ASSUME NEW s \in SlavesOf(m)
          PROVE  SlaveOK(m, s)'
      <4>1. SlaveOK(m, s) /\ s \in Others(m)
        BY <2>1, <2>3
      <4>2. llu'[s] = llu[s] /\ shared'[s] = shared[s] /\ llu'[m] = stamp
        BY <1>6, <4>1
      <4>3. sending'[m] = sending[m]
        BY <1>1
      <4>4. (~Newer(llu[s], llu[m]))'
        BY <3>1, <4>2
      <4>5. (\A w \in committed[m] : Newer(w.llu, llu[s]))'
        BY <1>6, <3>1, <4>1, <4>2 DEF SlaveOK
      <4>6. (sending[m] # None => /\ ~Newer(llu[s], sending[m].llu)
                                  /\ llu[s] = sending[m].llu =>
                                        shared[s] = shared[m] \ Ids(committed[m]))'
        <5>1. sending[m] # None => /\ ~Newer(llu[s], sending[m].llu)
                                   /\ llu[s] = sending[m].llu =>
                                        shared[s] = shared[m] \ Ids(committed[m])
          BY <4>1 DEF SlaveOK
        <5>2. QED
          BY <2>4, <4>2, <4>3, <5>1
      <4>7. QED
        BY <4>4, <4>5, <4>6 DEF SlaveOK
    <3>3. QED
      BY <3>2
  <2>6. ASSUME NEW o \in observers'[m], o.id \in SlavesOf(m)
        PROVE  ObserverOK(m, o)'
    <3>1. o \in observers[m] /\ shared'[o.id] = shared[o.id]
      BY <1>2, <1>6, <2>3, <2>6
    <3>2. llu'[o.id] = llu[o.id]
      BY <1>6, <2>3, <2>6
    <3>3. ObserverOK(m, o)
      BY <2>1, <2>6, <3>1
    <3>4. QED
      BY <1>1, <2>4, <3>1, <3>2, <3>3 DEF ObserverOK
  <2>7. QED
    BY <2>2, <2>3, <2>5, <2>6 DEF MasterOK
<1>10. ASSUME NEW x \in Others(m)
      PROVE  MasterOK(x)' /\ CopiesOK(x)'
  <2>1. x \in Nodes /\ x # m /\ llu'[x] = llu[x] /\ shared'[x] = shared[x]
    BY <1>6 DEF Others
  <2>2. \A t \in Nodes : t \in SlavesOf(x)' => t \in SlavesOf(x) /\ t \in Others(m)
    BY <1>1 DEF SlavesOf, Master, Others
  <2>3. MasterOK(x)'
    BY <1>1, <1>2, <1>6, <2>1, <2>2, MasterKept DEF NamesOK, Master, SameSending
  <2>4. ASSUME NEW s \in Nodes, NEW group, NEW g, Synced(x), g = llu[x][1],
               Stamped(s, x, group, g), llu'[s] = llu[x]
        PROVE  s # m
    <3>1. Stamped(m, m, node[m].group, llu[m][1])
      BY <1>1, <1>3 DEF ElectionOK, RoleOK, Master
    <3>2. ~Stamped(m, x, group, llu[m][1])
      BY <1>1, <2>1, <2>4, <3>1, StampedElsewhere
    <3>3. QED
      BY <1>6, <2>4, <3>2
  <2>5. CopiesOK(x)'
    BY <1>1, <1>6, <2>1, <2>4, CopiesKept DEF NamesOK, Stamped, Synced, Others
  <2>6. QED
    BY <2>3, <2>5
<1>11. CopiesOK(m)'
  BY <1>1, <1>3 DEF CopiesOK, Synced
<1>12. NamedOK'
  <2>1. ASSUME NEW t \in Others(m), OnDuty(t)
        PROVE  llu[t] # stamp
    <3> SUFFICES ASSUME llu[t] = stamp PROVE FALSE
      OBVIOUS
    <3>1. t \in SlavesOf(m)
      BY <1>1, <1>6, <2>1, SlaveOfGeneration
    <3>2. ~Newer(stamp, llu[m])
      BY <1>1, <3>1 DEF NamesOK, MasterOK, SlaveOK
    <3>3. QED
      BY <1>7, <3>2
  <2>2. \A x \in Nodes : OnDuty(x)' = OnDuty(x)
    BY <1>1 DEF OnDuty
  <2>3. QED
    BY <1>6, <2>1, <2>2, NamedKept DEF NamesOK, Others
<1>13. KnownOK'
  <2>1. updates \in Nat
    BY BoundsAssumption DEF TypesOK, CountsOK
  <2>2. \A x \in Nodes : shared[x] \subseteq 1..updates'
    BY <1>1, <2>1 DEF NamesOK, KnownOK
  <2>3. id \in 1..updates'
    BY <1>1, <1>4, <2>1
  <2>4. QED
    BY <1>6, <2>2, <2>3 DEF KnownOK, Others
<1>14. QED
  BY <1>9, <1>10, <1>11, <1>12, <1>13 DEF NamesOK, Others

\* The oldest update is sent, which no slave has.
LEMMA UpdateSendNames ==
    ASSUME TypesOK, ElectionOK, NamesOK, NEW m \in Nodes, UpdateSend(m), lapses' = {}
    PROVE  NamesOK'
<1>1. /\ UNCHANGED <<node, merging, observers, llu, shared, stamped, updates>>
      /\ sending[m] = None
  BY DEF UpdateSend, processVars, counts
<1>2. PICK u \in committed[m] :
         /\ committed' = [committed EXCEPT ![m] = @ \ {u}]
         /\ sending' = [sending EXCEPT ![m] =
                          [step |-> "sending", id |-> u.id, llu |-> u.llu, todo |-> observers[m]]]
         /\ \A v \in committed[m] : ~Newer(u.llu, v.llu)
  BY DEF UpdateSend, Lapse
<1>3. /\ committed'[m] = committed[m] \ {u}
      /\ sending'[m] # None /\ sending'[m].id = u.id /\ sending'[m].llu = u.llu
      /\ sending'[m].todo = observers[m]
      /\ \A x \in Others(m) : committed'[x] = committed[x] /\ sending'[x] = sending[x]
  BY <1>2 DEF TypesOK, VersionsOK, Others, None
<1>4. /\ \A v \in committed[m] : v.llu \in Stamps
      /\ \A x \in Nodes : llu[x] \in Stamps
  BY Facts DEF Versions
<1>5. \A x \in Nodes : Master(x)' = Master(x) /\ SlavesOf(x)' = SlavesOf(x)
  BY <1>1 DEF Master, SlavesOf
<1>6. MasterOK(m)'
  <2> SUFFICES ASSUME Master(m) PROVE MasterOK(m)'
    BY <1>5 DEF MasterOK
  <2>1. /\ VersionsInOrder(m) /\ \A s \in SlavesOf(m) : SlaveOK(m, s)
        /\ \A o \in observers[m] : o.id \in SlavesOf(m) => ObserverOK(m, o)
    BY DEF NamesOK, MasterOK
  <2>2. VersionsInOrder(m)'
    <3>1. \A v \in committed[m] \ {u} : v.id # u.id /\ Newer(v.llu, u.llu)
      BY <1>2, <1>4, <2>1, NewerOrder DEF VersionsInOrder
    <3>2. QED
      BY <1>1, <1>3, <2>1, <3>1 DEF VersionsInOrder
  <2>3. ASSUME NEW s \in SlavesOf(m)
        PROVE  SlaveOK(m, s)'
    <3>1. SlaveOK(m, s) /\ s \in Nodes
      BY <2>1 DEF SlavesOf
    <3>2. ~Newer(llu[s], u.llu) /\ llu[s] # u.llu
      BY <1>4, <3>1, NewerOrder DEF SlaveOK
    <3>3. QED
      BY <1>1, <1>3, <3>1, <3>2 DEF SlaveOK
  <2>4. ASSUME NEW o \in observers[m], o.id \in SlavesOf(m)
        PROVE  ObserverOK(m, o)'
    <3>1. shared[o.id] = shared[m] \ Ids(committed[m])
      BY <1>1, <2>1, <2>4 DEF ObserverOK
    <3>2. Ids(committed[m]) = Ids(committed'[m]) \cup {u.id}
      BY <1>3 DEF Ids
    <3>3. QED
      BY <1>1, <1>3, <3>1, <3>2 DEF ObserverOK
  <2>5. QED
    BY <1>1, <1>5, <2>2, <2>3, <2>4 DEF MasterOK
<1>7. ASSUME NEW x \in Others(m)
      PROVE  MasterOK(x)'
  <2>1. x \in Nodes
    BY DEF Others
  <2>2. QED
    BY <1>1, <1>3, <1>5, <2>1, MasterKept DEF NamesOK, SameSending
<1>8. KnownOK' /\ NamedOK' /\ \A x \in Nodes : CopiesOK(x)'
  BY <1>1 DEF NamesOK, KnownOK, NamedOK, OnDuty, CopiesOK, Synced, Stamped
<1>9. QED
  BY <1>6, <1>7, <1>8 DEF NamesOK, Others

\* Every observer has been sent the update.
LEMMA UpdateFinishNames ==
    ASSUME TypesOK, ElectionOK, NamesOK, NEW m \in Nodes, UpdateFinish(m)
    PROVE  NamesOK'
<1>1. /\ UNCHANGED <<node, merging, observers, llu, shared, committed, stamped, updates>>
      /\ sending[m] # None /\ sending[m].todo = {} /\ sending' = [sending EXCEPT ![m] = None]
  BY DEF UpdateFinish, processVars, counts
<1>2. sending'[m] = None /\ \A x \in Others(m) : sending'[x] = sending[x]
  BY <1>1 DEF TypesOK, VersionsOK, Others
<1>3. \A x \in Nodes : Master(x)' = Master(x) /\ SlavesOf(x)' = SlavesOf(x)
  BY <1>1 DEF Master, SlavesOf
<1>4. MasterOK(m)'
  <2> SUFFICES ASSUME Master(m) PROVE MasterOK(m)'
    BY <1>3 DEF MasterOK
  <2>1. /\ VersionsInOrder(m) /\ \A s \in SlavesOf(m) : SlaveOK(m, s)
        /\ \A o \in observers[m] : o.id \in SlavesOf(m) => ObserverOK(m, o)
    BY DEF NamesOK, MasterOK
  <2>2. VersionsInOrder(m)' /\ \A s \in SlavesOf(m) : SlaveOK(m, s)'
    BY <1>1, <1>2, <2>1 DEF VersionsInOrder, SlaveOK
  <2>3. \A o \in observers[m] : o.id \in SlavesOf(m) => ObserverOK(m, o)'
    BY <1>1, <1>2, <2>1 DEF ObserverOK, SlaveOK
  <2>4. QED
    BY <1>1, <1>3, <2>2, <2>3 DEF MasterOK
<1>5. ASSUME NEW x \in Others(m)
      PROVE  MasterOK(x)'
  <2>1. x \in Nodes
    BY DEF Others
  <2>2. QED
    BY <1>1, <1>2, <1>3, <2>1, MasterKept DEF NamesOK, SameSending
<1>6. KnownOK' /\ NamedOK' /\ \A x \in Nodes : CopiesOK(x)'
  BY <1>1 DEF NamesOK, KnownOK, NamedOK, OnDuty, CopiesOK, Synced, Stamped
<1>7. QED
  BY <1>4, <1>5, <1>6 DEF NamesOK, Others

\* The update takes an observer from what it had to what the others have that took it.
LEMMA ReplicateNames ==
    ASSUME TypesOK, ElectionOK, NamesOK, NEW m \in Nodes, NEW o \in observers[m], Replicate(m, o),
           lapses' = {}
    PROVE  NamesOK'
<1>1. PICK s : s = o.id
  OBVIOUS
<1>2. PICK u : u = sending[m]
  OBVIOUS
<1>3. /\ UNCHANGED <<merging, committed, stamped, updates>>
      /\ u # None /\ sending' = [sending EXCEPT ![m].todo = @ \ {o}]
  BY <1>2 DEF Replicate, processVars
<1>4. /\ s \in Nodes /\ s # m /\ Master(m) /\ u.llu[1] = llu[m][1] /\ u.id \in shared[m]
      /\ node[m].generation = llu[m][1] /\ u.id \in 1..updates /\ u.llu \in Stamps
  BY <1>1, <1>2, <1>3, Facts, SendingFacts, SendingKinds DEF ElectionOK, UpdateOK, Infos, TypesOK
<1>5. /\ sending'[m] # None /\ sending'[m].id = u.id /\ sending'[m].llu = u.llu
      /\ sending'[m].todo = u.todo \ {o}
      /\ \A x \in Others(m) : sending'[x] = sending[x]
  <2>1. u \in [step : {"sending"}, id : 1..updates, llu : Stamps, todo : SUBSET Infos]
    BY <1>2, <1>3, SendingKinds DEF TypesOK
  <2>2. sending'[m] = [u EXCEPT !.todo = @ \ {o}] /\ \A x \in Others(m) : sending'[x] = sending[x]
    BY <1>2, <1>3 DEF TypesOK, VersionsOK, Others
  <2>3. sending'[m].step = "sending" /\ sending'[m].id = u.id /\ sending'[m].llu = u.llu
        /\ sending'[m].todo = u.todo \ {o}
    BY <2>1, <2>2
  <2>4. QED
    BY <2>2, <2>3 DEF None
<1>6. \A x \in Nodes : observers'[x] \subseteq observers[x]
  BY DEF Replicate, TypesOK, DataOK
<1>7. CASE /\ UNCHANGED <<llu, shared>> /\ o \notin observers'[m]
           /\ UNCHANGED node \/ node' = [node EXCEPT ![s] = Recovered(node[s], s)]
  <2>1. \A t \in Nodes : node'[t].state = "Normal" =>
              /\ node[t].state = "Normal"
              /\ node'[t].slave = node[t].slave /\ node'[t].group = node[t].group
    <3>1. Recovered(node[s], s).state = "Inactive"
      BY <1>4, Facts, RecoveredType
    <3>2. \A t \in Nodes : node'[t] = node[t] \/ (node'[t] = Recovered(node[s], s) /\ t = s)
      <4>1. CASE UNCHANGED node
        BY <4>1
      <4>2. CASE node' = [node EXCEPT ![s] = Recovered(node[s], s)]
        BY <4>2 DEF TypesOK, NodesOK
      <4>3. QED
        BY <1>7, <4>1, <4>2
    <3>3. QED
      BY <3>1, <3>2
  <2>2. \A x \in Nodes : SameSending(x)
    BY <1>2, <1>3, <1>5, <1>7 DEF SameSending, Others
  <2>3. Calm
    BY <1>3, <1>6, <1>7, <2>1, <2>2 DEF Calm, Synced
  <2>4. QED
    BY <2>3, CalmNames
<1>8. CASE /\ TakesUpdate(s, u) /\ UNCHANGED node
           /\ shared' = [shared EXCEPT ![s] = @ \cup {u.id}]
           /\ llu' = [llu EXCEPT ![s] = u.llu]
  <2>1. /\ llu'[s] = u.llu /\ shared'[s] = shared[s] \cup {u.id}
        /\ \A x \in Others(s) : llu'[x] = llu[x] /\ shared'[x] = shared[x]
    BY <1>4, <1>8 DEF TypesOK, DataOK, Others
  <2>2. OnDuty(s) /\ llu[s][1] = llu[m][1] /\ s \in Others(m)
    <3>1. OnDuty(s) /\ node[s].generation = u.llu[1]
      BY <1>8 DEF TakesUpdate, OnDuty
    <3>2. QED
      BY <1>4, <3>1 DEF ElectionOK, RoleOK, OnDuty, Others
  <2>3. s \in SlavesOf(m) /\ Stamped(s, m, node[m].group, llu[m][1])
    BY <1>4, <2>2, SlaveOfGeneration
  <2>4. \A x \in Nodes : Master(x)' = Master(x) /\ SlavesOf(x)' = SlavesOf(x)
        /\ OnDuty(x)' = OnDuty(x)
    BY <1>8 DEF Master, SlavesOf, OnDuty
  <2>5. /\ VersionsInOrder(m) /\ \A t \in SlavesOf(m) : SlaveOK(m, t)
        /\ \A p \in observers[m] : p.id \in SlavesOf(m) => ObserverOK(m, p)
    BY <1>4 DEF NamesOK, MasterOK
  <2>6. /\ ~Newer(u.llu, llu[m])
        /\ \A v \in committed[m] : v.id # u.id /\ Newer(v.llu, u.llu)
    BY <1>2, <1>3, <2>5 DEF VersionsInOrder
\* The database of s is that of all who have the update.
  <2>7. shared'[s] = shared[m] \ Ids(committed[m])
    <3>1. u.id \in shared[m] /\ u.id \notin Ids(committed[m])
      BY <1>4, <2>6 DEF Ids
    <3>2. CASE llu[s] = u.llu
      <4>1. shared[s] = shared[m] \ Ids(committed[m])
        BY <1>2, <1>3, <2>3, <2>5, <3>2 DEF SlaveOK
      <4>2. QED
        BY <2>1, <3>1, <4>1
    <3>3. CASE llu[s] # u.llu
      <4>1. shared[s] = shared[m] \ (Ids(committed[m]) \cup {u.id})
        BY <1>1, <1>2, <1>3, <2>3, <2>5, <3>3 DEF ObserverOK
      <4>2. QED
        BY <2>1, <3>1, <4>1
    <3>4. QED
      BY <3>2, <3>3
  <2>8. llu'[m] = llu[m] /\ shared'[m] = shared[m] /\ committed'[m] = committed[m]
    BY <1>3, <1>4, <2>1 DEF Others
  <2>9. MasterOK(m)'
    <3>1. VersionsInOrder(m)'
      BY <1>2, <1>3, <1>5, <2>5, <2>8 DEF VersionsInOrder
    <3>2. ASSUME NEW t \in SlavesOf(m)
          PROVE  SlaveOK(m, t)'
      <4>1. CASE t = s
        <5>1. ~Newer(u.llu, u.llu)
          BY <1>4, NewerOrder
        <5>2. QED
          BY <1>3, <1>5, <2>1, <2>6, <2>7, <2>8, <4>1, <5>1 DEF SlaveOK
      <4>2. CASE t # s
        <5>1. llu'[t] = llu[t] /\ shared'[t] = shared[t]
          BY <2>1, <4>2 DEF SlavesOf, Others
        <5>2. QED
          BY <1>2, <1>3, <1>5, <2>5, <2>8, <5>1 DEF SlaveOK
      <4>3. QED
        BY <4>1, <4>2
    <3>3. ASSUME NEW p \in observers'[m], p.id \in SlavesOf(m)
          PROVE  ObserverOK(m, p)'
      <4>1. CASE p.id = s
        BY <1>5, <2>1, <4>1 DEF ObserverOK
      <4>2. CASE p.id # s
        <5>1. p \in observers[m] /\ p # o /\ llu'[p.id] = llu[p.id] /\ shared'[p.id] = shared[p.id]
          BY <1>1, <1>6, <2>1, <3>3, <4>2 DEF SlavesOf, Others
        <5>2. QED
          BY <1>2, <1>3, <1>5, <2>5, <2>8, <3>3, <5>1 DEF ObserverOK
      <4>3. QED
        BY <4>1, <4>2
    <3>4. QED
      BY <2>4, <3>1, <3>2, <3>3 DEF MasterOK
  <2>10. ASSUME NEW x \in Others(m)
         PROVE  MasterOK(x)'
    <3>1. x \in Nodes /\ x # m
      BY DEF Others
    <3>2. Master(x) => x # s /\ s \notin SlavesOf(x)
      BY <1>4, <2>3, <3>1, GroupOwner DEF SlavesOf, Master
    <3>3. Master(x) => llu'[x] = llu[x] /\ shared'[x] = shared[x]
      BY <2>1, <3>1, <3>2 DEF Others
    <3>4. \A t \in Nodes : Master(x) /\ t \in SlavesOf(x) =>
          llu'[t] = llu[t] /\ shared'[t] = shared[t]
      BY <2>1, <3>2 DEF Others
    <3>5. SameSending(x)
      BY <1>5 DEF SameSending
    <3>6. QED
      BY <1>3, <1>6, <2>4, <3>1, <3>3, <3>4, <3>5, MasterKept DEF NamesOK
  <2>11. ASSUME NEW x \in Nodes
         PROVE  CopiesOK(x)'
    <3>1. Synced(x) => x # s
      BY <2>2 DEF ElectionOK, MergeOK, Synced, OnDuty
    <3>2. ASSUME NEW t \in Nodes, NEW group, NEW g, Synced(x), g = llu[x][1],
                 Stamped(t, x, group, g), llu'[t] = llu[x]
          PROVE  t # s
      <4>1. ~Stamped(s, x, group, llu[m][1])
        BY <1>4, <2>3, <3>2, StampedElsewhere
      <4>2. QED
        BY <1>4, <2>1, <3>2, <4>1
    <3>3. QED
      BY <1>3, <2>1, <3>1, <3>2, CopiesKept DEF NamesOK, Stamped, Synced, Others
  <2>12. NamedOK'
    <3>1. ASSUME NEW t \in Others(s), OnDuty(t), llu[t] = u.llu
          PROVE  shared[t] = shared[m] \ Ids(committed[m])
      <4>1. CASE t = m
        <5>1. committed[m] = {}
          BY <2>5, <2>6, <3>1, <4>1 DEF VersionsInOrder
        <5>2. QED
          BY <4>1, <5>1 DEF Ids
      <4>2. CASE t # m
        <5>1. t \in Others(m) /\ llu[t][1] = llu[m][1]
          BY <1>4, <3>1, <4>2 DEF Others
        <5>2. t \in SlavesOf(m)
          BY <1>4, <3>1, <5>1, SlaveOfGeneration
        <5>3. QED
          BY <1>2, <1>3, <2>5, <3>1, <5>2 DEF SlaveOK
      <4>3. QED
        BY <4>1, <4>2
    <3>2. \A x \in Others(s) : OnDuty(x)' => OnDuty(x) /\ llu'[x] = llu[x] /\ shared'[x] = shared[x]
      BY <2>1, <2>4 DEF Others
    <3>3. \A x \in Others(s) : OnDuty(x)' /\ llu'[x] = llu'[s] => shared'[x] = shared'[s]
      BY <2>1, <2>7, <3>1, <3>2
    <3>4. QED
      BY <1>4, <3>2, <3>3, NamedKept DEF NamesOK
  <2>13. KnownOK'
    BY <1>3, <1>4, <2>1 DEF NamesOK, KnownOK, Others
  <2>14. QED
    BY <2>9, <2>10, <2>11, <2>12, <2>13 DEF NamesOK, Others
<1>9. QED
  <2>1. \/ /\ TakesUpdate(s, u) /\ UNCHANGED node
           /\ shared' = [shared EXCEPT ![s] = @ \cup {u.id}]
           /\ llu' = [llu EXCEPT ![s] = u.llu]
        \/ /\ UNCHANGED <<llu, shared>> /\ observers' = [observers EXCEPT ![m] = @ \ {o}]
           /\ UNCHANGED node \/ node' = [node EXCEPT ![s] = Recovered(node[s], s)]
    BY <1>1, <1>2 DEF Replicate
  <2>2. observers' = [observers EXCEPT ![m] = @ \ {o}] => o \notin observers'[m]
    BY DEF TypesOK, DataOK
  <2>3. QED
    BY <1>7, <1>8, <2>1, <2>2

\* A step without a lapse keeps what the LLUs name.
LEMMA NextNames ==
    ASSUME TypesOK, TypesOK', ReplicasOK, ElectionOK, SyncOK, NamesOK, ContentOK, [Next]_vars,
           lapses' = {}, ~assertFailed'
    PROVE  NamesOK'
<1>1. ASSUME Replicating PROVE NamesOK'
  BY <1>1, SyncNames, InitSlaveNames, ReadySlaveNames, ReadyDoneNames, UpdateCommitNames,
     UpdateSendNames, UpdateFinishNames, ReplicateNames DEF Replicating
<1>2. QED
  BY <1>1, NextCalm, CalmNames

-----------------------------------------------------------------------------
(***************************************************************************)
(* What is served is in the database, and shared unless initMaster() has   *)
(* left it there                                                           *)
(***************************************************************************)

\* A step that changes none of it.
LEMMA ContentKept ==
    ASSUME ContentOK, UNCHANGED <<data, topics, shared, stamped>>,
           \A x \in Nodes : llu'[x][1] = llu[x][1]
    PROVE  ContentOK'
BY DEF ContentOK

\* initMaster() shares what is in _topics, and stamps the database itself.
LEMMA SyncContent ==
    ASSUME TypesOK, ReplicasOK, ContentOK, NEW n \in Nodes, Sync(n)
    PROVE  ContentOK'
<1>1. CASE UNCHANGED <<data, topics, shared, llu, stamped>>
  BY <1>1, ContentKept
<1>2. PICK best : best = Best(merging[n].members)
  OBVIOUS
<1>3. PICK stamp : stamp = NextStamp(best.llu)
  OBVIOUS
<1>4. CASE /\ \/ UNCHANGED <<data, topics>>
              \/ /\ data' = [data EXCEPT ![n] = topics[best.id]]
                 /\ topics' = [topics EXCEPT ![n] = topics[best.id] \ InError(n)]
           /\ shared' = [shared EXCEPT ![n] = topics'[n]]
           /\ llu' = [llu EXCEPT ![n] = stamp]
           /\ stamped' = stamped \cup {Stamp(n, n, stamp)}
  <2>1. /\ llu'[n] = stamp /\ shared'[n] = topics'[n] /\ topics'[n] \subseteq data'[n]
        /\ \A x \in Others(n) : llu'[x] = llu[x] /\ shared'[x] = shared[x]
                                /\ data'[x] = data[x] /\ topics'[x] = topics[x]
    BY <1>4 DEF TypesOK, ReplicasOK, DataOK, ContentOK, Others
  <2>2. stamp[1] >= 1
    <3>1. best.llu[1] \in Nat /\ stamp[1] = best.llu[1] + 1
      BY <1>2, <1>3, BestOf DEF Sync
    <3>2. QED
      BY <3>1
  <2>3. PICK x : x = Stamp(n, n, stamp)
    OBVIOUS
  <2>4. /\ x.id = n /\ x.coord = n /\ x.generation = stamp[1] /\ x \in stamped'
        /\ stamped' = stamped \cup {x}
    BY <1>4, <2>3 DEF Stamp
  <2>5. \A y \in stamped' : y.generation >= 1
    BY <2>2, <2>4 DEF ContentOK
  <2>6. ASSUME NEW t \in Nodes
        PROVE  /\ topics'[t] \subseteq shared'[t] /\ shared'[t] \subseteq data'[t]
               /\ data'[t] # shared'[t] =>
                     \E y \in stamped' : y.id = t /\ y.coord = t /\ y.generation = llu'[t][1]
    <3>1. CASE t = n
      BY <2>1, <2>4, <3>1
    <3>2. CASE t \in Others(n)
      BY <2>1, <2>4, <3>2 DEF ContentOK, Others
    <3>3. QED
      BY <3>1, <3>2 DEF Others
  <2>7. QED
    BY <2>5, <2>6 DEF ContentOK
<1>5. QED
  BY <1>1, <1>2, <1>3, <1>4 DEF Sync

\* A member that is initialised has what it is sent and no more.
LEMMA InitSlaveContent ==
    ASSUME TypesOK, ReplicasOK, ElectionOK, ContentOK, NEW n \in Nodes, InitSlave(n)
    PROVE  ContentOK'
<1>1. PICK s : s = NextOf(merging[n].todo).id
  OBVIOUS
<1>2. merging[n].step = "init" /\ merging[n].todo # {}
  BY DEF InitSlave, TypesOK, MergingsOK, MergingOK
<1>3. s \in Nodes
  BY <1>1, <1>2, NextOfTodo
<1>4. CASE UNCHANGED <<data, topics, shared, llu, stamped>>
  BY <1>4, ContentKept
<1>5. CASE Initialized(s, n)
  <2>1. /\ data'[s] = merging[n].content /\ shared'[s] = merging[n].content
        /\ topics'[s] \subseteq merging[n].content
        /\ \A x \in Others(s) : llu'[x] = llu[x] /\ shared'[x] = shared[x]
                                /\ data'[x] = data[x] /\ topics'[x] = topics[x]
    BY <1>3, <1>5 DEF Initialized, TypesOK, ReplicasOK, DataOK, Others
  <2>2. PICK x : x = Stamp(s, n, merging[n].stamp)
    OBVIOUS
  <2>3. merging[n].stamp[1] >= 1
    <3>1. merging[n].stamp = llu[n] /\ Stamped(n, n, merging[n].group, llu[n][1])
      BY <1>2 DEF ElectionOK, InitOK, Synced
    <3>2. PICK y \in stamped : y.generation = llu[n][1]
      BY <3>1 DEF Stamped
    <3>3. QED
      BY <3>1, <3>2 DEF ContentOK
  <2>4. stamped' = stamped \cup {x} /\ x.generation >= 1
    BY <1>5, <2>2, <2>3 DEF Initialized, Stamp
  <2>5. \A y \in stamped' : y.generation >= 1
    BY <2>4 DEF ContentOK
  <2>6. ASSUME NEW t \in Nodes
        PROVE  /\ topics'[t] \subseteq shared'[t] /\ shared'[t] \subseteq data'[t]
               /\ data'[t] # shared'[t] =>
                     \E y \in stamped' : y.id = t /\ y.coord = t /\ y.generation = llu'[t][1]
    <3>1. CASE t = s
      BY <2>1, <3>1
    <3>2. CASE t \in Others(s)
      BY <2>1, <2>4, <3>2 DEF ContentOK, Others
    <3>3. QED
      BY <3>1, <3>2 DEF Others
  <2>7. QED
    BY <2>5, <2>6 DEF ContentOK
<1>6. QED
  BY <1>1, <1>4, <1>5 DEF InitSlave

\* An update goes to the database and to what is shared.
LEMMA UpdatedContent ==
    ASSUME TypesOK, ReplicasOK, ContentOK, NEW s \in Nodes, NEW u, UNCHANGED stamped,
           data' = [data EXCEPT ![s] = @ \cup {u}],
           shared' = [shared EXCEPT ![s] = @ \cup {u}],
           topics' = [topics EXCEPT ![s] = @ \cup {u}] \/ topics' = topics,
           \A x \in Nodes : llu'[x][1] = llu[x][1]
    PROVE  ContentOK'
<1>1. \A x \in Nodes : IF x = s THEN /\ data'[x] = data[x] \cup {u}
                                     /\ shared'[x] = shared[x] \cup {u}
                                     /\ topics'[x] \subseteq topics[x] \cup {u}
                                ELSE /\ data'[x] = data[x] /\ shared'[x] = shared[x]
                                     /\ topics'[x] = topics[x]
  BY DEF TypesOK, ReplicasOK, DataOK
<1>2. \A x \in Nodes : data'[x] # shared'[x] => data[x] # shared[x]
  BY <1>1
<1>3. \A x \in Nodes : topics'[x] \subseteq shared'[x] /\ shared'[x] \subseteq data'[x]
  BY <1>1 DEF ContentOK
<1>4. \A x \in Nodes : data'[x] # shared'[x] =>
         \E y \in stamped' : y.id = x /\ y.coord = x /\ y.generation = llu'[x][1]
  <2>1. ASSUME NEW x \in Nodes, data'[x] # shared'[x]
        PROVE  \E y \in stamped' : y.id = x /\ y.coord = x /\ y.generation = llu'[x][1]
    <3>1. data[x] # shared[x]
      BY <1>2, <2>1
    <3>2. PICK y \in stamped : y.id = x /\ y.coord = x /\ y.generation = llu[x][1]
      BY <3>1 DEF ContentOK
    <3>3. llu'[x][1] = llu[x][1] /\ y \in stamped'
      OBVIOUS
    <3>4. QED
      BY <3>2, <3>3
  <2>2. QED
    BY <2>1
<1>5. (\A x \in stamped : x.generation >= 1)'
  BY DEF ContentOK
<1>6. QED
  BY <1>3, <1>4, <1>5 DEF ContentOK

\* The steps of an update.
LEMMA UpdateContent ==
    ASSUME TypesOK, ReplicasOK, ElectionOK, ContentOK, NEW m \in Nodes, Update(m)
    PROVE  ContentOK'
<1>1. CASE CheckObservers(m)
  BY <1>1, ContentKept DEF CheckObservers, history
<1>2. CASE UpdateStart(m)
  BY <1>2, ContentKept DEF UpdateStart, history
<1>3. CASE UpdateCommit(m)
  <2>1. \A x \in Nodes : llu'[x][1] = llu[x][1]
    BY <1>3 DEF UpdateCommit, TypesOK, DataOK
  <2>2. QED
    BY <1>3, <2>1, UpdatedContent DEF UpdateCommit
<1>4. CASE UpdateSend(m)
  BY <1>4, ContentKept DEF UpdateSend
<1>5. CASE UpdateFinish(m)
  <2>1. sending[m].id \in shared[m] /\ UNCHANGED <<data, shared, llu, stamped>>
    BY <1>5 DEF UpdateFinish, ElectionOK, UpdateOK
  <2>2. \A x \in Nodes : topics'[x] \subseteq IF x = m THEN topics[x] \cup {sending[m].id}
                                                       ELSE topics[x]
    <3>1. CASE UNCHANGED topics
      BY <3>1
    <3>2. CASE topics' = [topics EXCEPT ![m] = @ \cup {sending[m].id}]
      BY <3>2 DEF ReplicasOK
    <3>3. QED
      BY <1>5, <3>1, <3>2 DEF UpdateFinish
  <2>3. QED
    BY <2>1, <2>2 DEF ContentOK
<1>6. CASE SubscriberFails(m)
  <2>1. UNCHANGED <<data, shared, llu, stamped>>
    BY <1>6 DEF SubscriberFails
  <2>2. \A x \in Nodes : topics'[x] \subseteq topics[x]
    BY <1>6 DEF SubscriberFails, ReplicasOK
  <2>3. QED
    BY <2>1, <2>2 DEF ContentOK
<1>7. ASSUME NEW o \in observers[m], Replicate(m, o)
      PROVE  ContentOK'
  <2>1. UNCHANGED stamped
    BY <1>7 DEF Replicate
  <2>2. CASE UNCHANGED <<data, topics, shared, llu>>
    BY <2>1, <2>2, ContentKept
  <2>3. CASE /\ TakesUpdate(o.id, sending[m])
             /\ data' = [data EXCEPT ![o.id] = @ \cup {sending[m].id}]
             /\ topics' = [topics EXCEPT ![o.id] = @ \cup {sending[m].id}]
             /\ shared' = [shared EXCEPT ![o.id] = @ \cup {sending[m].id}]
             /\ llu' = [llu EXCEPT ![o.id] = sending[m].llu]
    <3>1. o.id \in Nodes
      BY <1>7, Facts DEF Infos
    <3>2. llu[o.id][1] = sending[m].llu[1]
      BY <2>3, <3>1 DEF TakesUpdate, ElectionOK, RoleOK
    <3>3. \A x \in Nodes : llu'[x][1] = llu[x][1]
      BY <2>3, <3>1, <3>2 DEF TypesOK, DataOK
    <3>4. QED
      BY <2>1, <2>3, <3>1, <3>3, UpdatedContent
  <2>4. QED
    BY <1>7, <2>2, <2>3 DEF Replicate
<1>8. QED
  BY <1>1, <1>2, <1>3, <1>4, <1>5, <1>6, <1>7 DEF Update

\* A node that starts without a lapse has not been stamped, and installs what is shared.
LEMMA RestartContent ==
    ASSUME TypesOK, ReplicasOK, ContentOK, NEW n \in Nodes, Restart(n), lapses' = {}
    PROVE  ContentOK'
<1>1. llu[n] = <<0, 0>> /\ UNCHANGED <<llu, data, shared, stamped>>
  BY DEF Restart, Lapse, TypesOK, DataOK
<1>2. data[n] = shared[n]
  BY <1>1 DEF ContentOK
<1>3. \A x \in Nodes : topics'[x] = IF x = n THEN data[n] ELSE topics[x]
  BY DEF Restart, ReplicasOK
<1>4. QED
  BY <1>1, <1>2, <1>3 DEF ContentOK

\* Every step without a lapse.
LEMMA NextContent ==
    ASSUME TypesOK, ReplicasOK, ElectionOK, ContentOK, [Next]_vars, lapses' = {}
    PROVE  ContentOK'
<1>1. ASSUME NEW n \in Nodes, Timer(n) PROVE ContentOK'
  <2>1. CASE Check(n) \/ Merge(n) \/ TimeoutAsk(n) \/ TimeoutRecover(n) \/ MergeContinue(n)
    BY <2>1, ContentKept
       DEF Check, Merge, TimeoutAsk, TimeoutRecover, MergeContinue, replicaVars, history
  <2>2. CASE ReadySlave(n) \/ ReadyDone(n)
    BY <2>2, ContentKept DEF ReadySlave, ReadyDone, replicaVars, history
  <2>3. QED
    BY <1>1, <2>1, <2>2, SyncContent, InitSlaveContent DEF Timer
<1>2. ASSUME NEW n \in Nodes, Update(n) PROVE ContentOK'
  BY <1>2, UpdateContent
<1>3. ASSUME NEW n \in Nodes, Crash(n) PROVE ContentOK'
  BY <1>3, ContentKept DEF Crash, history
<1>4. ASSUME NEW n \in Nodes, Restart(n) PROVE ContentOK'
  BY <1>4, RestartContent
<1>5. ASSUME Dispatch PROVE ContentOK'
  BY <1>5, ContentKept DEF Dispatch, Invitation, Accept, Join, replicaVars, history
<1>6. CASE UNCHANGED vars
  BY <1>6, ContentKept DEF vars, replicaVars, history
<1>7. QED
  BY <1>1, <1>2, <1>3, <1>4, <1>5, <1>6 DEF Next

-----------------------------------------------------------------------------
(***************************************************************************)
(* The invariants                                                          *)
(***************************************************************************)

\* Who has another coordinator, and is on duty, has only what was shared.
LEMMA SlavesShare ==
    ASSUME TypesOK, ElectionOK, ContentOK, NEW s \in Nodes, OnDuty(s), node[s].coord # s
    PROVE  data[s] = shared[s]
<1>1. SUFFICES ASSUME data[s] # shared[s] PROVE FALSE
  OBVIOUS
<1>2. PICK x \in stamped : x.id = s /\ x.coord = s /\ x.generation = llu[s][1]
  BY <1>1 DEF ContentOK
<1>3. PICK y : y = [id |-> s, coord |-> node[s].coord, group |-> node[s].group,
                    generation |-> llu[s][1]]
  OBVIOUS
<1>4. y \in stamped /\ y.id = s /\ y.coord = node[s].coord /\ y.generation = llu[s][1]
  BY <1>3 DEF ElectionOK, RoleOK, Stamped, OnDuty
<1>5. x = y
  BY <1>2, <1>4 DEF ElectionOK, StampsOK
<1>6. QED
  BY <1>2, <1>4, <1>5

\* On a run without a lapse, a generation is one group's, observers are in step and an LLU
\* names what was shared of a database.
LEMMA ElectionImplies ==
    ASSUME TypesOK, ElectionOK, SyncOK, NamesOK, ContentOK
    PROVE  GenerationUnique /\ InSync /\ StampNamesData
<1>1. GenerationUnique
  BY SameGeneration DEF GenerationUnique
<1>2. \A n \in Nodes : \A o \in observers[n] : Unsent(n, o) \subseteq Pending(n)
  BY DEF Unsent, Pending
<1>3. \A n \in Nodes : Master(n) => \A o \in observers[n] : o.id \in SlavesOf(n) =>
        shared[o.id] \subseteq shared[n] /\ shared[n] \ shared[o.id] \subseteq Unsent(n, o)
  BY DEF SyncOK, DutyOK
<1>4. \A n \in Nodes : topics[n] \subseteq shared[n] /\ shared[n] \subseteq data[n]
  BY DEF ContentOK
<1>5. \A s \in Nodes : OnDuty(s) /\ node[s].slave => data[s] = shared[s]
  BY SlavesShare DEF ElectionOK, RoleOK, OnDuty
<1>6. InSync
  <2>1. ASSUME NEW n \in Nodes, Master(n), NEW o \in observers[n], o.id \in SlavesOf(n)
        PROVE  data[o.id] \subseteq data[n] /\ topics[n] \subseteq data[o.id] \cup Pending(n)
    <3>1. shared[o.id] \subseteq shared[n] /\ shared[n] \ shared[o.id] \subseteq Unsent(n, o)
      BY <1>3, <2>1
    <3>2. Unsent(n, o) \subseteq Pending(n)
      BY <1>2, <2>1
    <3>3. data[o.id] = shared[o.id]
      BY <1>5, <2>1 DEF SlavesOf, OnDuty
    <3>4. topics[n] \subseteq shared[n] /\ shared[n] \subseteq data[n]
      BY <1>4
    <3>5. QED
      BY <3>1, <3>2, <3>3, <3>4
  <2>2. QED
    BY <2>1 DEF InSync
<1>7. StampNamesData
  <2>1. ASSUME NEW m \in Nodes, NEW n \in Nodes, OnDuty(m), OnDuty(n), llu[m] = llu[n]
        PROVE  topics[m] \subseteq data[n] /\ (node[m].slave /\ node[n].slave => data[m] = data[n])
    <3>1. shared[m] = shared[n]
      BY <2>1 DEF NamesOK, NamedOK
    <3>2. topics[m] \subseteq shared[m] /\ shared[n] \subseteq data[n]
      BY <1>4
    <3>3. node[m].slave /\ node[n].slave => data[m] = shared[m] /\ data[n] = shared[n]
      BY <1>5, <2>1
    <3>4. QED
      BY <3>1, <3>2, <3>3
  <2>2. QED
    BY <2>1 DEF StampNamesData, OnDuty
<1>8. QED
  BY <1>1, <1>6, <1>7

\* Lapses are not forgotten.
LEMMA LapsesStay == [Next]_vars => lapses \subseteq lapses'
<1> SUFFICES ASSUME [Next]_vars PROVE lapses \subseteq lapses'
  OBVIOUS
<1>1. ASSUME NEW n \in Nodes, Timer(n) PROVE lapses \subseteq lapses'
  <2>1. CASE Check(n) \/ Merge(n) \/ TimeoutAsk(n) \/ TimeoutRecover(n) \/ MergeContinue(n)
    BY <2>1 DEF Check, Merge, TimeoutAsk, TimeoutRecover, MergeContinue, history
  <2>2. CASE Sync(n)
    BY <2>2 DEF Sync
  <2>3. CASE InitSlave(n)
    BY <2>3 DEF InitSlave, Initialized
  <2>4. CASE ReadySlave(n)
    BY <2>4 DEF ReadySlave
  <2>5. CASE ReadyDone(n)
    BY <2>5 DEF ReadyDone, history
  <2>6. QED
    BY <1>1, <2>1, <2>2, <2>3, <2>4, <2>5 DEF Timer
<1>2. ASSUME NEW n \in Nodes, Update(n) PROVE lapses \subseteq lapses'
  <2>1. CASE CheckObservers(n) \/ UpdateStart(n) \/ UpdateCommit(n) \/ SubscriberFails(n)
    BY <2>1 DEF CheckObservers, UpdateStart, UpdateCommit, SubscriberFails, history
  <2>2. CASE UpdateSend(n) \/ UpdateFinish(n)
    BY <2>2 DEF UpdateSend, UpdateFinish
  <2>3. ASSUME NEW o \in observers[n], Replicate(n, o) PROVE lapses \subseteq lapses'
    BY <2>3 DEF Replicate
  <2>4. QED
    BY <1>2, <2>1, <2>2, <2>3 DEF Update
<1>3. ASSUME NEW n \in Nodes, Crash(n) \/ Restart(n) PROVE lapses \subseteq lapses'
  BY <1>3 DEF Crash, Restart, history
<1>4. ASSUME Dispatch PROVE lapses \subseteq lapses'
  BY <1>4 DEF Dispatch, Invitation, Accept, Join, history
<1>5. CASE UNCHANGED vars
  BY <1>5 DEF vars, history
<1>6. QED
  BY <1>1, <1>2, <1>3, <1>4, <1>5 DEF Next

\* Where an assertion can fail.
LEMMA AssertsFail ==
    ASSUME Next
    PROVE  ~assertFailed /\ (assertFailed' => \E n \in Nodes : Join(n) \/ MergeContinue(n))
<1>1. ASSUME NEW n \in Nodes, Timer(n), ~MergeContinue(n)
      PROVE  ~assertFailed /\ ~assertFailed'
  <2>1. CASE Check(n)
    BY <2>1 DEF Check, NoAssertFails
  <2>2. CASE Merge(n)
    BY <2>2 DEF Merge, NoAssertFails
  <2>3. CASE TimeoutAsk(n)
    BY <2>3 DEF TimeoutAsk, NoAssertFails
  <2>4. CASE TimeoutRecover(n)
    BY <2>4 DEF TimeoutRecover, NoAssertFails
  <2>5. CASE Sync(n)
    BY <2>5 DEF Sync, NoAssertFails
  <2>6. CASE InitSlave(n)
    BY <2>6 DEF InitSlave, NoAssertFails
  <2>7. CASE ReadySlave(n)
    BY <2>7 DEF ReadySlave, NoAssertFails
  <2>8. CASE ReadyDone(n)
    BY <2>8 DEF ReadyDone, NoAssertFails
  <2>9. QED
    BY <1>1, <2>1, <2>2, <2>3, <2>4, <2>5, <2>6, <2>7, <2>8 DEF Timer
<1>2. ASSUME NEW n \in Nodes, Update(n)
      PROVE  ~assertFailed /\ ~assertFailed'
  <2>1. CASE UpdateStart(n) \/ UpdateCommit(n)
    BY <2>1 DEF UpdateStart, UpdateCommit, NoAssertFails
  <2>6. CASE CheckObservers(n) \/ SubscriberFails(n)
    BY <2>6 DEF CheckObservers, SubscriberFails, NoAssertFails
  <2>2. CASE UpdateSend(n)
    BY <2>2 DEF UpdateSend, NoAssertFails
  <2>3. CASE UpdateFinish(n)
    BY <2>3 DEF UpdateFinish, NoAssertFails
  <2>4. ASSUME NEW o \in observers[n], Replicate(n, o) PROVE ~assertFailed /\ ~assertFailed'
    BY <2>4 DEF Replicate, NoAssertFails
  <2>5. QED
    BY <1>2, <2>1, <2>2, <2>3, <2>4, <2>6 DEF Update
<1>3. ASSUME NEW n \in Nodes, Crash(n) \/ Restart(n)
      PROVE  ~assertFailed /\ ~assertFailed'
  BY <1>3 DEF Crash, Restart, NoAssertFails
<1>4. ASSUME NEW msg \in mail, Invitation(msg) \/ Accept(msg)
      PROVE  ~assertFailed /\ ~assertFailed'
  BY <1>4 DEF Invitation, Accept, NoAssertFails
<1>5. ASSUME NEW n \in Nodes, Join(n) \/ MergeContinue(n)
      PROVE  ~assertFailed
  BY <1>5 DEF Join, MergeContinue
<1>6. QED
  BY <1>1, <1>2, <1>3, <1>4, <1>5 DEF Next, Dispatch

\* The step that fails an assertion takes a node off duty, if it changes any duty.
LEMMA FailingStep ==
    ASSUME TypesOK, GenerationUnique, InSync, StampNamesData, lapses = {}, NEW n \in Nodes,
           Join(n) \/ MergeContinue(n)
    PROVE  GenerationUnique' /\ InSync' /\ StampNamesData'
<1>1. UNCHANGED <<observers, llu, data, topics, committed, sending, incarnation>>
  BY DEF Join, MergeContinue, replicaVars
<1>2. \/ node' = [node EXCEPT ![n].state = "Reorganization"]
      \/ node' = [node EXCEPT ![n].state = "Reorganization", ![n].timeout = TRUE]
      \/ node' = [node EXCEPT ![n] = Recovered(node[n], n)]
  BY DEF Join, MergeContinue, GiveUp
<1>3. node'[n].state \in {"Reorganization", "Inactive"} /\ \A x \in Others(n) : node'[x] = node[x]
  BY <1>2, Facts, RecoveredType DEF TypesOK, NodesOK, NodeRecords, Others
<1>4. \A x \in Nodes : node'[x].state = "Normal" => node'[x] = node[x]
  BY <1>3 DEF Others
<1>5. GenerationUnique'
  BY <1>4 DEF GenerationUnique
<1>6. InSync'
  <2>1. \A x \in Nodes : Master(x)' => Master(x) /\ SlavesOf(x)' \subseteq SlavesOf(x)
    BY <1>4 DEF Master, SlavesOf
  <2>2. ASSUME NEW x \in Nodes, Master(x)', NEW o \in observers[x], Reachable(o)',
               (o.id \in SlavesOf(x))'
        PROVE  Reachable(o) /\ o.id \in SlavesOf(x)
    <3>1. o.id \in SlavesOf(x) /\ node[o.id].state = "Normal"
      BY <2>1, <2>2 DEF SlavesOf
    <3>2. QED
      BY <1>1, <2>2, <3>1 DEF Reachable, Alive
  <2>3. QED
    BY <1>1, <2>1, <2>2 DEF InSync, Pending
<1>7. StampNamesData'
  BY <1>1, <1>4 DEF StampNamesData
<1>8. QED
  BY <1>5, <1>6, <1>7

\* What a step keeps: the arguments for the election and for replication hold until
\* something lapses or an assertion fails, and the step that fails one keeps what they imply.
Kept ==
    /\ TypesOK /\ ReplicasOK
    /\ Clean => ElectionOK /\ SyncOK /\ NamesOK /\ ContentOK
    /\ lapses = {} /\ assertFailed => GenerationUnique /\ InSync /\ StampNamesData

\* What the steps keep is the inductive invariant.
LEMMA KeptImplies == Kept => IInv
<1> SUFFICES ASSUME Kept PROVE IInv
  OBVIOUS
<1>1. CASE lapses # {}
  BY <1>1 DEF Kept, IInv, Clean, GenerationUnique, InSync, StampNamesData
<1>2. CASE lapses = {} /\ assertFailed
  BY <1>2 DEF Kept, IInv, Clean
<1>3. CASE Clean
  BY <1>3, ElectionImplies DEF Kept, IInv
<1>4. QED
  BY <1>1, <1>2, <1>3 DEF Kept, Clean, TypesOK, ProcessesOK

\* The inductive invariant holds in every state.
LEMMA Invariance == Spec => []IInv
<1>1. Init => Kept
  <2> SUFFICES ASSUME Init PROVE Kept
    OBVIOUS
  <2>1. TypesOK
    BY InitTypes
  <2>2. \A n \in Nodes : /\ node[n].state = "Inactive" /\ node[n].coord = n
                         /\ node[n].generation = -1 /\ node[n].mergeSet = {}
                         /\ merging[n] = None /\ committed[n] = {} /\ sending[n] = None
                         /\ observers[n] = {} /\ call[n] = "none"
    BY DEF Init, Blank
  <2>3. stamped = {}
    BY DEF Init
  <2>4. ElectionOK
    <3>1. StampsOK
      BY <2>3 DEF StampsOK
    <3>2. GroupsApart
      BY <2>2 DEF GroupsApart, None
    <3>3. \A n \in Nodes : RoleOK(n) /\ MergeOK(n) /\ InitOK(n) /\ UpdateOK(n)
      BY <2>2 DEF RoleOK, MergeOK, InitOK, UpdateOK, Synced, Quiet, None
    <3>4. QED
      BY <3>1, <3>2, <3>3 DEF ElectionOK
  <2>5. SyncOK
    BY <2>2 DEF SyncOK, FormingOK, DutyOK, Synced, Master, None
  <2>6. NamesOK
    <3>1. \A n \in Nodes : shared[n] = {}
      BY DEF Init
    <3>2. QED
      BY <2>2, <3>1 DEF NamesOK, KnownOK, MasterOK, CopiesOK, NamedOK, OnDuty, Synced, Master, None
  <2>7. ContentOK
    BY <2>3 DEF ContentOK, Init
  <2>8. ReplicasOK /\ ~assertFailed
    BY InitReplicas DEF Init
  <2>9. QED
    BY <2>1, <2>4, <2>5, <2>6, <2>7, <2>8 DEF Kept
<1>2. Kept /\ [Next]_vars => Kept'
  <2> SUFFICES ASSUME Kept, [Next]_vars PROVE Kept'
    OBVIOUS
  <2>1. TypesOK /\ TypesOK' /\ ReplicasOK /\ ReplicasOK'
    BY NextTypes, NextReplicas DEF Kept
  <2>0. IInv
    BY KeptImplies
  <2>2. CASE lapses' # {}
    BY <2>1, <2>2 DEF Kept, Clean
  <2>3. CASE lapses' = {} /\ ~assertFailed'
    <3>1. Clean
      <4>1. lapses = {}
        BY <2>3, LapsesStay
      <4>2. ~assertFailed
        BY <2>3, AssertsFail DEF vars
      <4>3. QED
        BY <4>1, <4>2 DEF Clean
    <3>2. ElectionOK /\ SyncOK /\ NamesOK /\ ContentOK
      BY <3>1 DEF Kept
    <3>3. ElectionOK' /\ SyncOK' /\ NamesOK' /\ ContentOK'
      BY <2>1, <2>3, <3>2, NextElection, NextSync, NextNames, NextContent
    <3>4. QED
      BY <2>1, <2>3, <3>3 DEF Kept, Clean
  <2>4. CASE lapses' = {} /\ assertFailed'
    <3>1. lapses = {}
      BY <2>4, LapsesStay
    <3>2. CASE Next
      BY <2>0, <2>1, <2>4, <3>1, <3>2, AssertsFail, FailingStep DEF IInv, Kept, Clean
    <3>3. CASE UNCHANGED vars
      <4>1. UNCHANGED <<node, observers, data, topics, committed, sending, incarnation,
                         lapses, assertFailed>>
        BY <3>3 DEF vars, replicaVars, history
      <4>2. GenerationUnique' /\ InSync' /\ StampNamesData'
        <5>1. UNCHANGED llu
          BY <3>3 DEF vars, replicaVars
        <5>2. GenerationUnique' /\ InSync'
          BY <2>0, <4>1 DEF IInv, GenerationUnique, InSync, Master, SlavesOf, Reachable, Alive,
             Pending
        <5>3. StampNamesData'
          BY <2>0, <4>1, <5>1 DEF IInv, StampNamesData
        <5>4. QED
          BY <5>2, <5>3
      <4>3. QED
        BY <2>1, <2>4, <4>2 DEF Kept, Clean
    <3>4. QED
      BY <3>2, <3>3
  <2>5. QED
    BY <2>2, <2>3, <2>4
<1>3. QED
  BY <1>1, <1>2, KeptImplies, PTL DEF Spec

\* The variables of NodeI.cpp and Observers.cpp hold what their declarations say,
\* whatever calls are lost, nodes crash or assertions fail.
THEOREM ElectionTypeCorrect == Spec => []TypeOK
<1>1. IInv => TypeOK
  BY TypesImplyTypeOK DEF IInv
<1>2. QED
  BY <1>1, Invariance, PTL

\* NodeI's _generation is one group's: no slave takes the updates of another master
\* than its own (startObserverUpdate()).
THEOREM OneGroupForGeneration == Spec => []GenerationUnique
<1>1. IInv => GenerationUnique
  BY DEF IInv
<1>2. QED
  BY <1>1, Invariance, PTL

\* A slave on duty that Observers replicates to has what the master serves, but for the
\* updates that are still to be replicated, and nothing that the master's database has not:
\* also after getContent() and initMaster() have left out what was never installed.
THEOREM ObserversInSync == Spec => []InSync
<1>1. IInv => InSync
  BY DEF IInv
<1>2. QED
  BY <1>1, Invariance, PTL

\* Of two nodes on duty with the same LLU neither serves what the other's database lacks,
\* and two slaves have the same database: what lets NodeI::mergeContinue() choose the best
\* database, and leave its transfer out, by comparing LLUs.
THEOREM StampNamesDatabase == Spec => []StampNamesData
<1>1. IInv => StampNamesData
  BY DEF IInv
<1>2. QED
  BY <1>1, Invariance, PTL

=============================================================================
