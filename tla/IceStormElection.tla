-------------------------- MODULE IceStormElection --------------------------
(***************************************************************************)
(* Replicated IceStorm: the election of a coordinator among the replicas   *)
(* (cpp/src/IceStorm/NodeI.cpp, Garcia-Molina's invitation algorithm), the *)
(* replication of the coordinator's database to the others (Observers.cpp, *)
(* TopicManagerI.cpp), and the log update stamp (LLU) by which a new       *)
(* coordinator finds the latest database.                                  *)
(*                                                                         *)
(* One section under a node's lock is one step, and so is a twoway call    *)
(* with what it does at the other node; the call may fail before or after  *)
(* that.  Oneway calls are messages of "mail" that may never be delivered. *)
(* Timers may fire at any time, so the sets that only bring mergeContinue  *)
(* forward (_invitesIssued, _invitesAccepted) are left out.  A step that   *)
(* would wait for _updateCounter to become zero comes after the update.    *)
(*                                                                         *)
(* A replica keeps its topics twice: in its database, which survives a     *)
(* crash, and in _topics, which is what it serves and what getContent()    *)
(* and initMaster() transfer.  The two may differ: a new topic is          *)
(* installed in _topics only after it has been replicated, and a           *)
(* subscriber in error stays in the database but is not transferred.       *)
(***************************************************************************)
EXTENDS Integers, FiniteSets, FiniteSetsExt

CONSTANTS
    Nodes,         \* the replicas' ids (_nodes): a higher id has priority
    MaxMerges,     \* bound of the model: groups formed
    MaxUpdates,    \* bound of the model: updates of the database
    MaxFaults,     \* bound of the model: calls to live nodes and to
                   \* subscribers that fail
    MaxCrashes     \* bound of the model: crashes

ASSUME NodesAssumption == Nodes \subseteq Nat /\ IsFiniteSet(Nodes) /\ Nodes # {}
ASSUME BoundsAssumption ==
    MaxMerges \in Nat /\ MaxUpdates \in Nat /\ MaxFaults \in Nat /\ MaxCrashes \in Nat

VARIABLES
    node,          \* the members of each NodeI that the lock protects
    joining,       \* invitation() between its two sections: [from, group]
    merging,       \* mergeContinue(): [step, members, todo]
    suspect,       \* timeout() has found that the coordinator is lost
    observers,     \* Observers::_observers: the slaves being replicated to
    reaped,        \* Observers::_reaped: the slaves that were dropped
    llu,           \* the LLU in each database: <<generation, iteration>>
    data,          \* the updates in each database
    topics,        \* the updates that getContent() finds in _topics
    creations,     \* which updates create a topic; the others concern one
    call,          \* a client's call that updates: "none", what check() found
                   \* ("majority" or "minority"), or "started", counted by
                   \* _updateCounter
    committed,     \* updates in a master's database still to be replicated
    sending,       \* the update Observers is replicating: [id, llu, todo]
    mail,          \* invitation and accept calls on their way
    incarnation,   \* of each node's process; observers belong to one
    groups, updates, faults, crashes, \* counts, for names and bounds
    acked,         \* history: the updates whose clients were told so: [id, llu]
    errored,       \* history: the updates whose subscriber has failed somewhere
    shared,        \* history: what each node's group was given of its database:
                   \* all but what initMaster() did not find in _topics
    stamped,       \* history: the stamps that each node's database has had:
                   \* [id, coord, group, generation]
    counted,       \* history: the newest generation whose coordinator has
                   \* counted on each node's LLU
    lapses,        \* history: which of Lapses have happened
    assertFailed   \* an assert() of the code has failed: the program stops

processVars == <<joining, merging, suspect>>
replicaVars ==
    <<observers, reaped, llu, data, topics, shared, creations, call, committed, sending>>
counts == <<groups, updates, faults, crashes>>
history == <<acked, errored, stamped, counted, lapses>>
vars == <<node, processVars, replicaVars, mail, incarnation, counts, history, assertFailed>>

States == {"Inactive", "Election", "Reorganization", "Normal", "Down"}
Electing == {"Election", "Reorganization"}
None == [step |-> "none"]

\* Members a group needs besides its coordinator, and observers an update.
Majority == Cardinality(Nodes) \div 2
Others(n) == Nodes \ {n}
Ids(s) == {x.id : x \in s}
\* Mutant: the iteration is not compared.
NewerGeneration(a, b) == a[1] > b[1]

\* The first of two LLUs is the newer one.
Newer(a, b) == a[1] > b[1] \/ (a[1] = b[1] /\ a[2] > b[2])

\* start() of a NodeI, or what a crash leaves of one.
Blank(n, state) ==
    [state |-> state, coord |-> n, group |-> 0, up |-> {}, max |-> 0,
     generation |-> -1, slave |-> FALSE, mergeSet |-> {}, timeout |-> FALSE]

\* What the code allows and replication does not survive:
\*   "reused":  a coordinator stamps its database with a generation that is
\*              not above its own: mergeContinue() looks at the members' only
\*   "crossed": a node is initialised by another coordinator than the one it
\*              reorganizes for: checkObserverInit() does not compare
\*   "overtaken": an update is replicated before an earlier one
\*   "reset":   a restart writes <<0, 0>> over the LLU
\*   "deserted": a node's database changes while a coordinator that it has
\*              left still counts on the LLU it was told: accept() and
\*              mergeContinue() do not ask again
\*   "mistaken": invitation() goes on in its second section although the node
\*              has formed a group meanwhile: only the state is asserted
\*   "overruled": a node's database is updated in an older generation than one
\*              whose coordinator has counted on its LLU: a node that tells its
\*              LLU does not promise to take no more such updates
Lapses == {"reused", "crossed", "overtaken", "reset", "deserted", "mistaken", "overruled"}
Lapse(name, happens) == IF happens THEN {name} ELSE {}

Init ==
    /\ node = [n \in Nodes |-> Blank(n, "Inactive")]
    /\ joining = [n \in Nodes |-> None] /\ merging = [n \in Nodes |-> None]
    /\ suspect = [n \in Nodes |-> FALSE]
    /\ observers = [n \in Nodes |-> {}] /\ reaped = [n \in Nodes |-> {}]
    /\ llu = [n \in Nodes |-> <<0, 0>>] /\ data = [n \in Nodes |-> {}]
    /\ topics = [n \in Nodes |-> {}] /\ shared = [n \in Nodes |-> {}] /\ creations = {}
    /\ call = [n \in Nodes |-> "none"]
    /\ committed = [n \in Nodes |-> {}] /\ sending = [n \in Nodes |-> None]
    /\ mail = {}
    /\ incarnation = [n \in Nodes |-> 0]
    /\ groups = 0 /\ updates = 0 /\ faults = 0 /\ crashes = 0
    /\ acked = {} /\ errored = {} /\ stamped = {} /\ counted = [n \in Nodes |-> 0] /\ lapses = {}
    /\ assertFailed = FALSE

Alive(n) == node[n].state # "Down"
\* The process that handed out the proxy in o still runs.
Reachable(o) == Alive(o.id) /\ incarnation[o.id] = o.inc
Member(n, l, i) == [id |-> n, llu |-> l, inc |-> i]
\* _updateCounter is zero.
Quiet(n) == call[n] # "started" /\ committed[n] = {} /\ sending[n] = None
\* The updates of a master that are still to be replicated.
Pending(n) == Ids(committed[n]) \cup (IF sending[n] = None THEN {} ELSE {sending[n].id})
NoAssertFails == ~assertFailed /\ UNCHANGED assertFailed

\* Another client's call: the bound on updates, those to be made included.
MayUpdate == updates + Cardinality({n \in Nodes : call[n] # "none"}) < MaxUpdates

\* A call that reaches its target fails: the fault bound.
Fault == faults < MaxFaults /\ faults' = faults + 1

\* The timer thread runs one task at a time.
TimerIdle(n) == Alive(n) /\ ~suspect[n] /\ merging[n].step \in {"none", "pending"}

\* A master on duty.
Master(n) == node[n].state = "Normal" /\ ~node[n].slave

\* Mutant: the coordinator is forgotten, and the node does not take its place.
RecoveredAlone(r, n) ==
    [r EXCEPT !.state = "Inactive", !.coord = -1, !.group = 0, !.up = {},
              !.generation = -1, !.mergeSet = {}, !.timeout = FALSE]

\* recovery(): a group of its own, without the name anyone else knows.
Recovered(r, n) ==
    [r EXCEPT !.state = "Inactive", !.coord = n, !.group = 0, !.up = {},
              !.generation = -1, !.mergeSet = {}, !.timeout = FALSE]

-----------------------------------------------------------------------------
(***************************************************************************)
(* The timer's tasks                                                       *)
(***************************************************************************)

\* check(): slaves that replication dropped leave the group, and with them
\* perhaps the majority; otherwise other coordinators are looked for (those
\* that answer) and a merge with them is scheduled.
Check(n) ==
    LET r    == node[n]
        left == {m \in r.up : m.id \notin reaped[n]}
        found == {m \in Others(n) : node[m].state \notin Electing \cup {"Down"}
                                    /\ node[m].coord = m} IN
    /\ TimerIdle(n)
    /\ r.state \notin Electing /\ r.coord = n /\ r.mergeSet = {}
    /\ reaped' = [reaped EXCEPT ![n] = {}]
    /\ IF reaped[n] # {} /\ Cardinality(left) < Majority
       THEN Quiet(n) /\ node' = [node EXCEPT ![n] = Recovered(r, n)]
       ELSE \E s \in SUBSET found :
              node' = [node EXCEPT ![n].up = left, ![n].mergeSet = s]
    /\ NoAssertFails
    /\ UNCHANGED <<processVars, observers, llu, data, topics, shared, creations, call, committed,
                   sending, mail, incarnation, counts, history>>

\* merge(): a new group, to which the coordinators found and the members of
\* the old group are invited.
Merge(n) ==
    LET invited == node[n].mergeSet \cup Ids(node[n].up) IN
    /\ TimerIdle(n) /\ Quiet(n) /\ groups < MaxMerges
    /\ node[n].mergeSet # {} /\ node[n].state \notin Electing
    /\ groups' = groups + 1
    /\ node' = [node EXCEPT ![n].state = "Election", ![n].coord = n, ![n].group = groups + 1,
                            ![n].up = {}, ![n].mergeSet = {}]
    /\ mail' = mail \cup {[type |-> "invitation", to |-> m, from |-> n,
                           group |-> groups + 1] : m \in {i \in invited : Alive(i)}}
    /\ merging' = [merging EXCEPT ![n] = [step |-> "pending"]]
    /\ NoAssertFails
    /\ UNCHANGED <<joining, suspect, replicaVars, incarnation, updates, faults, crashes,
                   history>>

\* timeout(): areYouThere() of the coordinator returns false or fails.
TimeoutAsk(n) ==
    LET r == node[n]
        c == node[r.coord]
        there == c.state # "Down" /\ c.group = r.group /\ c.coord = r.coord
                 /\ n \in Ids(c.up) IN
    /\ TimerIdle(n) /\ r.timeout /\ r.coord # n
    /\ IF there THEN Fault ELSE UNCHANGED faults
    /\ suspect' = [suspect EXCEPT ![n] = TRUE]
    /\ NoAssertFails
    /\ UNCHANGED <<node, joining, merging, replicaVars, mail, incarnation, groups, updates,
                   crashes, history>>

\* ... and then it recovers, whatever has happened meanwhile.
TimeoutRecover(n) ==
    /\ suspect[n] /\ Quiet(n)
    /\ suspect' = [suspect EXCEPT ![n] = FALSE]
    /\ node' = [node EXCEPT ![n] = Recovered(node[n], n)]
    /\ NoAssertFails
    /\ UNCHANGED <<joining, merging, replicaVars, mail, incarnation, counts, history>>

-----------------------------------------------------------------------------
(***************************************************************************)
(* invitation() and accept()                                               *)
(***************************************************************************)

\* invitation(), first section, and the forwarding to its old members.
Invitation(msg) ==
    LET n == msg.to
        forward == IF node[n].coord = n THEN Ids(node[n].up) ELSE {} IN
    /\ msg.type = "invitation" /\ Alive(n)
    /\ IF node[n].state \in Electing
       THEN /\ mail' = mail \ {msg}
            /\ UNCHANGED <<node, joining>>
       ELSE /\ Quiet(n)
            /\ node' = [node EXCEPT ![n].state = "Election", ![n].coord = msg.from,
                                    ![n].group = msg.group, ![n].mergeSet = {}]
            /\ joining' = [joining EXCEPT ![n] =
                              [step |-> "joining", from |-> msg.from, group |-> msg.group]]
            /\ mail' = (mail \ {msg}) \cup
                       {[msg EXCEPT !.to = m] : m \in {i \in forward : Alive(i)}}
    /\ NoAssertFails
    /\ UNCHANGED <<merging, suspect, replicaVars, incarnation, counts, history>>

\* invitation(), second section, which asserts that no other thread has
\* changed the state (but not the group), and the call of accept().
Join(n) ==
    LET j == joining[n] IN
    /\ ~assertFailed /\ j # None
    /\ joining' = [joining EXCEPT ![n] = None]
    /\ assertFailed' = (node[n].state # "Election")
    /\ lapses' = lapses \cup Lapse("mistaken", node[n].coord # j.from \/ node[n].group # j.group)
    /\ \/ /\ node' = [node EXCEPT ![n].state = "Reorganization", ![n].timeout = TRUE]
          /\ mail' = mail \cup {[type |-> "accept", to |-> j.from, group |-> j.group,
                                 max |-> node[n].max, info |-> Member(n, llu[n], incarnation[n])]}
          /\ UNCHANGED faults
       \/ /\ IF Alive(j.from) THEN Fault ELSE UNCHANGED faults
          /\ node' = [node EXCEPT ![n] = Recovered(node[n], n)]
          /\ UNCHANGED mail
    /\ UNCHANGED <<merging, suspect, replicaVars, incarnation, groups, updates, crashes, acked,
                   errored, stamped, counted>>

Accept(msg) ==
    LET c == msg.to
        r == node[c] IN
    /\ msg.type = "accept" /\ Alive(c)
    /\ mail' = mail \ {msg}
    /\ node' = IF r.state = "Election" /\ r.group = msg.group /\ r.coord = c
               THEN [node EXCEPT
                       ![c].max = IF msg.max > @ THEN msg.max ELSE @,
                       ![c].up = IF msg.info.id \in Ids(@) THEN @ ELSE @ \cup {msg.info}]
               ELSE node
    /\ NoAssertFails
    /\ UNCHANGED <<processVars, replicaVars, incarnation, counts, history>>

-----------------------------------------------------------------------------
(***************************************************************************)
(* mergeContinue()                                                         *)
(***************************************************************************)

\* recovery() in the middle of it.
GiveUp(n) ==
    /\ node' = [node EXCEPT ![n] = Recovered(node[n], n)]
    /\ merging' = [merging EXCEPT ![n] = None]

\* At first every node has to participate, later a majority.
Enough(n, up) ==
    /\ node[n].max = Cardinality(Nodes) \/ Cardinality(up) = Cardinality(Nodes) - 1
    /\ Cardinality(up) >= Majority

MergeContinue(n) ==
    /\ ~assertFailed /\ TimerIdle(n) /\ merging[n].step = "pending"
    /\ assertFailed' = (node[n].state # "Election")
    /\ IF Enough(n, node[n].up)
       THEN /\ node' = [node EXCEPT ![n].state = "Reorganization"]
            /\ merging' = [merging EXCEPT ![n] =
                              [step |-> "sync", group |-> node[n].group, members |-> node[n].up]]
       ELSE GiveUp(n)
    /\ UNCHANGED <<joining, suspect, replicaVars, mail, incarnation, counts, history>>

\* The member with the newest LLU, the first of several.
Best(members) ==
    CHOOSE m \in members : \A o \in members :
        ~Newer(o.llu, m.llu) /\ (o.llu = m.llu => m.id <= o.id)

\* Mutant: the members' newest generation is kept.
SameStamp(maxllu) == <<maxllu[1], 0>>

\* The stamp of a new generation.
NextStamp(maxllu) == <<maxllu[1] + 1, 0>>

\* The stamp of coordinator n on the database of s, and whether another
\* coordinator counts on the LLU of s, which it has not initialised yet.
Stamp(s, n, stamp) ==
    [id |-> s, coord |-> n, group |-> merging[n].group, generation |-> stamp[1]]
CountedOn(s, n) ==
    \E c \in Others(n) : merging[c].step = "init" /\ s \in Ids(merging[c].todo)

\* A coordinator has counted on the LLU of s for a newer generation.
Overruled(s) == counted[s] > llu[s][1]

\* The subscribers that are in error at s: in its database, but getContent()
\* leaves them out.  An observerInit() that brings them again does not change
\* that: TopicImpl::update() keeps the Subscriber.
InError(s) == data[s] \ (topics[s] \cup creations)

\* The content is fetched from the best member if its LLU is newer than the
\* coordinator's, and replaces the database; then initMaster() stamps the
\* database with the generation after the best member's.  What the members
\* will be sent is the content and the stamp of that moment; what is in the
\* database but not in the content remains there.
Sync(n) ==
    LET members == merging[n].members
        best    == Best(members)
        fetch   == Newer(best.llu, llu[n]) IN
    /\ merging[n].step = "sync"
    /\ \/ /\ fetch => Alive(best.id)
          /\ IF fetch THEN /\ data' = [data EXCEPT ![n] = topics[best.id]]
                           /\ topics' = [topics EXCEPT ![n] = topics[best.id] \ InError(n)]
                      ELSE UNCHANGED <<data, topics>>
          /\ shared' = [shared EXCEPT ![n] = topics'[n]]
          /\ node' = [node EXCEPT ![n].max = Max({@, Cardinality(members) + 1})]
          /\ llu' = [llu EXCEPT ![n] = NextStamp(best.llu)]
          /\ stamped' = stamped \cup {Stamp(n, n, NextStamp(best.llu))}
          /\ counted' = [s \in Nodes |->
                IF s \in {n} \cup Ids(members) THEN Max({counted[s], NextStamp(best.llu)[1]})
                                               ELSE counted[s]]
          /\ lapses' = lapses
                \cup Lapse("reused", best.llu[1] < llu[n][1])
                \cup Lapse("deserted", CountedOn(n, n) \/ \E m \in members : llu[m.id] # m.llu)
          /\ reaped' = [reaped EXCEPT ![n] = {}]
          /\ observers' = [observers EXCEPT ![n] = {}]
          /\ merging' = [merging EXCEPT ![n] =
                            [step |-> "init", group |-> merging[n].group, members |-> members,
                             todo |-> members, stamp |-> NextStamp(best.llu),
                             content |-> topics'[n]]]
          /\ UNCHANGED faults
       \/ /\ fetch
          /\ IF Alive(best.id) THEN Fault ELSE UNCHANGED faults
          /\ GiveUp(n)
          /\ UNCHANGED <<data, topics, shared, llu, stamped, counted, lapses, reaped, observers>>
    /\ NoAssertFails
    /\ UNCHANGED <<joining, suspect, creations, call, committed, sending, mail, incarnation,
                   groups, updates, crashes, acked, errored>>

NextOf(todo) == CHOOSE m \in todo : \A o \in todo : m.id <= o.id

\* Mutant: the LLU is taken over, the content is not.
InitializedStampOnly(s, n) ==
    /\ UNCHANGED <<data, topics, shared>>
    /\ llu' = [llu EXCEPT ![s] = merging[n].stamp]
    /\ stamped' = stamped \cup {Stamp(s, n, merging[n].stamp)}
    /\ lapses' = lapses
          \cup Lapse("crossed", node[s].coord # n \/ node[s].group # merging[n].group)
          \cup Lapse("deserted", CountedOn(s, n))

\* ReplicaObserverI::init at the slave: observerInit() replaces the database
\* and makes _topics the same but for the subscribers in error.
Initialized(s, n) ==
    /\ data' = [data EXCEPT ![s] = merging[n].content]
    /\ topics' = [topics EXCEPT ![s] = merging[n].content \ InError(s)]
    /\ shared' = [shared EXCEPT ![s] = merging[n].content]
    /\ llu' = [llu EXCEPT ![s] = merging[n].stamp]
    /\ stamped' = stamped \cup {Stamp(s, n, merging[n].stamp)}
    /\ lapses' = lapses
          \cup Lapse("crossed", node[s].coord # n \/ node[s].group # merging[n].group)
          \cup Lapse("deserted", CountedOn(s, n))

\* Observers::init: each member in turn gets the database, if it is still
\* reorganizing; the first that fails ends the merge.
InitSlave(n) ==
    LET m == NextOf(merging[n].todo)
        s == m.id
        takes == Reachable(m) /\ node[s].state = "Reorganization" /\ node[s].coord # s
        left  == merging[n].todo \ {m} IN
    /\ merging[n].step = "init"
    /\ \/ /\ takes /\ Initialized(s, n)
          /\ observers' = [observers EXCEPT ![n] = @ \cup {[id |-> s, inc |-> m.inc]},
                                            ![s] = {}]
          /\ merging' = [merging EXCEPT ![n] =
                IF left # {} THEN [@ EXCEPT !.todo = left]
                ELSE [@ EXCEPT !.step = "ready", !.todo = merging[n].members]]
          /\ UNCHANGED <<node, faults>>
       \/ /\ IF takes THEN Fault ELSE UNCHANGED faults
          /\ \/ takes /\ Initialized(s, n) /\ observers' = [observers EXCEPT ![s] = {}]
             \/ UNCHANGED <<data, topics, shared, llu, stamped, lapses, observers>>
          /\ GiveUp(n)
    /\ NoAssertFails
    /\ UNCHANGED <<joining, suspect, reaped, creations, call, committed, sending, mail,
                   incarnation, groups, updates, crashes, acked, errored, counted>>

\* ready() of each member in turn, which ignores it unless it is still
\* reorganizing in this group; the first call that fails ends the merge.
Readied(s, n) ==
    IF node[s].state = "Reorganization" /\ node[s].group = merging[n].group /\ node[s].coord = n
    THEN [node[s] EXCEPT !.state = "Normal", !.slave = TRUE,
                         !.generation = merging[n].stamp[1],
                         !.max = Max({@, node[n].max})]
    ELSE node[s]

ReadySlave(n) ==
    LET m == NextOf(merging[n].todo)
        s == m.id IN
    /\ merging[n].step = "ready" /\ merging[n].todo # {}
    /\ \/ /\ Alive(s)
          /\ node' = [node EXCEPT ![s] = Readied(s, n)]
          /\ lapses' = lapses
                \cup Lapse("deserted", node'[s] # node[s] /\ llu[s] # merging[n].stamp)
          /\ merging' = [merging EXCEPT ![n].todo = @ \ {m}]
          /\ UNCHANGED faults
       \/ /\ IF Alive(s) THEN Fault ELSE UNCHANGED faults
          /\ merging' = [merging EXCEPT ![n] = None]
          /\ \E r \in IF Alive(s) THEN {node[s], Readied(s, n)} ELSE {node[s]} :
                /\ node' = [node EXCEPT ![s] = r, ![n] = Recovered(node[n], n)]
                /\ lapses' = lapses
                      \cup Lapse("deserted", r # node[s] /\ llu[s] # merging[n].stamp)
    /\ NoAssertFails
    /\ UNCHANGED <<joining, suspect, replicaVars, mail, incarnation, groups, updates, crashes,
                   acked, errored, stamped, counted>>

\* The coordinator is the master.
ReadyDone(n) ==
    /\ merging[n].step = "ready" /\ merging[n].todo = {}
    /\ node' = [node EXCEPT ![n].state = "Normal", ![n].slave = FALSE,
                            ![n].generation = merging[n].stamp[1]]
    /\ merging' = [merging EXCEPT ![n] = None]
    /\ NoAssertFails
    /\ UNCHANGED <<joining, suspect, replicaVars, mail, incarnation, counts, history>>

-----------------------------------------------------------------------------
(***************************************************************************)
(* Updates (a topic is created, a subscriber added...): committed by the   *)
(* master and then replicated.  The client is told after that.  Updates of *)
(* different topics hold different locks until Observers' own lock is      *)
(* taken, so they may be replicated in another order than committed.       *)
(***************************************************************************)

\* Observers::check(), called by startUpdate() and updateMaster() before they
\* lock the node: it pings the observers, if there are enough of them, and
\* drops those whose ping fails.  Where there are none, on a node that is not
\* the master, it does nothing.
CheckObservers(n) ==
    LET lost == {o \in observers[n] : ~Reachable(o)} IN
    /\ Alive(n) /\ call[n] = "none" /\ (observers[n] # {} \/ Master(n))
    /\ sending[n] = None /\ merging[n].step # "init"
    /\ MayUpdate
    /\ \E gone \in IF Cardinality(observers[n]) >= Majority
                   THEN {g \in SUBSET observers[n] : lost \subseteq g} ELSE {{}} :
         /\ observers' = [observers EXCEPT ![n] = @ \ gone]
         /\ reaped' = [reaped EXCEPT ![n] = @ \cup Ids(gone)]
         /\ IF gone \subseteq lost THEN UNCHANGED faults ELSE Fault
         /\ call' = [call EXCEPT ![n] =
               IF Majority = 0 \/ Cardinality(observers[n] \ gone) >= Majority
               THEN "majority" ELSE "minority"]
    /\ NoAssertFails
    /\ UNCHANGED <<node, processVars, llu, data, topics, shared, creations, committed, sending,
                   mail, incarnation, groups, updates, crashes, history>>

\* ... and under the node's lock, when the node may have changed: a master
\* without a majority recovers, one with a majority counts the update.  On
\* any other node updateMaster() does nothing, and startUpdate() sends the
\* client to the master or waits.  Whoever has waited until the node is the
\* master goes on without another check, whenever that is: "none".
UpdateStart(n) ==
    /\ \/ /\ call[n] = "majority" \/ (call[n] = "none" /\ MayUpdate)
          /\ Master(n) /\ call' = [call EXCEPT ![n] = "started"] /\ UNCHANGED node
       \/ /\ call[n] = "minority" /\ Master(n) /\ Quiet(n)
          /\ node' = [node EXCEPT ![n] = Recovered(node[n], n)]
          /\ call' = [call EXCEPT ![n] = "none"]
       \/ /\ call[n] \in {"majority", "minority"} /\ ~Master(n)
          /\ call' = [call EXCEPT ![n] = "none"] /\ UNCHANGED node
    /\ NoAssertFails
    /\ UNCHANGED <<processVars, observers, reaped, llu, data, topics, shared, creations, committed,
                   sending, mail, incarnation, counts, history>>

\* The update is written to the database, and to _topics unless it creates a
\* topic: create() holds the lock of the TopicManagerImpl until it has
\* installed the topic, after the replication.
UpdateCommit(m) ==
    LET u == updates + 1
        stamp == <<llu[m][1], llu[m][2] + 1>> IN
    /\ call[m] = "started" /\ updates < MaxUpdates
    /\ call' = [call EXCEPT ![m] = "none"]
    /\ updates' = u
    /\ data' = [data EXCEPT ![m] = @ \cup {u}]
    /\ shared' = [shared EXCEPT ![m] = @ \cup {u}]
    /\ \/ creations \cap Pending(m) = {} /\ creations' = creations \cup {u} /\ UNCHANGED topics
       \/ topics' = [topics EXCEPT ![m] = @ \cup {u}] /\ UNCHANGED creations
    /\ llu' = [llu EXCEPT ![m] = stamp]
    /\ lapses' = lapses \cup Lapse("deserted", CountedOn(m, m))
                        \cup Lapse("overruled", Overruled(m))
    /\ committed' = [committed EXCEPT ![m] = @ \cup {[id |-> u, llu |-> stamp]}]
    /\ NoAssertFails
    /\ UNCHANGED <<node, processVars, observers, reaped, sending, mail, incarnation, groups, faults,
                   crashes, acked, errored, stamped, counted>>

\* Observers::createTopic() etc.: the calls are sent under the lock.
UpdateSend(m) ==
    /\ sending[m] = None
    /\ \E u \in committed[m] :
         /\ committed' = [committed EXCEPT ![m] = @ \ {u}]
         /\ sending' = [sending EXCEPT ![m] =
                          [step |-> "sending", id |-> u.id, llu |-> u.llu, todo |-> observers[m]]]
         /\ lapses' = lapses \cup Lapse("overtaken", \E v \in committed[m] : Newer(u.llu, v.llu))
    /\ NoAssertFails
    /\ UNCHANGED <<node, processVars, observers, reaped, llu, data, topics, shared, creations, call,
                   mail, incarnation, counts, acked, errored, stamped, counted>>

\* startObserverUpdate(): a slave on duty takes the update.
TakesUpdate(s, u) ==
    /\ node[s].state = "Normal" /\ node[s].slave
    /\ node[s].generation = u.llu[1]

\* One observer's answer; on an exception Observers::wait() drops it.  One
\* that refuses the update recovers if it is in its generation still.
Replicate(m, o) ==
    LET s == o.id
        u == sending[m]
        takes   == Reachable(o) /\ TakesUpdate(s, u)
        recovers == Reachable(o) /\ node[s].generation = u.llu[1]
        updated == /\ data' = [data EXCEPT ![s] = @ \cup {u.id}]
                   /\ topics' = [topics EXCEPT ![s] = @ \cup {u.id}]
                   /\ shared' = [shared EXCEPT ![s] = @ \cup {u.id}]
                   /\ llu' = [llu EXCEPT ![s] = u.llu]
                   /\ lapses' = lapses \cup Lapse("deserted", CountedOn(s, m))
                                       \cup Lapse("overruled", Overruled(s))
        dropped == /\ observers' = [observers EXCEPT ![m] = @ \ {o}]
                   /\ reaped' = [reaped EXCEPT ![m] = @ \cup {s}] IN
    /\ u # None /\ o \in u.todo
    /\ sending' = [sending EXCEPT ![m].todo = @ \ {o}]
    /\ \/ takes /\ updated /\ UNCHANGED <<node, observers, reaped, faults>>
       \/ /\ takes /\ Fault /\ dropped /\ UNCHANGED node
          /\ updated \/ UNCHANGED <<llu, data, topics, shared, lapses>>
       \/ /\ ~takes /\ dropped /\ UNCHANGED <<llu, data, topics, shared, faults, lapses>>
          /\ IF recovers THEN Quiet(s) /\ node' = [node EXCEPT ![s] = Recovered(node[s], s)]
                         ELSE UNCHANGED node
    /\ NoAssertFails
    /\ UNCHANGED <<processVars, creations, call, committed, mail, incarnation, groups, updates,
                   crashes, acked, errored, stamped, counted>>

Replicated(m) == Cardinality(observers[m]) >= Majority

\* Observers::wait() raises without a majority: the client gets an error, and
\* a topic that was to be created remains in the database, uninstalled.
UpdateFinish(m) ==
    LET u == sending[m].id IN
    /\ sending[m] # None /\ sending[m].todo = {}
    /\ sending' = [sending EXCEPT ![m] = None]
    /\ IF Replicated(m)
       THEN /\ acked' = acked \cup {[id |-> u, llu |-> sending[m].llu]}
            /\ topics' = IF u \in creations THEN [topics EXCEPT ![m] = @ \cup {u}] ELSE topics
       ELSE UNCHANGED <<acked, topics>>
    /\ NoAssertFails
    /\ UNCHANGED <<node, processVars, observers, reaped, llu, data, shared, creations, call,
                   committed, mail, incarnation, counts, errored, stamped, counted, lapses>>

\* A replica's calls to a subscriber fail for good: the subscriber is in error
\* there until the replica removes it (an update) or forgets it (a crash).
SubscriberFails(n) ==
    /\ Alive(n) /\ Fault
    /\ \E u \in topics[n] \ creations :
         /\ topics' = [topics EXCEPT ![n] = @ \ {u}]
         /\ errored' = errored \cup {u}
    /\ NoAssertFails
    /\ UNCHANGED <<node, processVars, observers, reaped, llu, data, shared, creations, call,
                   committed, sending, mail, incarnation, groups, updates, crashes, acked, stamped,
                   counted, lapses>>

-----------------------------------------------------------------------------
(***************************************************************************)
(* Crashes and restarts: only the database survives.  The TopicManagerImpl *)
(* that is created then writes the LLU <<0, 0>> to it and installs every   *)
(* topic and subscriber that it finds there.                               *)
(***************************************************************************)

Crash(n) ==
    /\ Alive(n) /\ crashes < MaxCrashes
    /\ crashes' = crashes + 1
    /\ node' = [node EXCEPT ![n] = Blank(n, "Down")]
    /\ joining' = [joining EXCEPT ![n] = None]
    /\ merging' = [merging EXCEPT ![n] = None]
    /\ suspect' = [suspect EXCEPT ![n] = FALSE]
    /\ observers' = [observers EXCEPT ![n] = {}] /\ reaped' = [reaped EXCEPT ![n] = {}]
    /\ call' = [call EXCEPT ![n] = "none"]
    /\ committed' = [committed EXCEPT ![n] = {}] /\ sending' = [sending EXCEPT ![n] = None]
    /\ mail' = {msg \in mail : msg.to # n}
    /\ NoAssertFails
    /\ UNCHANGED <<llu, data, topics, shared, creations, incarnation, groups, updates, faults,
                   history>>

Restart(n) ==
    /\ node[n].state = "Down"
    /\ node' = [node EXCEPT ![n] = Blank(n, "Inactive")]
    /\ llu' = [llu EXCEPT ![n] = <<0, 0>>]
    /\ topics' = [topics EXCEPT ![n] = data[n]]
    /\ incarnation' = [incarnation EXCEPT ![n] = @ + 1]
    /\ lapses' = lapses \cup Lapse("reset", llu[n] # <<0, 0>>)
    /\ NoAssertFails
    /\ UNCHANGED <<processVars, observers, reaped, data, shared, creations, call, committed,
                   sending, mail, counts, acked, errored, stamped, counted>>

-----------------------------------------------------------------------------
Timer(n) ==
    \/ Check(n) \/ Merge(n) \/ TimeoutAsk(n) \/ TimeoutRecover(n)
    \/ MergeContinue(n) \/ Sync(n) \/ InitSlave(n) \/ ReadySlave(n) \/ ReadyDone(n)
Dispatch == (\E msg \in mail : Invitation(msg) \/ Accept(msg)) \/ \E n \in Nodes : Join(n)
Update(n) ==
    \/ CheckObservers(n) \/ UpdateStart(n) \/ UpdateCommit(n) \/ UpdateSend(n) \/ UpdateFinish(n)
    \/ SubscriberFails(n)
    \/ \E o \in observers[n] : Replicate(n, o)

Next ==
    \/ \E n \in Nodes : Timer(n) \/ Update(n) \/ Crash(n) \/ Restart(n)
    \/ Dispatch

Spec == Init /\ [][Next]_vars

-----------------------------------------------------------------------------
Stamps == Nat \X Nat
Members == [id : Nodes, llu : Stamps, inc : Nat]

TypeOK ==
    /\ node \in [Nodes -> [state : States, coord : Nodes, group : 0..MaxMerges,
                           up : SUBSET Members, max : Nat, generation : Nat \cup {-1},
                           slave : BOOLEAN, mergeSet : SUBSET Nodes, timeout : BOOLEAN]]
    /\ observers \in [Nodes -> SUBSET [id : Nodes, inc : Nat]]
    /\ reaped \in [Nodes -> SUBSET Nodes]
    /\ llu \in [Nodes -> Stamps] /\ data \in [Nodes -> SUBSET (1..MaxUpdates)]
    /\ topics \in [Nodes -> SUBSET (1..MaxUpdates)]
    /\ call \in [Nodes -> {"none", "minority", "majority", "started"}]
    /\ acked \subseteq [id : 1..updates, llu : Stamps]

\* The slaves on duty in the group of a master.
SlavesOf(n) == {s \in Nodes : node[s].state = "Normal" /\ node[s].slave
                              /\ node[s].group = node[n].group}

\* The database of every observer that a master replicates to, and that is on
\* duty for it, has what the master serves but for the updates still to be
\* replicated, and nothing that the master's database has not: what Observers'
\* check(), init() and wait() and the generation are for.  The master's
\* database may have more: a topic whose replication failed is in it and was
\* never installed, and initMaster() does not send it.
InSync ==
    lapses = {} => \A n \in Nodes : Master(n) => \A o \in observers[n] :
        Reachable(o) /\ o.id \in SlavesOf(n) =>
            data[o.id] \subseteq data[n] /\ topics[n] \subseteq data[o.id] \cup Pending(n)

\* An update that a client was told of is served by every master that a
\* majority follows, if no subscriber of it has failed: what the election by
\* LLU is for.
AckedSurvive ==
    \A n \in Nodes : Master(n) /\ Cardinality(SlavesOf(n)) >= Majority =>
        Ids(acked) \subseteq topics[n] \cup errored

\* ... unless there was a lapse.
AckedSurviveUnless == lapses = {} => AckedSurvive

\* Nodes on duty in the same generation are in the same group: updates of
\* one master are never taken by a slave of another.
GenerationUnique ==
    \A m, n \in Nodes : node[m].state = "Normal" /\ node[n].state = "Normal"
        /\ node[m].generation = node[n].generation /\ lapses = {}
        => node[m].group = node[n].group

\* What an LLU stands for, which lets mergeContinue() choose by LLU, and leave
\* out the transfer when its own is the newest: of two nodes on duty with the
\* same LLU neither serves what the other's database lacks, and two slaves
\* have the same database.  A master's may have more: see InSync.
StampNamesData ==
    lapses = {} => \A m, n \in Nodes :
        node[m].state = "Normal" /\ node[n].state = "Normal" /\ llu[m] = llu[n] =>
            /\ topics[m] \subseteq data[n]
            /\ node[m].slave /\ node[n].slave => data[m] = data[n]

\* The stamp that initMaster() writes is newer than the one it replaces.
StampAdvances ==
    [][\A n \in Nodes : merging[n].step = "sync" /\ merging'[n].step = "init"
                         => Newer(llu'[n], llu[n])]_vars
=============================================================================
