------------------------- MODULE MCIceStormElection -------------------------
(* Instances of IceStormElection for TLC. *)
EXTENDS IceStormElection

MCNodes == 1..3

\* The state that the first election reaches when no call of it is lost: all
\* the nodes are in the group of the highest, in the first generation.
Leader == Max(Nodes)
Formed ==
    /\ node = [n \in Nodes |->
         [Blank(n, "Normal") EXCEPT
            !.coord = Leader, !.group = 1, !.generation = 1, !.max = Cardinality(Nodes),
            !.slave = (n # Leader), !.timeout = (n # Leader),
            !.up = IF n = Leader THEN {Member(m, <<0, 0>>, 0) : m \in Others(n)} ELSE {}]]
    /\ joining = [n \in Nodes |-> None] /\ merging = [n \in Nodes |-> None]
    /\ suspect = [n \in Nodes |-> FALSE]
    /\ observers = [n \in Nodes |->
         IF n = Leader THEN {[id |-> m, inc |-> 0] : m \in Others(n)} ELSE {}]
    /\ reaped = [n \in Nodes |-> {}]
    /\ llu = [n \in Nodes |-> <<1, 0>>] /\ data = [n \in Nodes |-> {}]
    /\ topics = [n \in Nodes |-> {}] /\ shared = [n \in Nodes |-> {}] /\ creations = {}
    /\ call = [n \in Nodes |-> "none"]
    /\ committed = [n \in Nodes |-> {}] /\ sending = [n \in Nodes |-> None]
    /\ mail = {}
    /\ incarnation = [n \in Nodes |-> 0]
    /\ groups = 1 /\ updates = 0 /\ faults = 0 /\ crashes = 0
    /\ acked = {} /\ errored = {} /\ lapses = {}
    /\ stamped = {[id |-> n, coord |-> Leader, group |-> 1, generation |-> 1] : n \in Nodes}
    /\ counted = [n \in Nodes |-> 1]
    /\ assertFailed = FALSE

\* All the properties but TypeOK are about runs without a lapse: states after
\* one are not explored.
NoLapse == lapses = {}

FormedSpec == Formed /\ [][Next]_vars
=============================================================================
