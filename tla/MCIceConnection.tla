-------------------------- MODULE MCIceConnection ---------------------------
(* Instances of IceConnection for TLC: three calls, two of the connecting   *)
(* end and one in the other direction.                                      *)
EXTENDS IceConnection

CONSTANTS c1, c2, c3

MCCalls == {c1, c2, c3}
MCCaller == [c \in MCCalls |-> IF c = c3 THEN "B" ELSE "A"]

\* c1 is a synchronous twoway, c2 an AMI oneway, c3 an AMI twoway by which
\* the server calls back.
MCMixedTwoway == {c1, c3}
MCAsync == {c2, c3}

\* The two twoways alone, for liveness and for short counterexamples.
MCTwoCalls == {c1, c3}
MCTwoCaller == [c \in MCTwoCalls |-> MCCaller[c]]
MCTwoTwoway == MCTwoCalls
MCTwoAsync == {c3}

MCGraceful == {"graceful"}
MCFaulty == {"faulty"}
MCEnvironments == MCGraceful \cup MCFaulty

\* What the applications may do besides calling.  Where the network fails the
\* connecting end closes by force and where it does not gracefully or by destruction:
\* a connection has fewer ways to its end at once, and the run fewer states.
MCOps == [x \in MCEnvironments |->
    {<<"destroy", "B">>, <<"hold", "B">>, <<"monitor", "B">>}
    \cup (IF x = "graceful" THEN {<<"close", "A">>, <<"destroy", "A">>} ELSE {<<"force", "A">>})]
MCTwoOps == [x \in MCFaulty |-> {<<"close", "A">>, <<"destroy", "B">>}]
LiveOps == [x \in MCGraceful |->
    {<<"close", "A">>, <<"destroy", "B">>, <<"wait", "A">>, <<"wait", "B">>}]
=============================================================================
