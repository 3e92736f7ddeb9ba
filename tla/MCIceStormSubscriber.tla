------------------------ MODULE MCIceStormSubscriber ------------------------
(* Instances of IceStormSubscriber for TLC.  The code's maximum of five    *)
(* outstanding calls is two or three here; up to four events are published. *)
EXTENDS IceStormSubscriber

Ordered   == [kind |-> "twoway", maxOutstanding |-> 1, retryCount |-> 1, cost |-> 0]
NoRetry   == [kind |-> "twoway", maxOutstanding |-> 2, retryCount |-> 0, cost |-> 0]
Unordered == [kind |-> "twoway", maxOutstanding |-> 2, retryCount |-> 1, cost |-> 0]
Three     == [kind |-> "twoway", maxOutstanding |-> 3, retryCount |-> 2, cost |-> 0]
Oneway    == [kind |-> "oneway", maxOutstanding |-> 2, retryCount |-> 0, cost |-> 0]
Batch     == [kind |-> "batch",  maxOutstanding |-> 1, retryCount |-> 0, cost |-> 0]
Link      == [kind |-> "link",   maxOutstanding |-> 1, retryCount |-> -1, cost |-> 0]
CostLink  == [Link EXCEPT !.cost = 1]

MCAllRecords == {Ordered, NoRetry, Unordered, Three, Oneway, Batch, Link, CostLink}
MCCostLink == {CostLink}
=============================================================================
