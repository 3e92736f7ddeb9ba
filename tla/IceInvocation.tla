--------------------------- MODULE IceInvocation ----------------------------
(***************************************************************************)
(* What the Ice run time promises of an invocation over one connection     *)
(* (cpp/src/Ice/Outgoing.cpp, OutgoingAsync.cpp): "at-most-once".  A call  *)
(* ends once, with a result, with an exception that lets the proxy send it *)
(* again on another connection ("retry"), or with one that does not        *)
(* ("fatal").  It is executed at most once, and never if it may be retried.*)
(***************************************************************************)
EXTENDS Naturals

CONSTANTS
    Calls,         \* the invocations
    Twoway         \* those that wait for a reply, a subset of Calls

VARIABLES
    outcome,       \* "idle", "pending", "ok", "retry" or "fatal"
    executions     \* how often the operation was dispatched

Outcomes == {"idle", "pending", "ok", "retry", "fatal"}
Ended == {"ok", "retry", "fatal"}

Init ==
    /\ outcome = [c \in Calls |-> "idle"]
    /\ executions = [c \in Calls |-> 0]

\* The caller's side of one call: it starts, and it ends once.  A twoway
\* ends well only if it was executed, and a retry tells that it was not.
CallerStep(c) ==
    /\ outcome[c] \notin Ended
    /\ outcome'[c] \in Ended \cup {"pending"}
    /\ outcome'[c] = "ok" /\ c \in Twoway => executions[c] = 1
    /\ outcome'[c] = "retry" => executions'[c] = 0

\* The other side: it executes a call that was made, once.
ExecuteStep(c) ==
    /\ executions[c] = 0 /\ executions'[c] = 1
    /\ outcome[c] \notin {"idle", "retry"}

\* The end of a connection ends many calls in one step.
Next ==
    /\ outcome' \in [Calls -> Outcomes]
    /\ executions' \in [Calls -> Nat]
    /\ \A c \in Calls :
         /\ outcome'[c] # outcome[c] => CallerStep(c)
         /\ executions'[c] # executions[c] => ExecuteStep(c)

Spec == Init /\ [][Next]_<<outcome, executions>>
=============================================================================
