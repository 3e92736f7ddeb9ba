------------------------ MODULE MCIceConnectionFactory -----------------------
(* Instances of IceConnectionFactory for TLC.                               *)
EXTENDS IceConnectionFactory

CONSTANTS a1, a2, s1, ca, cb

\* A callback for both connectors, which may wait for the two others at once or they
\* for it: a callback for one connector and a thread for the other.
MCResolutions == [r \in Requests |-> CASE r = a1 -> {{ca, cb}}
                                       [] r = a2 -> {{ca}}
                                       [] OTHER  -> {{cb}}]
=============================================================================
