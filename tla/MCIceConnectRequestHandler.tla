---------------------- MODULE MCIceConnectRequestHandler ---------------------
(* Instances of IceConnectRequestHandler for TLC.                           *)
EXTENDS IceConnectRequestHandler

CONSTANTS c1, c2, c3

Script(s1, s2, s3) == [c \in Callers |-> IF c = c1 THEN s1 ELSE IF c = c2 THEN s2 ELSE s3]

\* Two callers of batch requests, either of which may fail while the other has a request
\* in the queue; and three callers, one of each kind.
MCScripts == {Script(<<"batch">>, <<"batch", "sync">>, <<>>),
              Script(<<"async">>, <<"batch">>, <<"sync">>)}
=============================================================================
