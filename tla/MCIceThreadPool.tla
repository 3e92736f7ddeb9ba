--------------------------- MODULE MCIceThreadPool --------------------------
(* Instances of IceThreadPool for TLC.                                      *)
EXTENDS IceThreadPool

Pool(size, sizeMax, sizeIO, serialize, threadIdle, serverIdle) ==
    [size |-> size, sizeMax |-> sizeMax, sizeIO |-> sizeIO, serialize |-> serialize,
     threadIdle |-> threadIdle, serverIdle |-> serverIdle]

\* One thread; two that may both do I/O, in a server that shuts down when it is
\* idle; one that grows to two and shrinks again, with Serialize and one thread
\* for I/O, and without; one or two that grow to three.
MCPools == {Pool(1, 1, 1, FALSE, FALSE, TRUE), Pool(2, 2, 2, FALSE, FALSE, TRUE),
            Pool(1, 2, 1, TRUE, TRUE, FALSE), Pool(1, 2, 2, FALSE, TRUE, FALSE),
            Pool(1, 3, 2, FALSE, TRUE, FALSE), Pool(2, 3, 2, TRUE, FALSE, FALSE)}
=============================================================================
