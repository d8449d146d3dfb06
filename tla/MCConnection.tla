---------------------------- MODULE MCConnection ----------------------------
EXTENDS Connection, TLC

CONSTANTS c1, c2, c3

Asks(k1, n1, k2, n2, k3, n3) ==
    (c1 :> [kind |-> k1, limit |-> n1]) @@ (c2 :> [kind |-> k2, limit |-> n2])
        @@ (c3 :> [kind |-> k3, limit |-> n3])

\* Three discoveries; the mixes of a placement; follows and a push beside the capped
\* commands, which leave them room or do not.
SampleLoads ==
    {Asks("discover", 2, "discover", 2, "discover", 1), Asks("submit", 2, "discover", 1, "put", 2),
     Asks("batch", 1, "query", 1, "stream", 1), Asks("get", 2, "submit", 1, "batch", 2),
     Asks("push", 1, "stream", 1, "query", 1), Asks("push", 1, "push", 1, "submit", 1)}
=============================================================================
