----------------------------- MODULE MCBalancer -----------------------------
(* Small instances of Balancer: workers that send anything at any time.    *)
EXTENDS Balancer

CONSTANTS r1, r2, r3, w1, w2, c1, c2, n1, x1, x2

\* The same program sent twice: the second may be answered from the cache.
MCCodeOf == [r \in Requests |-> c1]
MCNameOf == [r \in Requests |-> IF r = r3 THEN None ELSE n1]
MCCapacity == [w \in Workers |-> 1]
=============================================================================
