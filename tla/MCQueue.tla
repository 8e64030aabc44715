------------------------------ MODULE MCQueue ------------------------------
(* Two producers and two consumers on a ring of two slots, with balanced    *)
(* pushes and pops: the ring wraps, and both sides block on it together.    *)
EXTENDS Queue

CONSTANTS p1, p2, c1, c2

MCProducers == {p1, p2}
MCConsumers == {c1, c2}
MCPushes == [p \in MCProducers |-> IF p = p1 THEN 3 ELSE 2]
MCPops == [c \in MCConsumers |-> IF c = c1 THEN 3 ELSE 2]
=============================================================================
