------------------------------ MODULE MCDriver ------------------------------
(* Modules of up to two functions with up to two loops each: inner loops,    *)
(* loops with several exits, loops of one component, and any that can be     *)
(* split; blocks that do not end.  A worker has the loop, or nothing.        *)
EXTENDS Driver

Inner == [depth |-> 2, unique |-> TRUE, sccs |-> 2]
Outer == [depth : {1}, unique : BOOLEAN, sccs : {1, 2}]
LoopLists == {<<>>} \cup {<<l>> : l \in Outer} \cup {<<k, l>> : k \in {Inner} \cup Outer, l \in Outer}

Named(n) == {[name |-> <<0, n>>, loops |-> ls, returns |-> r] : ls \in LoopLists, r \in BOOLEAN}
MCModules == {<<f>> : f \in Named(1)} \cup {<<f, g>> : f \in Named(1), g \in Named(2)}

MCWorkerLoops == {<<>>, <<[depth |-> 1, unique |-> TRUE, sccs |-> 2]>>}
=============================================================================
