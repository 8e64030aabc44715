------------------------ MODULE MCControlDependence ------------------------
(* Loops of four blocks with two-way branches, numbered so that every block  *)
(* but the header has a predecessor before it; an edge back leads to the     *)
(* header, to the block itself or to the block before it.  They have nested  *)
(* conditions and inner loops, exits anywhere, and some are irreducible.     *)
EXTENDS ControlDependence

Targets(b) == {T \in SUBSET (Block \cup {exit}) :
                 Cardinality(T) \in {1, 2} /\ \A t \in T : t = header \/ t >= b - 1}

MCLoops == {c \in [Block -> UNION {Targets(b) : b \in Block}] :
              /\ \A b \in Block : c[b] \in Targets(b)
              /\ \A b \in Block \ {header} : \E p \in 0..b - 1 : b \in c[p]
              /\ IsLoop(c)}

\* One instruction in each block, but two in the last; the first one is
\* used there.
Plain(m) == [l \in 1..m |-> [kind |-> "other", loc |-> {}]]
Lengths == [b \in Block |-> IF b = NumBlock - 1 THEN 2 ELSE 1]
MCPrograms ==
  {[cfg |-> c, insts |-> [b \in Block \cup {predecessor} |-> IF b \in Block THEN Plain(Lengths[b]) ELSE <<>>],
    users |-> [i \in UNION {{b} \X (1..Lengths[b]) : b \in Block} |->
                 IF i = <<0, 1>> THEN <<<<NumBlock - 1, 1>>>> ELSE <<>>]] : c \in MCLoops}
=============================================================================
