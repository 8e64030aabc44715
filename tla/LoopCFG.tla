------------------------------ MODULE LoopCFG ------------------------------
(***************************************************************************)
(* The loops the pass is run on, as control-flow graphs, and what the      *)
(* analyses of LLVM that the pass asks (LoopInfo, DominatorTree and        *)
(* PostDominatorTree) say about a graph.  LLVM is external: dominance is   *)
(* defined here by paths, not computed the way LLVM does.                  *)
(***************************************************************************)
EXTENDS Integers, FiniteSets

CONSTANT NumBlock   \* number of basic blocks in the loop

ASSUME LoopAssumption == NumBlock \in Nat \ {0}

Block == 0..NumBlock - 1
header == 0
exit == NumBlock    \* the one block outside the loop that it branches to

\* The nodes of graph E from which a path leads to node to, without touching
\* node not.
Reaching(E, to, not) ==
  LET Nodes == {to} \cup {e[1] : e \in E} \cup {e[2] : e \in E}
      Back[S \in SUBSET Nodes] ==
        S \cup {e[1] : e \in {f \in E : f[2] \in S /\ f[1] # not}}
      Near[k \in 0..Cardinality(Nodes)] == IF k = 0 THEN {to} \ {not} ELSE Back[Near[k - 1]]
  IN Near[Cardinality(Nodes)]   \* paths of at most so many edges

Transposed(E) == {<<e[2], e[1]>> : e \in E}

\* The blocks on every path of E from x to root, x and root included: the
\* postdominators of x, when root is where E ends.
Postdominators(E, root) ==
  LET Nodes == {root} \cup {e[1] : e \in E} \cup {e[2] : e \in E}
  IN [x \in Nodes |-> {y \in Nodes : x \notin Reaching(E, root, y)}]

\* The blocks on every path of E from root to x.
Dominators(E, root) == Postdominators(Transposed(E), root)

\* In the tree of a dominance relation D the parent of x, if x is not the root,
\* and the nearest common ancestor of x and y.
Parent(D, x) == CHOOSE p \in D[x] : D[p] = D[x] \ {x}
NearestCommon(D, x, y) == CHOOSE c \in D[x] : D[c] = D[x] \cap D[y]

\* A loop: cfg maps its blocks to their successors.
EdgesOf(cfg) == {e \in Block \X (Block \cup {exit}) : e[2] \in cfg[e[1]]}

\* The loops LoopInfo finds that DSWP::initialize accepts: entered at the header
\* only, and left for one block only.
IsLoop(cfg) ==
  LET E == EdgesOf(cfg)
      Inner == {e \in E : e[2] # exit}
  IN /\ \E b \in Block : exit \in cfg[b]
     /\ \A b \in Block : cfg[b] # {}
     /\ Reaching(Inner, header, exit) = Block
     /\ Reaching(Transposed(Inner), header, exit) = Block

\* Every cycle has a block that dominates the others, as in compiled structured
\* code: without its edges to dominators the graph has no cycle.
Reducible(cfg) ==
  \E D \in {Dominators(EdgesOf(cfg), header)} :
    \E Forward \in {{e \in EdgesOf(cfg) : e[2] \notin D[e[1]]}} :
      \A e \in Forward : e[2] \notin Reaching(Forward, e[1], exit)

\* Y depends on branch X in graph E with the postdominators P: after one
\* successor of X execution is bound to reach Y, at X itself it is not.
Decides(E, P, X, Y) ==
  /\ \E s \in DOMAIN P : <<X, s>> \in E /\ Y \in P[s]
  /\ X # Y => Y \notin P[X]

\* The loop unrolled into its first iteration and all later ones; an iteration
\* ends with an edge back to a dominator.
Unrolled(cfg) ==
  LET D == Dominators(EdgesOf(cfg), header)
      Place(b, h) == <<b, IF b = exit THEN 2 ELSE h>>
  IN {<<Place(e[1], 1), Place(e[2], IF e[2] \in D[e[1]] THEN 2 ELSE 1)>> : e \in EdgesOf(cfg)}
     \cup {<<Place(e[1], 2), Place(e[2], 2)>> : e \in EdgesOf(cfg)}

\* Which block's branch decides about which block, in this iteration or a later
\* one; in the unrolled loop U with the postdominators P.
DependencesIn(U, P) ==
  {e \in Block \X Block : \E h, g \in {1, 2} : Decides(U, P, <<e[1], h>>, <<e[2], g>>)}

ControlDependences(cfg) ==
  UNION {UNION {DependencesIn(U, P) : P \in {Postdominators(U, <<exit, 2>>)}} : U \in {Unrolled(cfg)}}
=============================================================================
