---------------------------- MODULE MCLoopSplit ----------------------------
(* Loops with a condition, a nested condition or an inner loop, a phi node   *)
(* in the header, every set of at most MaxExtra further dependences, and     *)
(* every assignment of threads that respects the dependences.                *)
EXTENDS LoopSplit

CONSTANTS
  Shapes,     \* the control flow
  Joins,      \* the blocks that may have the phi node
  Carriers,   \* the blocks that may compute the value of it
  MaxExtra,   \* how many further dependences
  FreeBranches   \* whether a branch that goes one way may be apart from its block's work

WhileIf == 0 :> {1, 4} @@ 1 :> {2, 3} @@ 2 :> {3} @@ 3 :> {0}
IfElse == 0 :> {1, 2} @@ 1 :> {3} @@ 2 :> {3} @@ 3 :> {0, 4}
NestedIf == 0 :> {1, 3} @@ 1 :> {2, 3} @@ 2 :> {3} @@ 3 :> {0, 4}
InnerLoop == 0 :> {1, 4} @@ 1 :> {2} @@ 2 :> {1, 3} @@ 3 :> {0}
Conditions == {IfElse, InnerLoop}
MCShapes == {WhileIf, IfElse, NestedIf, InnerLoop}

\* Instructions: every block has one and a terminator; block j has a phi node too.
Phi(j) == <<j, 1>>
Work(j, b) == <<b, IF b = j THEN 2 ELSE 1>>
Term(j, b) == <<b, IF b = j THEN 3 ELSE 2>>
MCSize(j) == [b \in Block |-> IF b = j THEN 3 ELSE 2]
All(j) == UNION {{b} \X (1..MCSize(j)[b]) : b \in Block}
Layout(j) == [n \in 1..2 * NumBlock + 1 |->
                CASE n <= 2 * j + 3 /\ n > 2 * j -> <<j, n - 2 * j>>
                  [] n <= 2 * j -> <<(n - 1) \div 2, ((n - 1) % 2) + 1>>
                  [] OTHER -> <<(n - 2) \div 2, (n % 2) + 1>>]

Preds(cfg, j) == {b \in Block : j \in cfg[b]} \cup (IF j = header THEN {predecessor} ELSE {})

\* From block q comes the value of block c, from the others one of outside the loop.
MCPhi(cfg, j, q, c) ==
  Phi(j) :> [p \in Preds(cfg, j) |-> IF p = q THEN Work(j, c) ELSE <<predecessor, 1>>]

\* Used after the loop: the phi node and the work of every block that cannot be
\* missed on the way to the exit.
MCUsedAfter(cfg, j) ==
  UNION {{Work(j, b), IF b = j THEN Phi(j) ELSE Work(j, b)}
           : b \in Block \cap Dominators(EdgesOf(cfg), header)[exit]}

\* The edges in S in the order of their instructions.
EdgeSeq(j, dtype, S) ==
  LET L == Layout(j)
      order == [n \in 1..Len(L) * Len(L) |->
                  [u |-> L[((n - 1) \div Len(L)) + 1], v |-> L[((n - 1) % Len(L)) + 1],
                   dtype |-> dtype]]
  IN SelectSeq(order, LAMBDA f : <<f.u, f.v>> \in S)

MustREG(cfg, j, c) == {<<Work(j, b), Term(j, b)>> : b \in {d \in Block : Cardinality(cfg[d]) > 1}}
                        \cup {<<Work(j, c), Phi(j)>>}

\* A value is used where its definition dominates; memory goes every way.
Further(j, D) ==
  {<<"REG", Work(j, f[1]), Work(j, f[2])>> : f \in {g \in Block \X Block : g[1] # g[2] /\ g[1] \in D[g[2]]}}
  \cup {<<"REG", Phi(j), Work(j, b)>> : b \in {d \in Block : j \in D[d]}}
  \cup {<<"MEM", Work(j, f[1]), Work(j, f[2])>> : f \in {g \in Block \X Block : g[1] # g[2]}}

ControlEdges(cfg, j) ==
  UNION {{Term(j, f[1])} \X ({f[2]} \X (1..MCSize(j)[f[2]])) : f \in ControlDependences(cfg)}

\* Threads that respect the dependences; only the last one may be without work.
Respecting(cfg, j, deps) ==
  {a \in [All(j) -> Thread] :
     /\ \A f \in deps : a[f[1]] <= a[f[2]]
     /\ 0..MAX_THREAD - 2 \subseteq Range(a)
     /\ FreeBranches \/ \A b \in Block : Cardinality(cfg[b]) = 1 => a[Term(j, b)] = a[Work(j, b)]}

\* The programs of a loop with the given dependences.
Assigned(cfg, phi, j, REG, MEM, control) ==
  UNION {{[cfg |-> cfg, size |-> MCSize(j), phi |-> phi, allEdges |-> edges, assigned |-> a,
           usedAfter |-> MCUsedAfter(cfg, j)]
           : a \in Respecting(cfg, j, REG \cup MEM \cup control)}
         : edges \in {EdgeSeq(j, "REG", REG) \o EdgeSeq(j, "MEM", MEM)
                        \o EdgeSeq(j, "CONTROL", control)}}

Chosen(X, dtype) == {<<x[2], x[3]>> : x \in {y \in X : y[1] = dtype}}

\* The sets of at most n members of S.
UpTo[n \in Nat, S \in SUBSET ({"REG", "MEM"} \X (Block \X Nat) \X (Block \X Nat))] ==
  IF n = 0 THEN {{}} ELSE {X \cup {x} : X \in UpTo[n - 1, S], x \in S} \cup {{}}

\* A loop, its dominators, and where its phi node is and gets its values.
Sites ==
  UNION {{<<l[1], l[2], f[1], f[2], f[3]>>
           : f \in {g \in Joins \X Block \X Carriers :
                      /\ Cardinality(Preds(l[1], g[1])) = 2
                      /\ g[2] \in Preds(l[1], g[1]) /\ g[3] \in l[2][g[2]]}}
         : l \in {<<cfg, Dominators(EdgesOf(cfg), header)>> : cfg \in Shapes}}

MCPrograms ==
  UNION {UNION {Assigned(l[1], MCPhi(l[1], l[3], l[4], l[5]), l[3],
                         MustREG(l[1], l[3], l[5]) \cup Chosen(X, "REG"), Chosen(X, "MEM"), control)
                : X \in UpTo[MaxExtra, Further(l[3], l[2])], control \in {ControlEdges(l[1], l[3])}}
         : l \in Sites}
=============================================================================
