-------------------------- MODULE ControlDependence --------------------------
(***************************************************************************)
(* All of DSWP::buildPDG: what DataDependence finds first, and then the    *)
(* control dependences (DSWP_1.cpp:232-497): which branches of the loop    *)
(* decide whether a block is executed.                                     *)
(*                                                                         *)
(* dfsVisit orders the blocks.  The loop is peeled: a dummy function gets  *)
(* two copies of every block, a top half for the iteration at hand and a   *)
(* bottom half for all later ones, and an edge that does not lead forward  *)
(* in the order of the blocks leads from the top half to the bottom half.  *)
(* Then for every edge of the dummy function a walk up its postdominator   *)
(* tree, from the edge's target, adds a dependence on the edge's branch to *)
(* the graph for every instruction of the blocks it passes.                *)
(***************************************************************************)
EXTENDS DataDependence

\* The last instruction of a block is its terminator.
ASSUME ControlAssumption == \A p \in Programs : \A b \in Block : p.insts[b] # <<>>

VARIABLES
  step,      \* "order", "walk" or "done"
  vis,       \* the blocks dfsVisit has met
  ord,       \* bb_ordered
  stack,     \* the calls of dfsVisit: block and successors yet to be looked at
  pdt,       \* the postdominator tree of the dummy function
  d,         \* the place of the dummy block at hand in dummylist
  todo,      \* its successors yet to be looked at
  succnode,  \* the node of the walk in the postdominator tree, or None
  dn,        \* the node where the walk ends
  bi         \* the instruction of the node's block to get an edge next

dfs == <<vis, ord, stack>>
walk == <<pdt, d, todo, succnode, dn, bi>>
control == <<step, dfs, walk>>

None == <<>>
cfg == prog.cfg

CInit ==
  /\ Init
  /\ step = "order"
  /\ vis = {} /\ ord = <<>> /\ stack = <<>>
  /\ pdt = None /\ d = 1 /\ todo = {} /\ succnode = None /\ dn = None /\ bi = 1
-----------------------------------------------------------------------------
(* dfsVisit *)

InLoop(b) == cfg[b] \ {exit}

\* The data dependences are found.
Ordering == phase = "done" /\ step = "order"

Visit(BB, calls) ==
  /\ vis' = vis \cup {BB}
  /\ stack' = Append(calls, [block |-> BB, todo |-> InLoop(BB)])

top == stack[Len(stack)]
Callers == SubSeq(stack, 1, Len(stack) - 1)

\* The loop of buildPDG; the header is the first block of the loop.
VisitRoot(BB) ==
  /\ Ordering /\ stack = <<>> /\ BB \notin vis
  /\ vis = {} => BB = header
  /\ Visit(BB, <<>>)
  /\ UNCHANGED <<vars, step, ord, walk>>

VisitSucc(SI) ==
  /\ Ordering /\ stack # <<>> /\ SI \in top.todo
  /\ LET calls == Append(Callers, [top EXCEPT !.todo = @ \ {SI}])
     IN IF SI \notin vis THEN Visit(SI, calls) ELSE stack' = calls /\ UNCHANGED vis
  /\ UNCHANGED <<vars, step, ord, walk>>

VisitReturn ==
  /\ Ordering /\ stack # <<>> /\ top.todo = {}
  /\ ord' = Append(ord, top.block)
  /\ stack' = Callers
  /\ UNCHANGED <<vars, step, vis, walk>>
-----------------------------------------------------------------------------
(* The dummy function *)

TopHalf(b) == <<b, 1>>
BottomHalf(b) == <<b, 2>>
dummyexitblock == <<exit, 2>>

dummytoreal(D) == D[1]

\* bb_ordered is read from its end.
instnum(b) == CHOOSE m \in 1..Len(ord) : ord[Len(ord) + 1 - m] = b

\* Mutant: the bottom halves are left out.
dummylist_TopOnly == [m \in 1..Len(ord) |-> <<ord[Len(ord) - m + 1], 1>>]

dummylist == [m \in 1..2 * Len(ord) |->
                <<ord[Len(ord) - (m - 1) \div 2], ((m - 1) % 2) + 1>>]

\* Mutant: an edge from a block to itself stays in the top half.
LeadsForward_OrStays(b, bsucc) == instnum(bsucc) >= instnum(b)

LeadsForward(b, bsucc) == instnum(bsucc) > instnum(b)

\* The successors of a dummy block.
dest(D) ==
  LET b == dummytoreal(D)
  IN {CASE bsucc = exit -> dummyexitblock
        [] bsucc # exit /\ D = TopHalf(b) /\ LeadsForward(b, bsucc) -> TopHalf(bsucc)
        [] OTHER -> BottomHalf(bsucc)
      : bsucc \in cfg[b]}

ctrlfunc == UNION {{<<D, s>> : s \in dest(D)} : D \in Block \X {1, 2}}

Peel ==
  /\ Ordering /\ stack = <<>> /\ vis = Block
  /\ step' = "walk"
  /\ pdt' = Postdominators(ctrlfunc, dummyexitblock)
  /\ todo' = dest(dummylist[1])
  /\ UNCHANGED <<vars, dfs, d, succnode, dn, bi>>
-----------------------------------------------------------------------------
(* The walk *)

realblock == dummytoreal(dummylist[d])

\* The next edge of the dummy block: where its walk begins and where it ends.
NextSucc(bsucc) ==
  /\ step = "walk" /\ succnode = None /\ bsucc \in todo
  /\ succnode' = bsucc
  /\ dn' = NearestCommon(pdt, dummylist[d], bsucc)
  /\ todo' = todo \ {bsucc}
  /\ UNCHANGED <<vars, step, dfs, pdt, d, bi>>

\* Mutant: the walk does not stop at the node where the two paths meet.
WalkGoesOn_ToRoot == succnode # dummyexitblock

WalkGoesOn == succnode # dn /\ succnode # dummyexitblock

realdepblock == dummytoreal(succnode)

getTerminator(b) == <<b, Len(prog.insts[b])>>

\* One instruction of the block the walk is at.
AddControl ==
  /\ step = "walk" /\ succnode # None /\ WalkGoesOn
  /\ bi <= Len(prog.insts[realdepblock])
  /\ addEdge(getTerminator(realblock), <<realdepblock, bi>>, "CONTROL")
  /\ bi' = bi + 1
  /\ UNCHANGED <<prog, phase, k, n, res, step, dfs, pdt, d, todo, succnode, dn>>

\* Mutant: the walk forgets to move on.
getIDom_Stuck == succnode

getIDom == Parent(pdt, succnode)

Climb ==
  /\ step = "walk" /\ succnode # None /\ WalkGoesOn
  /\ bi > Len(prog.insts[realdepblock])
  /\ succnode' = getIDom /\ bi' = 1
  /\ UNCHANGED <<vars, step, dfs, pdt, d, todo, dn>>

WalkEnds ==
  /\ step = "walk" /\ succnode # None /\ ~WalkGoesOn
  /\ succnode' = None /\ dn' = None
  /\ UNCHANGED <<vars, step, dfs, pdt, d, todo, bi>>

NextDummy ==
  /\ step = "walk" /\ succnode = None /\ todo = {}
  /\ IF d < Len(dummylist)
     THEN d' = d + 1 /\ todo' = dest(dummylist[d + 1]) /\ UNCHANGED step
     ELSE step' = "done" /\ UNCHANGED <<d, todo>>
  /\ UNCHANGED <<vars, dfs, pdt, succnode, dn, bi>>

Ended == (step = "done" \/ phase = "error") /\ UNCHANGED <<vars, control>>

CNext == \/ Data /\ UNCHANGED control
         \/ \E b \in Block : VisitRoot(b) \/ VisitSucc(b)
         \/ VisitReturn \/ Peel
         \/ \E s \in todo : NextSucc(s)
         \/ AddControl \/ Climb \/ WalkEnds \/ NextDummy \/ Ended

CSpec == CInit /\ [][CNext]_<<vars, control>>
FairCSpec == CSpec /\ WF_<<vars, control>>(CNext)   \* sequential code keeps running
-----------------------------------------------------------------------------
(* Properties *)

Half == (Block \X {1, 2}) \cup {dummyexitblock}

\* Type invariant of buildPDG's second half: the stack holds blocks still to be left,
\* and the walk up the tree stays in the peeled loop or has left it (None).
CTypeOK ==
  /\ TypeOK
  /\ step \in {"order", "walk", "done"}
  /\ vis \subseteq Block /\ ord \in Seq(Block)
  /\ stack \in Seq([block : Block, todo : SUBSET Block])
  /\ d \in 1..2 * NumBlock /\ todo \subseteq Half
  /\ succnode \in Half \cup {None} /\ dn \in Half \cup {None}
  /\ bi \in Nat \ {0}

\* What the order of the blocks is for: apart from edges back to a block that
\* dominates it, every successor of a block comes after it.
OrderIsTopological ==
  step = "done" /\ Reducible(cfg) =>
    \E D \in {Dominators(EdgesOf(cfg), header)} :
      \A b \in Block : \A s \in InLoop(b) : LeadsForward(b, s) <=> s \notin D[b]

\* The control edges of the graph if the blocks depend on the branches as DEP has it:
\* one from the branch to every instruction of the block.
ControlEdges(Dep) ==
  UNION {{Edge(getTerminator(e[1]), <<e[2], m>>, "CONTROL") : m \in DOMAIN prog.insts[e[2]]} : e \in Dep}
Controls == {e \in Range(allEdges) : e.dtype = "CONTROL"}

\* The walks add what the definition of control dependence says, on the peeled
\* loop: no dependence is missed and none is made up.
ControlExact ==
  step = "done" /\ Reducible(cfg) => Controls = ControlEdges(ControlDependences(cfg))

\* Every control dependence of the loop as it stands is found, for irreducible
\* loops too.  A branch that decides about its own next execution is one of them,
\* and is found only because the loop was peeled.  loopSplit relies on it: a worker
\* copies the blocks whose branches decide about its own (IsProgram of LoopSplit).
CoversLoop ==
  step = "done" =>
    \E P \in {Postdominators(EdgesOf(cfg), exit)} :
      ControlEdges({e \in Block \X Block : Decides(EdgesOf(cfg), P, e[1], e[2])}) \subseteq Controls

\* buildPDG finds its way through the dummy function, for every loop.
Terminates == <>(step = "done")
=============================================================================
