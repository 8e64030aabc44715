------------------------------ MODULE FindSCC ------------------------------
(***************************************************************************)
(* DSWP::findSCC, dfs_forward and dfs_reverse (DSWP_2.cpp): Kosaraju's     *)
(* algorithm on the program dependence graph.  A depth-first search along  *)
(* the edges lists the instructions as it leaves them; a second one,       *)
(* against the edges and from the last listed to the first, takes off one  *)
(* strongly connected component per root, and builds the DAG of components *)
(* from the edges it meets on the way.                                     *)
(*                                                                         *)
(* The call stack is a variable, and one step is one iteration of a loop   *)
(* or one return.  The edges of an instruction are visited in any order;   *)
(* parallel edges (of different DType) are one, a later one never does     *)
(* more than the first.                                                    *)
(***************************************************************************)
EXTENDS Integers, Sequences, FiniteSets

CONSTANTS NumInst,   \* number of instructions in the loop
          MayDepend  \* the dependences a pdg may have

\* Instructions, numbered in the order of the loop's blocks.
Inst == 0..NumInst - 1

ASSUME FindSCCAssumption ==
  /\ NumInst \in Nat \ {0}
  /\ MayDepend \subseteq Inst \X Inst

VARIABLES
  pdg,         \* the dependence graph; rev is the same graph read backwards
  phase,       \* "forward", "reverse" or "done"
  used,        \* the instructions met in this phase
  list,        \* the instructions in the order in which dfs_forward left them
  stack,       \* the calls of dfs_forward or dfs_reverse, innermost last
  sccNum, sccId, InstInSCC,
  dag          \* scc_dependents, scc_parents and dag_added

vars == <<pdg, phase, used, list, stack, sccNum, sccId, InstInSCC, dag>>
scc == <<sccNum, sccId, InstInSCC, dag>>

Succs(I) == {J \in Inst : <<I, J>> \in pdg}   \* pdg[I]
Preds(I) == {J \in Inst : <<J, I>> \in pdg}   \* rev[I]

\* A call: its argument and the edges the loop in it has yet to visit.
Frame == [inst : Inst, todo : SUBSET Inst]

top == stack[Len(stack)]
caller == SubSeq(stack, 1, Len(stack) - 1)

\* DSWP::clear has emptied everything; a map without an entry reads as 0.
Init ==
  /\ pdg \in SUBSET MayDepend
  /\ phase = "forward"
  /\ used = {} /\ list = <<>> /\ stack = <<>>
  /\ sccNum = 0 /\ sccId = [I \in Inst |-> 0] /\ InstInSCC = <<>> /\ dag = {}
-----------------------------------------------------------------------------
(* dfs_forward *)

Call(I, edges) ==
  /\ used' = used \cup {I}
  /\ stack' = Append(stack, [inst |-> I, todo |-> edges])

\* The loop of findSCC calls dfs_forward on the next instruction not met.
ForwardRoot(I) ==
  /\ phase = "forward" /\ stack = <<>>
  /\ I \notin used /\ \A J \in Inst : J < I => J \in used
  /\ Call(I, Succs(I))
  /\ UNCHANGED <<pdg, phase, list, scc>>

\* What is left to do after the innermost call has visited its edge to next.
Visited(next) ==
  SubSeq(stack, 1, Len(stack) - 1) \o <<[top EXCEPT !.todo = @ \ {next}]>>

\* An edge of the innermost call: a call on next if it was not met.
Descend(next, edges) ==
  /\ used' = used \cup {next}
  /\ stack' = Append(Visited(next), [inst |-> next, todo |-> edges])

ForwardEdge(next) ==
  /\ phase = "forward" /\ stack # <<>> /\ next \in top.todo
  /\ IF next \notin used
     THEN Descend(next, Succs(next))
     ELSE stack' = Visited(next) /\ UNCHANGED used
  /\ UNCHANGED <<pdg, phase, list, scc>>

\* Mutant: the instruction goes to the front of the list.
Listed_Front(I) == <<I>> \o list

Listed(I) == Append(list, I)

ForwardReturn ==
  /\ phase = "forward" /\ stack # <<>> /\ top.todo = {}
  /\ list' = Listed(top.inst)
  /\ stack' = caller
  /\ UNCHANGED <<pdg, phase, used, scc>>

ForwardEnd ==
  /\ phase = "forward" /\ stack = <<>> /\ used = Inst
  /\ phase' = "reverse"
  /\ used' = {}
  /\ sccNum' = 0 /\ InstInSCC' = <<>> /\ dag' = {}
  /\ UNCHANGED <<pdg, list, stack, sccId>>
-----------------------------------------------------------------------------
(* dfs_reverse *)

\* Mutant: the loop ends before it has looked at the first of the list.
Unmet_NotFirst == {i \in 2..Len(list) : list[i] \notin used}

\* Mutant: the list is read in the other direction.
IsRoot_First(i) == i \in {j \in DOMAIN list : list[j] \notin used}
                   /\ \A j \in DOMAIN list : list[j] \notin used => i <= j

\* The places in the list of the instructions not met in this phase.
Unmet == {i \in 1..Len(list) : list[i] \notin used}

\* The list is read from its end.
IsRoot(i) == i \in Unmet /\ \A j \in Unmet : j <= i

ReverseRoot(I) ==
  /\ phase = "reverse" /\ stack = <<>>
  /\ \E i \in DOMAIN list : IsRoot(i) /\ I = list[i]
  /\ InstInSCC' = Append(InstInSCC, {})
  /\ Call(I, Preds(I))
  /\ UNCHANGED <<pdg, phase, list, sccNum, sccId, dag>>

\* Mutant: a component may depend on itself.
OtherSCC_Any(u) == TRUE

\* "edge between two different SCCs": u is not the component being built.
OtherSCC(u) == u # sccNum

\* Mutant: the edge lookup forgets where an edge comes from.
IsNew_ByTarget(e) == \A f \in dag : f[2] # e[2]

IsNew(e) == e \notin dag

ReverseEdge(next) ==
  /\ phase = "reverse" /\ stack # <<>> /\ next \in top.todo
  /\ IF next \notin used
     THEN Descend(next, Preds(next)) /\ UNCHANGED dag
     ELSE /\ LET sccedge == <<sccId[next], sccNum>>
             IN dag' = IF OtherSCC(sccId[next]) /\ IsNew(sccedge)
                       THEN dag \cup {sccedge} ELSE dag
          /\ stack' = Visited(next)
          /\ UNCHANGED used
  /\ UNCHANGED <<pdg, phase, list, sccNum, sccId, InstInSCC>>

\* sccNum++ when the call that started the component returns.
NextNum == IF Len(stack) = 1 THEN sccNum + 1 ELSE sccNum

ReverseReturn ==
  /\ phase = "reverse" /\ stack # <<>> /\ top.todo = {}
  /\ sccId' = [sccId EXCEPT ![top.inst] = sccNum]
  /\ InstInSCC' = [InstInSCC EXCEPT ![sccNum + 1] = @ \cup {top.inst}]
  /\ sccNum' = NextNum
  /\ stack' = caller
  /\ UNCHANGED <<pdg, phase, used, list, dag>>

ReverseEnd ==
  /\ phase = "reverse" /\ stack = <<>> /\ Unmet = {}
  /\ phase' = "done"
  /\ UNCHANGED <<pdg, used, list, stack, scc>>

Done == phase = "done" /\ UNCHANGED vars

Next ==
  \/ \E I \in Inst : ForwardRoot(I) \/ ForwardEdge(I)
  \/ ForwardReturn \/ ForwardEnd
  \/ \E I \in Inst : ReverseRoot(I) \/ ReverseEdge(I)
  \/ ReverseReturn \/ ReverseEnd
  \/ Done

Spec == Init /\ [][Next]_vars
FairSpec == Spec /\ WF_vars(Next)   \* sequential code keeps running
-----------------------------------------------------------------------------
(* Properties *)

\* Type invariant of findSCC's state: used, list and InstInSCC name instructions of
\* the loop, and every frame on the call stack of the two searches is well formed.
TypeOK ==
  /\ pdg \subseteq MayDepend
  /\ phase \in {"forward", "reverse", "done"}
  /\ used \subseteq Inst
  /\ list \in Seq(Inst)
  /\ stack \in Seq(Frame)
  /\ sccNum \in Nat
  /\ sccId \in [Inst -> Nat]
  /\ InstInSCC \in Seq(SUBSET Inst)
  /\ Len(InstInSCC) = IF phase = "reverse" /\ stack # <<>> THEN sccNum + 1 ELSE sccNum
  /\ dag \subseteq Nat \X Nat

\* v depends on u, directly or not: every set that is closed under the edges
\* and contains u contains v.
Closed(S) == \A e \in pdg : e[1] \in S => e[2] \in S
Reaches(u, v) == \A S \in SUBSET Inst : Closed(S) /\ u \in S => v \in S

\* The order the second search relies on: if J depends on I and not the other
\* way round, some instruction of I's component was left after J.
FinishOrder ==
  phase # "forward" =>
    \A k \in DOMAIN list : \A I \in Inst :
      Reaches(I, list[k]) /\ ~Reaches(list[k], I) =>
        \E m \in k + 1..Len(list) : Reaches(I, list[m]) /\ Reaches(list[m], I)

\* Instructions that dfs_reverse has put in a component that is complete.
Placed == UNION {InstInSCC[k] : k \in 1..sccNum}

\* The components taken off so far are exactly the classes of instructions
\* that depend on each other; nothing is in two of them, or in part of one.
SccCorrect ==
  /\ \A I \in Placed, J \in Inst :
       Reaches(I, J) /\ Reaches(J, I) <=> J \in Placed /\ sccId[I] = sccId[J]
  /\ \A I \in Placed : I \in InstInSCC[sccId[I] + 1]

\* Edges of the DAG lead from lower numbers to higher ones, so it has no cycle
\* and threadPartition can place every component.
DagForward == \A e \in dag : e[1] < e[2] /\ e[2] <= sccNum

\* Every dependence between two components is an edge of the DAG, so that
\* threadPartition never places a component before one it depends on.  The DAG has
\* other edges, of no dependence: an instruction on the stack of dfs_reverse is met
\* again while its sccId still reads as 0.  They lead from component 0 only.
DagMatches ==
  phase = "done" =>
    LET Between == {<<sccId[e[1]], sccId[e[2]]>> : e \in {f \in pdg : sccId[f[1]] # sccId[f[2]]}}
    IN Between \subseteq dag /\ \A d \in dag \ Between : d[1] = 0

\* findSCC returns, with every instruction of the loop in a component:
\* threadPartition reads sccId of every instruction.
Terminates == <>(phase = "done" /\ Placed = Inst)
=============================================================================
