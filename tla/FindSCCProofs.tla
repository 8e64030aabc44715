---------------------------- MODULE FindSCCProofs ----------------------------
(* Proofs about module FindSCC: Kosaraju's algorithm, for any dependence      *)
(* graph on any number of instructions.                                       *)
EXTENDS FindSCC, FiniteSetTheorems, SequenceTheorems, WellFoundedInduction, TLAPS

\* The pairs <<I, J>> such that J depends on I, directly or not.
Depends == {p \in Inst \X Inst : Reaches(p[1], p[2])}

Left == {list[k] : k \in 1..Len(list)}               \* left by dfs_forward
Active == {stack[a].inst : a \in 1..Len(stack)}      \* in a call that goes on
Finished == used \ Active

\* The number of an instruction's component as it will be when its call returns.
comp == [x \in Inst |-> IF x \in Active THEN sccNum ELSE sccId[x]]
-----------------------------------------------------------------------------
(* Dependence *)

LEMMA DependsOnItself == \A x \in Inst : <<x, x>> \in Depends
BY DEF Depends, Reaches

LEMMA DependsOnSucc ==
  \A x, y \in Inst : <<x, y>> \in pdg => <<x, y>> \in Depends
BY DEF Depends, Reaches, Closed

LEMMA DependsTransitive ==
  \A x, y, z \in Inst : <<x, y>> \in Depends /\ <<y, z>> \in Depends => <<x, z>> \in Depends
BY DEF Depends, Reaches

\* Nothing outside a closed set depends on an element of it.
LEMMA ClosedSets ==
  ASSUME NEW S \in SUBSET Inst, Closed(S), NEW x \in S, NEW y, <<x, y>> \in Depends
  PROVE  y \in S
BY DEF Depends, Reaches

LEMMA DependsSame == pdg' = pdg => Depends' = Depends
BY DEF Depends, Reaches, Closed
-----------------------------------------------------------------------------
(* Sequences *)

\* A set of positions that is not empty has a last one.
LEMMA LastOf ==
  ASSUME NEW n \in Nat, NEW T \in SUBSET (1..n), T # {}
  PROVE  \E x \in T : \A y \in T : y <= x
<1> DEFINE Rest(x) == {y \in T : x <= y}
           Rests == {Rest(x) : x \in T}
<1>0. IsFiniteSet(1..n)
  BY FS_Interval
<1>1. IsFiniteSet(T)
  BY <1>0, FS_Subset
<1>2. Rests \subseteq FiniteSubsetsOf(T)
  BY <1>1, FS_Subset DEF FiniteSubsetsOf
<1>3. PICK A \in Rests : \A B \in Rests : ~(<<B, A>> \in StrictSubsetOrdering(T))
  <2>1. IsWellFoundedOn(StrictSubsetOrdering(T), FiniteSubsetsOf(T))
    BY FS_StrictSubsetOrderingWellFounded
  <2>2. Rests # {}
    OBVIOUS
  <2> HIDE DEF Rests
  <2> QED
    BY <1>2, <2>1, <2>2, WFMin
<1>4. PICK x \in T : A = Rest(x)
  OBVIOUS
<1>5. ASSUME NEW y \in T, ~(y <= x)
      PROVE  FALSE
  <2>1. x \in Int /\ y \in Int /\ x < y /\ \A z \in T : z \in Int
    BY <1>5
  <2>2. Rest(y) \subseteq Rest(x)
    <3> SUFFICES ASSUME NEW z \in T, y <= z
                 PROVE  x <= z
      OBVIOUS
    <3> QED
      BY <2>1
  <2>3. x \in Rest(x) /\ x \notin Rest(y)
    BY <2>1
  <2>4. <<Rest(y), A>> \in StrictSubsetOrdering(T)
    BY <1>4, <2>2, <2>3 DEF StrictSubsetOrdering
  <2> QED
    BY <1>3, <2>4
<1> QED
  BY <1>5

\* The stack after the innermost call has returned.
LEMMA CallerStack ==
  ASSUME stack \in Seq(Frame), stack # <<>>
  PROVE  /\ caller \in Seq(Frame) /\ Len(stack) \in Nat \ {0} /\ Len(caller) = Len(stack) - 1
         /\ \A a \in 1..Len(stack) - 1 : caller[a] = stack[a]
         /\ top \in Frame
<1>1. Len(stack) \in Nat \ {0}
  BY EmptySeq
<1>2. \A a \in 1..Len(stack) : stack[a] \in Frame
  BY ElementOfSeq
<1>3. \A a \in 1..Len(stack) - 1 : stack[a] \in Frame
  BY <1>1, <1>2
<1>4. /\ caller \in Seq(Frame)
      /\ Len(caller) = IF 1 <= Len(stack) - 1 THEN Len(stack) - 1 - 1 + 1 ELSE 0
      /\ \A a \in 1..Len(stack) - 1 - 1 + 1 : caller[a] = stack[1 + a - 1]
  BY <1>1, <1>3, SubSeqProperties DEF caller
<1>5. Len(caller) = Len(stack) - 1
  <2>1. Len(caller) = IF 1 <= Len(stack) - 1 THEN Len(stack) - 1 - 1 + 1 ELSE 0
    BY <1>4
  <2> QED
    BY <1>1, <2>1
<1>6. ASSUME NEW a \in 1..Len(stack) - 1
      PROVE  caller[a] = stack[a]
  <2>1. a \in 1..Len(stack) - 1 - 1 + 1 /\ 1 + a - 1 = a
    BY <1>1
  <2> QED
    BY <1>4, <2>1
<1>7. top \in Frame
  BY <1>1, <1>2 DEF top
<1> QED
  BY <1>1, <1>4, <1>5, <1>6, <1>7

\* The stack after the innermost call has visited its edge to next.
LEMMA VisitedStack ==
  ASSUME stack \in Seq(Frame), stack # <<>>, NEW next
  PROVE  /\ Visited(next) \in Seq(Frame) /\ Len(Visited(next)) = Len(stack)
         /\ \A a \in 1..Len(stack) :
              /\ Visited(next)[a].inst = stack[a].inst
              /\ Visited(next)[a].todo = IF a = Len(stack) THEN stack[a].todo \ {next}
                                                           ELSE stack[a].todo
<1> DEFINE f == [top EXCEPT !.todo = @ \ {next}]
<1>1. top \in Frame /\ caller \in Seq(Frame) /\ Len(caller) = Len(stack) - 1
      /\ Len(stack) \in Nat \ {0} /\ \A a \in 1..Len(stack) - 1 : caller[a] = stack[a]
  BY CallerStack
<1>2. f \in Frame /\ f.inst = top.inst /\ f.todo = top.todo \ {next}
  BY <1>1 DEF Frame
<1>3. <<f>> \in Seq(Frame) /\ Len(<<f>>) = 1 /\ <<f>>[1] = f
  BY <1>2
<1>4. Visited(next) = caller \o <<f>>
  BY DEF Visited, caller
<1> HIDE DEF f
<1>5. /\ caller \o <<f>> \in Seq(Frame)
      /\ Len(caller \o <<f>>) = Len(caller) + Len(<<f>>)
      /\ \A a \in 1..Len(caller) + Len(<<f>>) :
           (caller \o <<f>>)[a] = IF a <= Len(caller) THEN caller[a] ELSE <<f>>[a - Len(caller)]
  BY <1>1, <1>3, ConcatProperties
<1>6. ASSUME NEW a \in 1..Len(stack)
      PROVE  Visited(next)[a] = IF a = Len(stack) THEN f ELSE stack[a]
  BY <1>1, <1>3, <1>4, <1>5
<1>7. Visited(next) \in Seq(Frame) /\ Len(Visited(next)) = Len(stack)
  BY <1>1, <1>3, <1>4, <1>5
<1>8. ASSUME NEW a \in 1..Len(stack)
      PROVE  /\ Visited(next)[a].inst = stack[a].inst
             /\ Visited(next)[a].todo = IF a = Len(stack) THEN stack[a].todo \ {next}
                                                          ELSE stack[a].todo
  BY <1>2, <1>6 DEF top
<1> QED
  BY <1>7, <1>8
-----------------------------------------------------------------------------
(* What the four kinds of step do to the stack *)

\* The frames of the calls after the innermost one has visited its edge to next.
Visits(next) ==
  \A a \in 1..Len(stack) :
    /\ stack'[a].inst = stack[a].inst
    /\ stack'[a].todo = IF a = Len(stack) THEN stack[a].todo \ {next} ELSE stack[a].todo

LEMMA CallStep ==
  ASSUME stack = <<>>, NEW I \in Inst, NEW edges \in SUBSET Inst, Call(I, edges)
  PROVE  /\ stack' \in Seq(Frame) /\ Len(stack') = 1
         /\ stack'[1].inst = I /\ stack'[1].todo = edges
         /\ Active' = {I} /\ used' = used \cup {I}
<1> DEFINE f == [inst |-> I, todo |-> edges]
<1>1. f \in Frame /\ f.inst = I /\ f.todo = edges
  BY DEF Frame
<1> HIDE DEF f
<1>2. stack \in Seq(Frame) /\ Len(stack) = 0
  OBVIOUS
<1>3. stack' = Append(stack, f) /\ used' = used \cup {I}
  BY DEF Call, f
<1>4. stack' \in Seq(Frame) /\ Len(stack') = 1 /\ stack'[1] = f
  BY <1>1, <1>2, <1>3, AppendProperties
<1>5. Active' = {I}
  BY <1>1, <1>4 DEF Active
<1> QED
  BY <1>1, <1>3, <1>4, <1>5

LEMMA DescendStep ==
  ASSUME stack \in Seq(Frame), stack # <<>>, NEW next \in Inst, NEW edges \in SUBSET Inst,
         Descend(next, edges)
  PROVE  /\ stack' \in Seq(Frame) /\ Len(stack') = Len(stack) + 1
         /\ Visits(next)
         /\ stack'[Len(stack) + 1].inst = next /\ stack'[Len(stack) + 1].todo = edges
         /\ Active' = Active \cup {next} /\ used' = used \cup {next}
<1> DEFINE f == [inst |-> next, todo |-> edges]
<1>1. f \in Frame /\ f.inst = next /\ f.todo = edges
  BY DEF Frame
<1>2. stack' = Append(Visited(next), f) /\ used' = used \cup {next}
  BY DEF Descend
<1> HIDE DEF f
<1>3. /\ Visited(next) \in Seq(Frame) /\ Len(Visited(next)) = Len(stack)
      /\ \A a \in 1..Len(stack) :
           /\ Visited(next)[a].inst = stack[a].inst
           /\ Visited(next)[a].todo = IF a = Len(stack) THEN stack[a].todo \ {next}
                                                        ELSE stack[a].todo
  BY VisitedStack
<1>4. Len(stack) \in Nat
  BY LenProperties
<1>5. /\ stack' \in Seq(Frame) /\ Len(stack') = Len(stack) + 1
      /\ \A a \in 1..Len(stack) : stack'[a] = Visited(next)[a]
      /\ stack'[Len(stack) + 1] = f
  BY <1>1, <1>2, <1>3, AppendProperties
<1>6. Visits(next)
  BY <1>3, <1>5 DEF Visits
<1>7. Active' = Active \cup {next}
  <2>1. \A a \in 1..Len(stack) : stack'[a].inst = stack[a].inst
    BY <1>6 DEF Visits
  <2>2. 1..Len(stack') = 1..Len(stack) \cup {Len(stack) + 1}
    BY <1>4, <1>5
  <2> QED
    BY <1>1, <1>5, <2>1, <2>2 DEF Active
<1> QED
  BY <1>1, <1>2, <1>5, <1>6, <1>7

LEMMA VisitStep ==
  ASSUME stack \in Seq(Frame), stack # <<>>, NEW next, stack' = Visited(next)
  PROVE  /\ stack' \in Seq(Frame) /\ Len(stack') = Len(stack) /\ stack' # <<>>
         /\ Visits(next)
         /\ Active' = Active
<1>1. /\ stack' \in Seq(Frame) /\ Len(stack') = Len(stack)
      /\ Visits(next)
  BY VisitedStack DEF Visits
<1>2. Active' = Active
  BY <1>1 DEF Active, Visits
<1>3. stack' # <<>>
  BY <1>1, CallerStack
<1> QED
  BY <1>1, <1>2, <1>3

\* No instruction is in two calls.
OneCall == \A a, b \in 1..Len(stack) : stack[a].inst = stack[b].inst => a = b

LEMMA ReturnStep ==
  ASSUME stack \in Seq(Frame), stack # <<>>, OneCall, stack' = caller
  PROVE  /\ stack' \in Seq(Frame) /\ Len(stack) \in Nat \ {0} /\ Len(stack') = Len(stack) - 1
         /\ stack' = <<>> <=> Len(stack) = 1
         /\ \A a \in 1..Len(stack') : a \in 1..Len(stack) /\ stack'[a] = stack[a]
         /\ top = stack[Len(stack)] /\ top.inst \in Active /\ top.inst \in Inst
         /\ Active' = Active \ {top.inst}
<1>1. /\ stack' \in Seq(Frame) /\ Len(stack) \in Nat \ {0} /\ Len(stack') = Len(stack) - 1
      /\ \A a \in 1..Len(stack) - 1 : stack'[a] = stack[a]
      /\ top \in Frame
  BY CallerStack
<1>2. stack' = <<>> <=> Len(stack) = 1
  BY <1>1, EmptySeq
<1>3. \A a \in 1..Len(stack') : a \in 1..Len(stack) /\ stack'[a] = stack[a]
  BY <1>1
<1>4. top = stack[Len(stack)] /\ top.inst \in Active /\ top.inst \in Inst
  BY <1>1 DEF top, Active, Frame
<1>5. Active' = Active \ {top.inst}
  <2>1. ASSUME NEW x \in Active'
        PROVE  x \in Active \ {top.inst}
    <3>1. PICK a \in 1..Len(stack') : x = stack'[a].inst
      BY DEF Active
    <3>2. a \in 1..Len(stack) /\ x = stack[a].inst /\ a # Len(stack)
      BY <1>1, <1>3, <3>1
    <3>3. Len(stack) \in 1..Len(stack)
      BY <1>1
    <3> QED
      BY <1>4, <3>2, <3>3 DEF OneCall, Active
  <2>2. ASSUME NEW x \in Active, x # top.inst
        PROVE  x \in Active'
    <3>1. PICK a \in 1..Len(stack) : x = stack[a].inst
      BY DEF Active
    <3>2. a # Len(stack)
      BY <1>4, <2>2, <3>1
    <3>3. a \in 1..Len(stack') /\ a \in 1..Len(stack) - 1
      BY <1>1, <3>2
    <3> QED
      BY <1>3, <3>1, <3>3 DEF Active
  <2> QED
    BY <2>1, <2>2
<1> QED
  BY <1>1, <1>2, <1>3, <1>4, <1>5
-----------------------------------------------------------------------------
(* The stack *)

\* The instructions on the stack have been met, and the edges to be visited are theirs.
StackInv ==
  /\ OneCall /\ Active \subseteq used
  /\ phase = "forward" => \A a \in 1..Len(stack) : stack[a].todo \subseteq Succs(stack[a].inst)
  /\ phase = "reverse" => \A a \in 1..Len(stack) : stack[a].todo \subseteq Preds(stack[a].inst)
  /\ phase = "done" => stack = <<>> /\ Unmet = {}

LEMMA TopEdge ==
  ASSUME TypeOK, StackInv, stack # <<>>, NEW next \in top.todo
  PROVE  /\ next \in Inst /\ top.inst \in Active /\ top.inst \in Inst
         /\ Len(stack) \in 1..Len(stack) /\ top = stack[Len(stack)]
         /\ phase = "forward" => <<top.inst, next>> \in pdg
         /\ phase = "reverse" => <<next, top.inst>> \in pdg
<1>1. Len(stack) \in Nat \ {0} /\ top \in Frame
  BY CallerStack DEF TypeOK
<1>2. Len(stack) \in 1..Len(stack) /\ top = stack[Len(stack)]
  BY <1>1 DEF top
<1>3. next \in Inst /\ top.inst \in Active /\ top.inst \in Inst
  BY <1>1, <1>2 DEF Active, Frame
<1> QED
  BY <1>2, <1>3 DEF StackInv, Succs, Preds

LEMMA EdgesInst == \A I : Succs(I) \in SUBSET Inst /\ Preds(I) \in SUBSET Inst
BY DEF Succs, Preds

LEMMA SameEdges == pdg' = pdg => \A I : Succs(I)' = Succs(I) /\ Preds(I)' = Preds(I)
BY DEF Succs, Preds

\* A step of either search that opens a call, visits an edge, or returns.
Searching ==
  \/ /\ stack = <<>>
     /\ \E I \in Inst : /\ I \notin used
                        /\ Call(I, IF phase = "forward" THEN Succs(I) ELSE Preds(I))
  \/ /\ stack # <<>>
     /\ \E next \in top.todo :
          \/ /\ next \notin used
             /\ Descend(next, IF phase = "forward" THEN Succs(next) ELSE Preds(next))
          \/ next \in used /\ stack' = Visited(next) /\ UNCHANGED used
  \/ stack # <<>> /\ stack' = caller /\ UNCHANGED used

LEMMA StepKinds ==
  ASSUME TypeOK, [Next]_vars
  PROVE  /\ UNCHANGED pdg
         /\ \/ phase \in {"forward", "reverse"} /\ UNCHANGED phase /\ Searching
            \/ phase = "forward" /\ phase' = "reverse" /\ stack = <<>> /\ UNCHANGED stack /\ used' = {}
            \/ phase = "reverse" /\ phase' = "done" /\ stack = <<>> /\ Unmet = {}
               /\ UNCHANGED <<stack, used, list>>
            \/ UNCHANGED vars
<1>1. ASSUME NEW I \in Inst, ForwardRoot(I)
      PROVE  UNCHANGED <<pdg, phase>> /\ phase = "forward" /\ Searching
  BY <1>1 DEF ForwardRoot, Searching
<1>2. ASSUME NEW I \in Inst, ForwardEdge(I)
      PROVE  UNCHANGED <<pdg, phase>> /\ phase = "forward" /\ Searching
  BY <1>2 DEF ForwardEdge, Searching
<1>3. CASE ForwardReturn
  BY <1>3 DEF ForwardReturn, Searching
<1>4. CASE ForwardEnd
  BY <1>4 DEF ForwardEnd
<1>5. ASSUME NEW I \in Inst, ReverseRoot(I)
      PROVE  UNCHANGED <<pdg, phase>> /\ phase = "reverse" /\ Searching
  BY <1>5 DEF ReverseRoot, Searching, IsRoot, Unmet
<1>6. ASSUME NEW I \in Inst, ReverseEdge(I)
      PROVE  UNCHANGED <<pdg, phase>> /\ phase = "reverse" /\ Searching
  BY <1>6 DEF ReverseEdge, Searching
<1>7. CASE ReverseReturn
  BY <1>7 DEF ReverseReturn, Searching
<1>8. CASE ReverseEnd
  BY <1>8 DEF ReverseEnd
<1>9. CASE UNCHANGED vars
  BY <1>9 DEF vars
<1> QED
  BY <1>1, <1>2, <1>3, <1>4, <1>5, <1>6, <1>7, <1>8, <1>9 DEF Next, Done

\* The stack and what is on it, whichever search is on.
LEMMA SearchKeepsStack ==
  ASSUME TypeOK, StackInv, Searching, UNCHANGED <<pdg, phase>>, phase \in {"forward", "reverse"}
  PROVE  stack' \in Seq(Frame) /\ used' \subseteq Inst /\ StackInv'
<1> DEFINE Edges(I) == IF phase = "forward" THEN Succs(I) ELSE Preds(I)
<1>0. /\ \A I : Edges(I) \in SUBSET Inst
      /\ stack \in Seq(Frame) /\ Len(stack) \in Nat /\ used \subseteq Inst
      /\ \A I : Succs(I)' = Succs(I) /\ Preds(I)' = Preds(I)
  BY EdgesInst, SameEdges, LenProperties DEF TypeOK
<1>1. \A a \in 1..Len(stack) : stack[a].todo \subseteq Edges(stack[a].inst)
  BY DEF StackInv
<1>2. SUFFICES /\ stack' \in Seq(Frame) /\ used' \subseteq Inst
               /\ OneCall' /\ Active' \subseteq used'
               /\ \A a \in 1..Len(stack') : stack'[a].todo \subseteq Edges(stack'[a].inst)
  <2>1. phase' # "done"
    OBVIOUS
  <2> QED
    BY <1>0, <2>1 DEF StackInv
<1> HIDE DEF Edges
<1>3. CASE stack = <<>> /\ \E I \in Inst : I \notin used /\ Call(I, Edges(I))
  <2>1. PICK I \in Inst : Call(I, Edges(I))
    BY <1>3
  <2>2. /\ stack' \in Seq(Frame) /\ Len(stack') = 1
        /\ stack'[1].inst = I /\ stack'[1].todo = Edges(I)
        /\ Active' = {I} /\ used' = used \cup {I}
    BY <1>0, <1>3, <2>1, CallStep
  <2>3. \A a \in 1..Len(stack') : a = 1
    BY <2>2
  <2> QED
    BY <1>0, <2>2, <2>3 DEF OneCall
<1>4. ASSUME stack # <<>>, NEW next \in top.todo, next \notin used, Descend(next, Edges(next))
      PROVE  /\ stack' \in Seq(Frame) /\ used' \subseteq Inst
             /\ OneCall' /\ Active' \subseteq used'
             /\ \A a \in 1..Len(stack') : stack'[a].todo \subseteq Edges(stack'[a].inst)
  <2>1. next \in Inst
    BY <1>4, TopEdge
  <2>2. /\ stack' \in Seq(Frame) /\ Len(stack') = Len(stack) + 1
        /\ Visits(next)
        /\ stack'[Len(stack) + 1].inst = next /\ stack'[Len(stack) + 1].todo = Edges(next)
        /\ Active' = Active \cup {next} /\ used' = used \cup {next}
    BY <1>0, <1>4, <2>1, DescendStep
  <2>3. \A a \in 1..Len(stack') : a \in 1..Len(stack) \/ a = Len(stack) + 1
    BY <1>0, <2>2
  <2>4. OneCall'
    <3>1. \A a \in 1..Len(stack) : stack'[a].inst = stack[a].inst /\ stack[a].inst # next
      BY <1>4, <2>2 DEF Visits, StackInv, Active
    <3> QED
      BY <2>2, <2>3, <3>1 DEF OneCall, StackInv
  <2>5. ASSUME NEW a \in 1..Len(stack')
        PROVE  stack'[a].todo \subseteq Edges(stack'[a].inst)
    BY <1>1, <2>2, <2>3 DEF Visits
  <2> QED
    BY <1>0, <2>1, <2>2, <2>4, <2>5 DEF StackInv
<1>5. ASSUME stack # <<>>, NEW next \in top.todo, stack' = Visited(next), UNCHANGED used
      PROVE  /\ stack' \in Seq(Frame) /\ used' \subseteq Inst
             /\ OneCall' /\ Active' \subseteq used'
             /\ \A a \in 1..Len(stack') : stack'[a].todo \subseteq Edges(stack'[a].inst)
  <2>1. /\ stack' \in Seq(Frame) /\ Len(stack') = Len(stack)
        /\ Visits(next) /\ Active' = Active
    BY <1>0, <1>5, VisitStep
  <2>2. OneCall'
    BY <2>1 DEF OneCall, Visits, StackInv
  <2>3. \A a \in 1..Len(stack') : stack'[a].todo \subseteq Edges(stack'[a].inst)
    BY <1>1, <2>1 DEF Visits
  <2> QED
    BY <1>0, <1>5, <2>1, <2>2, <2>3 DEF StackInv
<1>6. CASE stack # <<>> /\ stack' = caller /\ UNCHANGED used
  <2>1. /\ stack' \in Seq(Frame) /\ Len(stack') = Len(stack) - 1
        /\ \A a \in 1..Len(stack') : a \in 1..Len(stack) /\ stack'[a] = stack[a]
        /\ Active' = Active \ {top.inst}
    BY <1>0, <1>6, ReturnStep DEF StackInv
  <2>2. OneCall'
    BY <2>1 DEF OneCall, StackInv
  <2>3. Active' \subseteq used' /\ used' \subseteq Inst
    BY <1>0, <1>6, <2>1 DEF StackInv
  <2>4. \A a \in 1..Len(stack') : stack'[a].todo \subseteq Edges(stack'[a].inst)
    BY <1>1, <2>1
  <2> QED
    BY <2>1, <2>2, <2>3, <2>4
<1> QED
  BY <1>3, <1>4, <1>5, <1>6 DEF Searching, Edges

LEMMA NextStackInv == TypeOK /\ StackInv /\ [Next]_vars => StackInv'
<1> SUFFICES ASSUME TypeOK, StackInv, [Next]_vars
             PROVE  StackInv'
  OBVIOUS
<1>1. UNCHANGED pdg
  BY StepKinds
<1>2. CASE phase \in {"forward", "reverse"} /\ UNCHANGED phase /\ Searching
  BY <1>1, <1>2, SearchKeepsStack
<1>3. CASE phase = "forward" /\ phase' = "reverse" /\ stack = <<>> /\ UNCHANGED stack /\ used' = {}
  BY <1>3 DEF StackInv, OneCall, Active
<1>4. CASE phase = "reverse" /\ phase' = "done" /\ stack = <<>> /\ Unmet = {}
           /\ UNCHANGED <<stack, used, list>>
  BY <1>4 DEF StackInv, OneCall, Active, Unmet
<1>5. CASE UNCHANGED vars
  BY <1>5, SameEdges DEF vars, StackInv, OneCall, Active, Unmet
<1> QED
  BY <1>2, <1>3, <1>4, <1>5, StepKinds
-----------------------------------------------------------------------------
(* Types *)

LEMMA InitTypeOK == Init => TypeOK
<1> SUFFICES ASSUME Init
             PROVE  TypeOK
  OBVIOUS
<1>1. list \in Seq(Inst) /\ stack \in Seq(Frame) /\ InstInSCC \in Seq(SUBSET Inst) /\ Len(InstInSCC) = 0
  BY DEF Init
<1> QED
  BY <1>1 DEF Init, TypeOK

\* The variables findSCC shares with the passes after it.
ResultType ==
  /\ sccNum \in Nat
  /\ sccId \in [Inst -> Nat]
  /\ InstInSCC \in Seq(SUBSET Inst)
  /\ Len(InstInSCC) = IF phase = "reverse" /\ stack # <<>> THEN sccNum + 1 ELSE sccNum
  /\ dag \subseteq Nat \X Nat

LEMMA NextResultType == TypeOK /\ StackInv /\ [Next]_vars => ResultType'
<1> SUFFICES ASSUME TypeOK, StackInv, [Next]_vars
             PROVE  ResultType'
  OBVIOUS
<1> USE DEF ResultType
<1>0. ResultType /\ stack \in Seq(Frame)
  BY DEF TypeOK
<1>1. ASSUME phase = "forward", UNCHANGED <<phase, scc>>
      PROVE  ResultType'
  BY <1>0, <1>1 DEF scc
<1>2. CASE ForwardEnd
  <2>1. InstInSCC' \in Seq(SUBSET Inst) /\ Len(InstInSCC') = 0
    BY <1>2 DEF ForwardEnd
  <2> QED
    BY <1>0, <1>2, <2>1 DEF ForwardEnd
<1>3. ASSUME NEW I \in Inst, ReverseRoot(I)
      PROVE  ResultType'
  <2>1. /\ InstInSCC' \in Seq(SUBSET Inst)
        /\ Len(InstInSCC') = Len(InstInSCC) + 1
    <3>1. InstInSCC' = Append(InstInSCC, {})
      BY <1>3 DEF ReverseRoot
    <3> QED
      BY <1>0, <3>1, AppendProperties
  <2>2. stack = <<>> /\ stack' # <<>> /\ phase' = "reverse"
    <3>1. stack = <<>> /\ stack' = Append(stack, [inst |-> I, todo |-> Preds(I)]) /\ phase' = "reverse"
      BY <1>3 DEF ReverseRoot, Call
    <3> QED
      BY <3>1
  <2> QED
    BY <1>0, <1>3, <2>1, <2>2 DEF ReverseRoot
<1>4. ASSUME NEW next \in Inst, ReverseEdge(next)
      PROVE  ResultType'
  <2>1. stack # <<>> /\ stack' # <<>> /\ phase = "reverse" /\ phase' = "reverse"
    <3>1. stack # <<>> /\ phase = "reverse" /\ phase' = "reverse"
          /\ (Descend(next, Preds(next)) \/ stack' = Visited(next))
      BY <1>4 DEF ReverseEdge
    <3>2. CASE Descend(next, Preds(next))
      <4>1. stack' \in Seq(Frame) /\ Len(stack') = Len(stack) + 1 /\ Len(stack) \in Nat
        BY <1>0, <3>1, <3>2, EdgesInst, DescendStep, LenProperties
      <4> QED
        BY <3>1, <4>1
    <3>3. CASE stack' = Visited(next)
      BY <1>0, <3>1, <3>3, VisitStep
    <3> QED
      BY <3>1, <3>2, <3>3
  <2>2. UNCHANGED <<sccNum, sccId, InstInSCC>>
    BY <1>4 DEF ReverseEdge
  <2>3. dag' \subseteq Nat \X Nat
    <3>1. dag' = dag \/ dag' = dag \cup {<<sccId[next], sccNum>>}
      BY <1>4 DEF ReverseEdge
    <3> QED
      BY <1>0, <3>1
  <2> QED
    BY <1>0, <2>1, <2>2, <2>3
<1>5. CASE ReverseReturn
  <2>1. /\ stack # <<>> /\ phase = "reverse" /\ phase' = "reverse" /\ UNCHANGED dag
        /\ sccId' = [sccId EXCEPT ![top.inst] = sccNum]
        /\ InstInSCC' = [InstInSCC EXCEPT ![sccNum + 1] = @ \cup {top.inst}]
        /\ sccNum' = (IF Len(stack) = 1 THEN sccNum + 1 ELSE sccNum)
    BY <1>5 DEF ReverseReturn, NextNum
  <2>2. top.inst \in Inst /\ (stack' = <<>> <=> Len(stack) = 1)
    BY <1>0, <1>5, ReturnStep DEF StackInv, ReverseReturn
  <2>3. InstInSCC' \in Seq(SUBSET Inst) /\ Len(InstInSCC') = Len(InstInSCC)
    <3>1. sccNum + 1 \in 1..Len(InstInSCC)
      BY <1>0, <2>1
    <3>2. InstInSCC[sccNum + 1] \cup {top.inst} \in SUBSET Inst
      BY <1>0, <2>2, <3>1, ElementOfSeq
    <3> QED
      BY <1>0, <2>1, <3>1, <3>2, ExceptSeq
  <2> QED
    BY <1>0, <2>1, <2>2, <2>3
<1>6. CASE ReverseEnd
  BY <1>0, <1>6 DEF ReverseEnd, scc
<1>7. CASE UNCHANGED vars
  BY <1>0, <1>7 DEF vars
<1> QED
  <2>1. ASSUME NEW I \in Inst, ForwardRoot(I) \/ ForwardEdge(I)
        PROVE  phase = "forward" /\ UNCHANGED <<phase, scc>>
    BY <2>1 DEF ForwardRoot, ForwardEdge
  <2>2. ForwardReturn => phase = "forward" /\ UNCHANGED <<phase, scc>>
    BY DEF ForwardReturn
  <2> QED
    BY <1>1, <1>2, <1>3, <1>4, <1>5, <1>6, <1>7, <2>1, <2>2 DEF Next, Done

\* Only dfs_forward changes the list, when it returns.
LEMMA ListStep ==
  ASSUME [Next]_vars
  PROVE  \/ UNCHANGED list
         \/ ForwardReturn /\ list' = Append(list, top.inst)
BY DEF Next, vars, ForwardRoot, ForwardEdge, ForwardReturn, ForwardEnd, ReverseRoot, ReverseEdge,
       ReverseReturn, ReverseEnd, Done, Listed

LEMMA NextTypeOK == TypeOK /\ StackInv /\ [Next]_vars => TypeOK'
<1> SUFFICES ASSUME TypeOK, StackInv, [Next]_vars
             PROVE  TypeOK'
  OBVIOUS
<1>1. ResultType' /\ UNCHANGED pdg
  BY NextResultType, StepKinds
<1>2. list' \in Seq(Inst)
  <2>1. CASE UNCHANGED list
    BY <2>1 DEF TypeOK
  <2>2. CASE ForwardReturn /\ list' = Append(list, top.inst)
    <3>1. top.inst \in Inst
      BY <2>2, ReturnStep DEF ForwardReturn, TypeOK, StackInv
    <3> QED
      BY <2>2, <3>1, AppendProperties DEF TypeOK
  <2> QED
    BY <2>1, <2>2, ListStep
<1>3. phase' \in {"forward", "reverse", "done"} /\ stack' \in Seq(Frame) /\ used' \subseteq Inst
  <2>1. CASE phase \in {"forward", "reverse"} /\ UNCHANGED phase /\ Searching
    BY <1>1, <2>1, SearchKeepsStack
  <2>2. CASE ~(phase \in {"forward", "reverse"} /\ UNCHANGED phase /\ Searching)
    <3>1. /\ UNCHANGED stack
          /\ (phase' = "reverse" /\ used' = {}) \/ (phase' = "done" /\ UNCHANGED used) \/ UNCHANGED vars
      BY <2>2, StepKinds DEF vars
    <3> QED
      BY <3>1 DEF TypeOK, vars
  <2> QED
    BY <2>1, <2>2
<1> QED
  BY <1>1, <1>2, <1>3 DEF TypeOK, ResultType
-----------------------------------------------------------------------------
(* dfs_forward *)

\* What was met was left or is on the stack, where each depends on those below it, and
\* the edges visited led to what was met.  The variables of dfs_reverse are untouched.
ForwardInv ==
  phase = "forward" =>
    /\ used = Left \cup Active /\ Left \cap Active = {}
    /\ \A x \in Left : Succs(x) \subseteq used
    /\ \A a \in 1..Len(stack) : Succs(stack[a].inst) \ stack[a].todo \subseteq used
    /\ \A a, b \in 1..Len(stack) : a <= b => <<stack[a].inst, stack[b].inst>> \in Depends
    /\ sccNum = 0 /\ sccId = [I \in Inst |-> 0] /\ InstInSCC = <<>> /\ dag = {}

\* Each instruction is left once.  What depends on an instruction left so far was left
\* itself, or else is on the stack, so that the last one left depends on it.
ListInv ==
  /\ \A i, j \in 1..Len(list) : list[i] = list[j] => i = j
  /\ \A k \in 1..Len(list) : \A j \in 1..k : \A y \in Succs(list[j]) :
       (\E i \in 1..k : list[i] = y) \/ <<y, list[k]>> \in Depends
  /\ phase # "forward" => Left = Inst

LEMMA ForwardCall ==
  ASSUME TypeOK, StackInv, ForwardInv, NEW I \in Inst, ForwardRoot(I)
  PROVE  ForwardInv'
<1>1. /\ phase = "forward" /\ stack = <<>> /\ Call(I, Succs(I))
      /\ UNCHANGED <<pdg, list, sccNum, sccId, InstInSCC, dag>>
  BY DEF ForwardRoot, scc
<1>2. /\ Len(stack') = 1 /\ stack'[1].inst = I /\ stack'[1].todo = Succs(I)
      /\ Active' = {I} /\ used' = used \cup {I}
  BY <1>1, EdgesInst, CallStep
<1>3. Active = {} /\ Left' = Left /\ I \notin used
  BY <1>1 DEF Active, Left, ForwardRoot
<1>4. \A a \in 1..Len(stack') : a = 1
  BY <1>2
<1>5. <<I, I>> \in Depends /\ Depends' = Depends /\ \A x : Succs(x)' = Succs(x)
  BY <1>1, DependsOnItself, DependsSame, SameEdges
<1> QED
  BY <1>1, <1>2, <1>3, <1>4, <1>5 DEF ForwardInv

LEMMA ForwardVisit ==
  ASSUME TypeOK, StackInv, ForwardInv, NEW next \in Inst, ForwardEdge(next)
  PROVE  ForwardInv'
<1>1. /\ phase = "forward" /\ stack # <<>> /\ next \in top.todo
      /\ UNCHANGED <<pdg, list, sccNum, sccId, InstInSCC, dag>>
      /\ stack \in Seq(Frame)
  BY DEF ForwardEdge, scc, TypeOK
<1>2. /\ top.inst \in Inst /\ Len(stack) \in 1..Len(stack) /\ top = stack[Len(stack)]
      /\ <<top.inst, next>> \in pdg /\ Len(stack) \in Nat
  BY <1>1, TopEdge, LenProperties
<1>3. Left' = Left /\ Depends' = Depends /\ \A x : Succs(x)' = Succs(x)
  BY <1>1, DependsSame, SameEdges DEF Left
<1>4. /\ used = Left \cup Active /\ Left \cap Active = {}
      /\ \A x \in Left : Succs(x) \subseteq used
      /\ \A a \in 1..Len(stack) : Succs(stack[a].inst) \ stack[a].todo \subseteq used
      /\ \A a, b \in 1..Len(stack) : a <= b => <<stack[a].inst, stack[b].inst>> \in Depends
      /\ sccNum = 0 /\ sccId = [I \in Inst |-> 0] /\ InstInSCC = <<>> /\ dag = {}
  BY <1>1 DEF ForwardInv
<1>5. CASE next \notin used /\ Descend(next, Succs(next))
  <2>1. /\ Len(stack') = Len(stack) + 1 /\ Visits(next)
        /\ stack'[Len(stack) + 1].inst = next /\ stack'[Len(stack) + 1].todo = Succs(next)
        /\ Active' = Active \cup {next} /\ used' = used \cup {next}
    BY <1>1, <1>5, EdgesInst, DescendStep
  <2>2. \A a \in 1..Len(stack') : a \in 1..Len(stack) \/ a = Len(stack) + 1
    BY <1>2, <2>1
  <2>3. used' = Left' \cup Active' /\ Left' \cap Active' = {}
    BY <1>3, <1>4, <1>5, <2>1
  <2>4. \A x \in Left' : Succs(x)' \subseteq used'
    BY <1>3, <1>4, <2>1
  <2>5. ASSUME NEW a \in 1..Len(stack')
        PROVE  Succs(stack'[a].inst) \ stack'[a].todo \subseteq used'
    BY <1>4, <2>1, <2>2 DEF Visits
  <2>6. ASSUME NEW a \in 1..Len(stack'), NEW b \in 1..Len(stack'), a <= b
        PROVE  <<stack'[a].inst, stack'[b].inst>> \in Depends
    <3>1. CASE b \in 1..Len(stack)
      <4>1. a \in 1..Len(stack)
        BY <1>2, <2>6, <3>1
      <4> QED
        BY <1>4, <2>1, <2>6, <3>1, <4>1 DEF Visits
    <3>2. CASE b = Len(stack) + 1 /\ a \in 1..Len(stack)
      <4>0. stack[a] \in Frame
        BY <1>1, <3>2, ElementOfSeq
      <4>1. stack'[a].inst = stack[a].inst /\ a <= Len(stack) /\ stack[a].inst \in Inst
        <5>1. stack[a].inst \in Inst
          BY <4>0 DEF Frame
        <5>2. stack'[a].inst = stack[a].inst
          BY <2>1, <3>2 DEF Visits
        <5> QED
          BY <1>2, <3>2, <5>1, <5>2
      <4>2. <<stack[a].inst, top.inst>> \in Depends /\ <<top.inst, next>> \in Depends
        BY <1>2, <1>4, <3>2, <4>1, DependsOnSucc
      <4> QED
        BY <1>2, <2>1, <3>2, <4>1, <4>2, DependsTransitive
    <3>3. CASE b = Len(stack) + 1 /\ a = Len(stack) + 1
      BY <2>1, <3>3, DependsOnItself
    <3> QED
      BY <2>2, <3>1, <3>2, <3>3
  <2> QED
    BY <1>1, <1>3, <1>4, <2>3, <2>4, <2>5, <2>6 DEF ForwardInv
<1>6. CASE next \in used /\ stack' = Visited(next) /\ UNCHANGED used
  <2>1. Len(stack') = Len(stack) /\ Visits(next) /\ Active' = Active
    BY <1>1, <1>6, VisitStep
  <2>2. ASSUME NEW a \in 1..Len(stack')
        PROVE  Succs(stack'[a].inst) \ stack'[a].todo \subseteq used'
    BY <1>4, <1>6, <2>1 DEF Visits
  <2>3. \A a, b \in 1..Len(stack') : a <= b => <<stack'[a].inst, stack'[b].inst>> \in Depends
    BY <1>4, <2>1 DEF Visits
  <2> QED
    BY <1>1, <1>3, <1>4, <1>6, <2>1, <2>2, <2>3 DEF ForwardInv
<1> QED
  BY <1>5, <1>6 DEF ForwardEdge

\* The list with one more.
LEMMA OneMoreLeft ==
  ASSUME TypeOK, StackInv, ForwardReturn
  PROVE  /\ Len(list) \in Nat /\ Len(list') = Len(list) + 1
         /\ \A i \in 1..Len(list) : list'[i] = list[i]
         /\ list'[Len(list) + 1] = top.inst
         /\ 1..Len(list') = 1..Len(list) \cup {Len(list) + 1}
         /\ Left' = Left \cup {top.inst}
<1>1. top.inst \in Inst /\ list' = Append(list, top.inst) /\ list \in Seq(Inst)
  BY ReturnStep DEF ForwardReturn, Listed, TypeOK, StackInv
<1>2. /\ Len(list) \in Nat /\ Len(list') = Len(list) + 1
      /\ \A i \in 1..Len(list) : list'[i] = list[i]
      /\ list'[Len(list) + 1] = top.inst
  BY <1>1, AppendProperties, LenProperties
<1>3. 1..Len(list') = 1..Len(list) \cup {Len(list) + 1}
  BY <1>2
<1>4. Left' = Left \cup {top.inst}
  BY <1>2, <1>3 DEF Left
<1> QED
  BY <1>2, <1>3, <1>4

LEMMA ForwardLeave ==
  ASSUME TypeOK, StackInv, ForwardInv, ForwardReturn
  PROVE  ForwardInv'
<1>1. /\ phase = "forward" /\ stack # <<>> /\ top.todo = {} /\ stack' = caller
      /\ UNCHANGED <<pdg, used, sccNum, sccId, InstInSCC, dag>>
      /\ stack \in Seq(Frame)
  BY DEF ForwardReturn, scc, TypeOK
<1>2. /\ Len(stack) \in Nat \ {0}
      /\ \A a \in 1..Len(stack') : a \in 1..Len(stack) /\ stack'[a] = stack[a]
      /\ top = stack[Len(stack)] /\ top.inst \in Active
      /\ Active' = Active \ {top.inst}
  BY <1>1, ReturnStep DEF StackInv
<1>3. Left' = Left \cup {top.inst}
  BY OneMoreLeft
<1>4. Depends' = Depends /\ \A x : Succs(x)' = Succs(x)
  BY <1>1, DependsSame, SameEdges
<1>5. Succs(top.inst) \subseteq used
  BY <1>1, <1>2 DEF ForwardInv
<1>6. used' = Left' \cup Active' /\ Left' \cap Active' = {}
  BY <1>1, <1>2, <1>3 DEF ForwardInv
<1>7. \A x \in Left' : Succs(x)' \subseteq used'
  BY <1>1, <1>3, <1>4, <1>5 DEF ForwardInv
<1>8. \A a \in 1..Len(stack') : Succs(stack'[a].inst) \ stack'[a].todo \subseteq used'
  BY <1>1, <1>2 DEF ForwardInv
<1>9. \A a, b \in 1..Len(stack') : a <= b => <<stack'[a].inst, stack'[b].inst>> \in Depends
  BY <1>1, <1>2 DEF ForwardInv
<1> QED
  BY <1>1, <1>4, <1>6, <1>7, <1>8, <1>9 DEF ForwardInv

LEMMA NextForwardInv == TypeOK /\ StackInv /\ ForwardInv /\ [Next]_vars => ForwardInv'
<1> SUFFICES ASSUME TypeOK, StackInv, ForwardInv, [Next]_vars
             PROVE  ForwardInv'
  OBVIOUS
<1>1. CASE UNCHANGED vars
  <2>1. UNCHANGED <<phase, used, list, stack, sccNum, sccId, InstInSCC, dag>> /\ pdg' = pdg
    BY <1>1 DEF vars
  <2>2. Depends' = Depends /\ Left' = Left /\ Active' = Active /\ \A x : Succs(x)' = Succs(x)
    BY <2>1, DependsSame, SameEdges DEF Left, Active
  <2> QED
    BY <2>1, <2>2 DEF ForwardInv
<1>2. (\E I \in Inst : ReverseRoot(I) \/ ReverseEdge(I)) \/ ForwardEnd \/ ReverseReturn \/ ReverseEnd
        => phase' # "forward"
  BY DEF ReverseRoot, ReverseEdge, ForwardEnd, ReverseReturn, ReverseEnd
<1>3. phase' # "forward" => ForwardInv'
  BY DEF ForwardInv
<1> QED
  BY <1>1, <1>2, <1>3, ForwardCall, ForwardVisit, ForwardLeave DEF Next, Done

LEMMA NextListInv == TypeOK /\ StackInv /\ ForwardInv /\ ListInv /\ [Next]_vars => ListInv'
<1> SUFFICES ASSUME TypeOK, StackInv, ForwardInv, ListInv, [Next]_vars
             PROVE  ListInv'
  OBVIOUS
<1>1. Depends' = Depends /\ \A x : Succs(x)' = Succs(x)
  BY StepKinds, DependsSame, SameEdges
<1>2. CASE UNCHANGED list
  <2>1. phase' # "forward" => phase # "forward" \/ ForwardEnd
    BY DEF Next, Done, vars, ForwardRoot, ForwardEdge, ForwardReturn, ReverseRoot, ReverseEdge,
           ReverseReturn, ReverseEnd
  <2>2. ForwardEnd => Left = Inst
    BY DEF ForwardEnd, ForwardInv, Active
  <2>3. Left' = Left
    BY <1>2 DEF Left
  <2> QED
    BY <1>1, <1>2, <2>1, <2>2, <2>3 DEF ListInv
<1>3. CASE ForwardReturn
  <2>0. phase = "forward" /\ phase' = "forward" /\ stack # <<>> /\ top.todo = {}
    BY <1>3 DEF ForwardReturn
  <2>1. /\ Len(list) \in Nat /\ Len(list') = Len(list) + 1
        /\ \A i \in 1..Len(list) : list'[i] = list[i]
        /\ list'[Len(list) + 1] = top.inst
        /\ 1..Len(list') = 1..Len(list) \cup {Len(list) + 1}
        /\ Left' = Left \cup {top.inst}
    BY <1>3, OneMoreLeft
  <2>2. /\ Len(stack) \in 1..Len(stack) /\ top = stack[Len(stack)] /\ top.inst \in Active
        /\ stack \in Seq(Frame) /\ Len(stack) \in Nat
    BY <1>3, ReturnStep DEF ForwardReturn, StackInv, TypeOK
  <2>3. \A x \in used : x \in Left \/ <<x, top.inst>> \in Depends
    <3> SUFFICES ASSUME NEW x \in Active
                 PROVE  <<x, top.inst>> \in Depends
      BY <2>0 DEF ForwardInv
    <3>1. PICK a \in 1..Len(stack) : x = stack[a].inst
      BY DEF Active
    <3>2. a <= Len(stack)
      BY <2>2, <3>1
    <3> QED
      BY <2>0, <2>2, <3>1, <3>2 DEF ForwardInv
  <2>4. Succs(top.inst) \subseteq used /\ \A x \in Left : Succs(x) \subseteq used
    BY <2>0, <2>2 DEF ForwardInv
  <2>5. \A i \in 1..Len(list) : list[i] \in Left /\ list[i] # top.inst
    BY <2>0, <2>2 DEF Left, ForwardInv
  <2>6. \A i, j \in 1..Len(list') : list'[i] = list'[j] => i = j
    BY <2>1, <2>5 DEF ListInv
  <2>7. ASSUME NEW k \in 1..Len(list'), NEW j \in 1..k, NEW y \in Succs(list'[j])
        PROVE  (\E i \in 1..k : list'[i] = y) \/ <<y, list'[k]>> \in Depends
    <3>1. CASE k \in 1..Len(list)
      <4>1. \A i \in 1..k : i \in 1..Len(list)
        BY <2>1, <3>1
      <4>2. (\E i \in 1..k : list[i] = y) \/ <<y, list[k]>> \in Depends
        BY <2>1, <2>7, <3>1, <4>1 DEF ListInv
      <4> QED
        BY <2>1, <3>1, <4>1, <4>2
    <3>2. CASE k = Len(list) + 1
      <4>1. j \in 1..Len(list) \/ j = Len(list) + 1
        BY <2>1, <3>2
      <4>2. y \in used
        BY <2>1, <2>4, <2>5, <2>7, <4>1
      <4>3. y \in Left => \E i \in 1..k : list'[i] = y
        <5> SUFFICES ASSUME NEW i \in 1..Len(list), list[i] = y
                     PROVE  \E m \in 1..k : list'[m] = y
          BY DEF Left
        <5>1. i \in 1..k
          BY <2>1, <3>2
        <5> QED
          BY <2>1, <5>1
      <4> QED
        BY <2>1, <2>3, <3>2, <4>2, <4>3
    <3> QED
      BY <2>1, <3>1, <3>2
  <2> QED
    BY <1>1, <2>0, <2>6, <2>7 DEF ListInv
<1> QED
  BY <1>2, <1>3, ListStep

\* The last one left of the instructions I and those on which it depends mutually
\* was left after everything else that depends on I: when it was left, all the
\* instructions that depend on it had been.
LEMMA LastOfClass ==
  ASSUME TypeOK, ListInv, phase # "forward"
  PROVE  \A k \in 1..Len(list) : \A I \in Inst :
           <<I, list[k]>> \in Depends /\ <<list[k], I>> \notin Depends =>
             \E m \in k + 1..Len(list) : <<I, list[m]>> \in Depends /\ <<list[m], I>> \in Depends
<1> SUFFICES ASSUME NEW k \in 1..Len(list), NEW I \in Inst,
                    <<I, list[k]>> \in Depends, <<list[k], I>> \notin Depends
             PROVE  \E m \in k + 1..Len(list) : <<I, list[m]>> \in Depends /\ <<list[m], I>> \in Depends
  OBVIOUS
<1> DEFINE T == {m \in 1..Len(list) : <<I, list[m]>> \in Depends /\ <<list[m], I>> \in Depends}
<1>1. Len(list) \in Nat /\ \A i \in 1..Len(list) : list[i] \in Inst
  BY LenProperties, ElementOfSeq DEF TypeOK
<1>2. \A x \in Inst : \E i \in 1..Len(list) : list[i] = x
  BY DEF ListInv, Left
<1>3. T # {}
  BY <1>2, DependsOnItself
<1>4. PICK m \in T : \A i \in T : i <= m
  <2> HIDE DEF T
  <2>1. T \in SUBSET (1..Len(list))
    BY DEF T
  <2> QED
    BY <1>1, <1>3, <2>1, LastOf
<1>5. m \in 1..Len(list) /\ list[m] \in Inst /\ <<I, list[m]>> \in Depends /\ <<list[m], I>> \in Depends
  BY <1>1, <1>4
<1> DEFINE S == {x \in Inst : <<list[m], x>> \in Depends /\ \E i \in 1..m : list[i] = x}
<1>6. Closed(S)
  <2> SUFFICES ASSUME NEW e \in pdg, e[1] \in S
               PROVE  e[2] \in S
    BY DEF Closed
  <2>1. e \in Inst \X Inst
    BY FindSCCAssumption DEF TypeOK
  <2>2. PICK x \in Inst, y \in Inst : e = <<x, y>>
    BY <2>1
  <2>3. PICK i \in 1..m : list[i] = x
    BY <2>2
  <2>4. <<list[m], x>> \in Depends /\ <<x, y>> \in Depends
    BY <2>2, DependsOnSucc
  <2>5. <<list[m], y>> \in Depends
    BY <1>5, <2>2, <2>4, DependsTransitive
  <2>6. \E j \in 1..m : list[j] = y
    <3>1. y \in Succs(list[i])
      BY <2>2, <2>3 DEF Succs
    <3>2. (\E j \in 1..m : list[j] = y) \/ <<y, list[m]>> \in Depends
      BY <1>5, <3>1 DEF ListInv
    <3>3. ASSUME <<y, list[m]>> \in Depends
          PROVE  \E j \in 1..m : list[j] = y
      <4>1. PICK j \in 1..Len(list) : list[j] = y
        BY <1>2, <2>2
      <4>2. j \in T
        BY <1>5, <2>2, <2>5, <3>3, <4>1, DependsTransitive
      <4>3. j \in 1..m
        BY <1>1, <1>4, <1>5, <4>2
      <4> QED
        BY <4>1, <4>3
    <3> QED
      BY <3>2, <3>3
  <2> QED
    BY <2>2, <2>5, <2>6
<1>7. list[m] \in S
  <2>1. m \in 1..m
    BY <1>1, <1>5
  <2> QED
    BY <1>5, <2>1, DependsOnItself
<1>8. <<list[m], list[k]>> \in Depends
  BY <1>1, <1>5, DependsTransitive
<1>9. list[k] \in S
  <2> HIDE DEF S
  <2>1. S \in SUBSET Inst
    BY DEF S
  <2> QED
    BY <1>6, <1>7, <1>8, <2>1, ClosedSets
<1>10. PICK i \in 1..m : list[i] = list[k]
  BY <1>9
<1>11. i \in 1..Len(list) /\ i = k
  BY <1>1, <1>5, <1>10 DEF ListInv
<1>12. k # m
  BY <1>5
<1>13. m \in k + 1..Len(list)
  BY <1>1, <1>5, <1>10, <1>11, <1>12
<1> QED
  BY <1>5, <1>13
-----------------------------------------------------------------------------
(* dfs_reverse: what a step does *)

ReverseStep == (\E I \in Inst : ReverseRoot(I) \/ ReverseEdge(I)) \/ ReverseReturn

\* A root is an instruction not met, and everything behind it in the list was.
LEMMA RootEffect ==
  ASSUME TypeOK, StackInv, NEW I \in Inst, ReverseRoot(I)
  PROVE  /\ phase = "reverse" /\ phase' = "reverse" /\ stack = <<>> /\ stack' # <<>> /\ I \notin used
         /\ UNCHANGED <<pdg, list, sccNum, sccId, dag>> /\ InstInSCC' = Append(InstInSCC, {})
         /\ Len(stack') = 1 /\ stack'[1].inst = I /\ stack'[1].todo = Preds(I)
         /\ Active = {} /\ Active' = {I} /\ used' = used \cup {I} /\ Finished' = Finished /\ Finished = used
         /\ comp'[I] = sccNum /\ \A x \in used : comp'[x] = comp[x] /\ comp[x] = sccId[x]
<1>1. /\ phase = "reverse" /\ phase' = "reverse" /\ stack = <<>> /\ I \notin used /\ Call(I, Preds(I))
      /\ UNCHANGED <<pdg, list, sccNum, sccId, dag>> /\ InstInSCC' = Append(InstInSCC, {})
  BY DEF ReverseRoot, IsRoot, Unmet
<1>2. /\ Len(stack') = 1 /\ stack'[1].inst = I /\ stack'[1].todo = Preds(I)
      /\ Active' = {I} /\ used' = used \cup {I}
  BY <1>1, EdgesInst, CallStep
<1>3. Active = {}
  BY <1>1 DEF Active
<1>4. Finished' = Finished /\ Finished = used
  BY <1>1, <1>2, <1>3 DEF Finished
<1>5. comp'[I] = sccNum /\ \A x \in used : comp'[x] = comp[x] /\ comp[x] = sccId[x]
  BY <1>1, <1>2, <1>3 DEF comp, TypeOK
<1>6. stack' # <<>>
  BY <1>2
<1> QED
  BY <1>1, <1>2, <1>3, <1>4, <1>5, <1>6

\* An instruction met for the first time joins the component being built.
LEMMA DescendEffect ==
  ASSUME TypeOK, StackInv, NEW next \in Inst, ReverseEdge(next), next \notin used
  PROVE  /\ phase = "reverse" /\ phase' = "reverse" /\ stack # <<>> /\ stack' # <<>>
         /\ <<next, top.inst>> \in pdg /\ top.inst \in Active /\ top.inst \in Inst
         /\ top = stack[Len(stack)] /\ Len(stack) \in Nat \ {0}
         /\ UNCHANGED <<pdg, list, sccNum, sccId, dag, InstInSCC>>
         /\ Len(stack') = Len(stack) + 1 /\ Visits(next)
         /\ stack'[Len(stack) + 1].inst = next /\ stack'[Len(stack) + 1].todo = Preds(next)
         /\ Active' = Active \cup {next} /\ used' = used \cup {next} /\ Finished' = Finished
         /\ comp'[next] = sccNum /\ \A x \in used : comp'[x] = comp[x]
<1>1. /\ phase = "reverse" /\ phase' = "reverse" /\ stack # <<>> /\ next \in top.todo
      /\ UNCHANGED <<pdg, list, sccNum, sccId, dag, InstInSCC>> /\ Descend(next, Preds(next))
      /\ stack \in Seq(Frame)
  BY DEF ReverseEdge, TypeOK
<1>2. /\ <<next, top.inst>> \in pdg /\ top.inst \in Active /\ top.inst \in Inst
      /\ top = stack[Len(stack)] /\ Len(stack) \in Nat \ {0}
  BY <1>1, TopEdge, CallerStack
<1>3. /\ stack' \in Seq(Frame) /\ Len(stack') = Len(stack) + 1 /\ Visits(next)
      /\ stack'[Len(stack) + 1].inst = next /\ stack'[Len(stack) + 1].todo = Preds(next)
      /\ Active' = Active \cup {next} /\ used' = used \cup {next}
  BY <1>1, EdgesInst, DescendStep
<1>4. Finished' = Finished
  BY <1>3 DEF Finished, StackInv
<1>5. comp'[next] = sccNum /\ \A x \in used : comp'[x] = comp[x]
  BY <1>1, <1>3 DEF comp, TypeOK
<1>6. stack' # <<>>
  BY <1>2, <1>3
<1> QED
  BY <1>1, <1>2, <1>3, <1>4, <1>5, <1>6

\* Another one gives an edge of the DAG.
LEMMA VisitEffect ==
  ASSUME TypeOK, StackInv, NEW next \in Inst, ReverseEdge(next), next \in used
  PROVE  /\ phase = "reverse" /\ phase' = "reverse" /\ stack # <<>> /\ stack' # <<>>
         /\ <<next, top.inst>> \in pdg /\ top.inst \in Active /\ top.inst \in Inst
         /\ top = stack[Len(stack)] /\ Len(stack) \in Nat \ {0}
         /\ UNCHANGED <<pdg, list, used, sccNum, sccId, InstInSCC>>
         /\ dag \subseteq dag' /\ dag' \subseteq dag \cup {<<sccId[next], sccNum>>}
         /\ sccId[next] = sccNum => dag' = dag
         /\ sccId[next] # sccNum => <<sccId[next], sccNum>> \in dag'
         /\ Len(stack') = Len(stack) /\ Visits(next)
         /\ Active' = Active /\ Finished' = Finished /\ comp' = comp
<1>1. /\ phase = "reverse" /\ phase' = "reverse" /\ stack # <<>> /\ next \in top.todo
      /\ UNCHANGED <<pdg, list, used, sccNum, sccId, InstInSCC>> /\ stack' = Visited(next)
      /\ stack \in Seq(Frame)
  BY DEF ReverseEdge, TypeOK
<1>2. /\ <<next, top.inst>> \in pdg /\ top.inst \in Active /\ top.inst \in Inst
      /\ top = stack[Len(stack)] /\ Len(stack) \in Nat \ {0}
  BY <1>1, TopEdge, CallerStack
<1>3. Len(stack') = Len(stack) /\ stack' # <<>> /\ Visits(next) /\ Active' = Active
  BY <1>1, VisitStep
<1>4. Finished' = Finished /\ comp' = comp
  BY <1>1, <1>3 DEF Finished, comp
<1>5. dag' = IF sccId[next] # sccNum /\ <<sccId[next], sccNum>> \notin dag
             THEN dag \cup {<<sccId[next], sccNum>>} ELSE dag
  BY DEF ReverseEdge, OtherSCC, IsNew
<1> QED
  BY <1>1, <1>2, <1>3, <1>4, <1>5

\* A call that returns leaves its instruction in the component; with the first call
\* the component is complete.
LEMMA ReturnEffect ==
  ASSUME TypeOK, StackInv, ReverseReturn
  PROVE  /\ phase = "reverse" /\ phase' = "reverse" /\ stack # <<>> /\ top.todo = {}
         /\ top.inst \in Active /\ top.inst \in Inst /\ top.inst \notin Finished
         /\ top = stack[Len(stack)] /\ Len(stack) \in Nat \ {0}
         /\ UNCHANGED <<pdg, list, used, dag>>
         /\ \A a \in 1..Len(stack') : a \in 1..Len(stack) /\ stack'[a] = stack[a]
         /\ Active' = Active \ {top.inst} /\ Finished' = Finished \cup {top.inst}
         /\ \A x \in Inst : sccId'[x] = IF x = top.inst THEN sccNum ELSE sccId[x]
         /\ sccNum + 1 \in 1..Len(InstInSCC) /\ Len(InstInSCC') = Len(InstInSCC)
         /\ \A k \in 1..Len(InstInSCC) :
              InstInSCC'[k] = IF k = sccNum + 1 THEN InstInSCC[k] \cup {top.inst} ELSE InstInSCC[k]
         /\ \A x \in used : comp'[x] = comp[x]
         /\ \/ Len(stack) = 1 /\ stack' = <<>> /\ sccNum' = sccNum + 1
            \/ Len(stack) # 1 /\ stack' # <<>> /\ sccNum' = sccNum
<1>1. /\ phase = "reverse" /\ phase' = "reverse" /\ stack # <<>> /\ top.todo = {} /\ stack' = caller
      /\ UNCHANGED <<pdg, list, used, dag>> /\ stack \in Seq(Frame)
      /\ sccId' = [sccId EXCEPT ![top.inst] = sccNum]
      /\ InstInSCC' = [InstInSCC EXCEPT ![sccNum + 1] = @ \cup {top.inst}]
      /\ sccNum' = IF Len(stack) = 1 THEN sccNum + 1 ELSE sccNum
  BY DEF ReverseReturn, TypeOK, NextNum
<1>2. /\ Len(stack) \in Nat \ {0} /\ (stack' = <<>> <=> Len(stack) = 1)
      /\ \A a \in 1..Len(stack') : a \in 1..Len(stack) /\ stack'[a] = stack[a]
      /\ top = stack[Len(stack)] /\ top.inst \in Active /\ top.inst \in Inst
      /\ Active' = Active \ {top.inst}
  BY <1>1, ReturnStep DEF StackInv
<1>3. Finished' = Finished \cup {top.inst} /\ top.inst \notin Finished
  BY <1>1, <1>2 DEF Finished, StackInv
<1>4. \A x \in Inst : sccId'[x] = IF x = top.inst THEN sccNum ELSE sccId[x]
  BY <1>1, <1>2 DEF TypeOK
<1>5. \/ Len(stack) = 1 /\ stack' = <<>> /\ sccNum' = sccNum + 1
      \/ Len(stack) # 1 /\ stack' # <<>> /\ sccNum' = sccNum
  BY <1>1, <1>2
<1>6. /\ sccNum + 1 \in 1..Len(InstInSCC) /\ Len(InstInSCC') = Len(InstInSCC)
      /\ \A k \in 1..Len(InstInSCC) :
           InstInSCC'[k] = IF k = sccNum + 1 THEN InstInSCC[k] \cup {top.inst} ELSE InstInSCC[k]
  <2>1. InstInSCC \in Seq(SUBSET Inst) /\ sccNum + 1 \in 1..Len(InstInSCC)
    BY <1>1 DEF TypeOK
  <2> DEFINE component == InstInSCC[sccNum + 1] \cup {top.inst}
  <2>2. component \in SUBSET Inst
    BY <1>2, <2>1, ElementOfSeq
  <2>3. InstInSCC' = [InstInSCC EXCEPT ![sccNum + 1] = component]
    BY <1>1
  <2> HIDE DEF component
  <2>4. /\ Len(InstInSCC') = Len(InstInSCC)
        /\ \A k \in 1..Len(InstInSCC) :
             InstInSCC'[k] = IF k = sccNum + 1 THEN component ELSE InstInSCC[k]
    BY <2>1, <2>2, <2>3, ExceptSeq
  <2> QED
    BY <2>1, <2>4 DEF component
<1>7. ASSUME NEW x \in used
      PROVE  comp'[x] = comp[x]
  <2>1. x \in Inst
    BY DEF TypeOK
  <2>2. x \in Active' => stack' # <<>>
    BY DEF Active
  <2>3. comp'[x] = (IF x \in Active' THEN sccNum' ELSE sccId'[x])
        /\ comp[x] = (IF x \in Active THEN sccNum ELSE sccId[x])
    BY <2>1 DEF comp
  <2> QED
    BY <1>2, <1>4, <1>5, <2>1, <2>2, <2>3
<1> QED
  BY <1>1, <1>2, <1>3, <1>4, <1>5, <1>6, <1>7

\* No step takes back what an earlier one has found.
LEMMA ReverseGrows ==
  ASSUME TypeOK, StackInv, ReverseStep
  PROVE  /\ used \subseteq used' /\ \A x \in used : comp'[x] = comp[x]
         /\ Finished \subseteq Finished' /\ \A x \in Finished : sccId'[x] = sccId[x]
         /\ dag \subseteq dag' /\ sccNum <= sccNum' /\ sccNum \in Nat /\ sccNum' \in Nat
         /\ phase = "reverse" /\ phase' = "reverse" /\ UNCHANGED <<pdg, list>>
<1>0. sccNum \in Nat
  BY DEF TypeOK
<1>1. ASSUME NEW I \in Inst, ReverseRoot(I)
      PROVE  /\ used \subseteq used' /\ \A x \in used : comp'[x] = comp[x]
             /\ Finished \subseteq Finished' /\ \A x \in Finished : sccId'[x] = sccId[x]
             /\ dag \subseteq dag' /\ sccNum <= sccNum' /\ sccNum' \in Nat
             /\ phase = "reverse" /\ phase' = "reverse" /\ UNCHANGED <<pdg, list>>
  BY <1>0, <1>1, RootEffect
<1>2. ASSUME NEW next \in Inst, ReverseEdge(next)
      PROVE  /\ used \subseteq used' /\ \A x \in used : comp'[x] = comp[x]
             /\ Finished \subseteq Finished' /\ \A x \in Finished : sccId'[x] = sccId[x]
             /\ dag \subseteq dag' /\ sccNum <= sccNum' /\ sccNum' \in Nat
             /\ phase = "reverse" /\ phase' = "reverse" /\ UNCHANGED <<pdg, list>>
  <2>1. CASE next \in used
    <3>1. /\ UNCHANGED <<pdg, list, used, sccNum, sccId>> /\ Finished' = Finished /\ comp' = comp
          /\ dag \subseteq dag' /\ phase = "reverse" /\ phase' = "reverse"
      BY <1>2, <2>1, VisitEffect
    <3> QED
      BY <1>0, <3>1
  <2>2. CASE next \notin used
    <3>1. /\ UNCHANGED <<pdg, list, sccNum, sccId, dag>> /\ Finished' = Finished
          /\ used' = used \cup {next} /\ \A x \in used : comp'[x] = comp[x]
          /\ phase = "reverse" /\ phase' = "reverse"
      BY <1>2, <2>2, DescendEffect
    <3> QED
      BY <1>0, <3>1
  <2> QED
    BY <2>1, <2>2
<1>3. CASE ReverseReturn
  <2>1. \A x \in Finished : x \in Inst /\ x # top.inst
    BY <1>3, ReturnEffect DEF Finished, TypeOK
  <2>2. /\ \A x \in Inst : sccId'[x] = IF x = top.inst THEN sccNum ELSE sccId[x]
        /\ UNCHANGED <<pdg, list, used, dag>> /\ Finished' = Finished \cup {top.inst}
        /\ phase = "reverse" /\ phase' = "reverse" /\ \A x \in used : comp'[x] = comp[x]
        /\ sccNum' = sccNum \/ sccNum' = sccNum + 1
    BY <1>3, ReturnEffect
  <2> QED
    BY <1>0, <2>1, <2>2
<1> QED
  BY <1>0, <1>1, <1>2, <1>3 DEF ReverseStep

\* The other steps of the second search, its beginning and its end.
LEMMA ReverseKinds ==
  ASSUME TypeOK, [Next]_vars, phase' # "forward"
  PROVE  \/ ReverseStep
         \/ /\ phase # "forward" /\ UNCHANGED <<pdg, list, used, stack, sccNum, sccId, InstInSCC, dag>>
         \/ ForwardEnd
BY DEF Next, Done, vars, scc, ForwardRoot, ForwardEdge, ForwardReturn, ReverseEnd, ReverseStep
-----------------------------------------------------------------------------
(* dfs_reverse: numbers *)

\* sccId and InstInSCC tell the same of the instructions whose calls have returned, and
\* sccId reads as 0 for the others.
NumberInv ==
  phase # "forward" =>
    /\ \A x \in Inst \ Finished : sccId[x] = 0
    /\ \A x \in Finished : sccId[x] <= sccNum /\ (stack = <<>> => sccId[x] < sccNum)
    /\ \A x \in Finished : x \in InstInSCC[sccId[x] + 1]
    /\ \A k \in 1..Len(InstInSCC) : \A x \in InstInSCC[k] : x \in Finished /\ sccId[x] = k - 1

LEMMA ReverseBegins ==
  ASSUME ForwardInv, ForwardEnd
  PROVE  /\ UNCHANGED <<pdg, list, stack, sccId>> /\ stack = <<>> /\ stack' = <<>>
         /\ used' = {} /\ Active' = {} /\ Finished' = {}
         /\ sccId = [I \in Inst |-> 0] /\ sccNum' = 0 /\ InstInSCC' = <<>> /\ dag' = {}
<1>1. /\ UNCHANGED <<pdg, list, stack, sccId>> /\ stack = <<>> /\ stack' = <<>>
      /\ used' = {} /\ sccNum' = 0 /\ InstInSCC' = <<>> /\ dag' = {}
  BY DEF ForwardEnd
<1> QED
  BY <1>1 DEF ForwardEnd, ForwardInv, Active, Finished

LEMMA NextNumberInv ==
  TypeOK /\ StackInv /\ ForwardInv /\ NumberInv /\ [Next]_vars => NumberInv'
<1> SUFFICES ASSUME TypeOK, StackInv, ForwardInv, NumberInv, [Next]_vars, phase' # "forward"
             PROVE  NumberInv'
  BY DEF NumberInv
<1>0. /\ sccNum \in Nat /\ Finished \subseteq Inst /\ InstInSCC \in Seq(SUBSET Inst)
      /\ sccId \in [Inst -> Nat] /\ Len(InstInSCC) \in Nat
  BY LenProperties DEF TypeOK, Finished
<1>1. ASSUME NEW I \in Inst, ReverseRoot(I)
      PROVE  NumberInv'
  <2>1. /\ UNCHANGED <<sccNum, sccId>> /\ Finished' = Finished /\ stack = <<>> /\ stack' # <<>>
        /\ phase = "reverse" /\ InstInSCC' = Append(InstInSCC, {})
    BY <1>1, RootEffect
  <2>2. /\ Len(InstInSCC) = sccNum /\ Len(InstInSCC') = sccNum + 1 /\ InstInSCC'[sccNum + 1] = {}
        /\ \A k \in 1..sccNum : InstInSCC'[k] = InstInSCC[k]
    <3>1. Len(InstInSCC) = sccNum
      BY <2>1 DEF TypeOK
    <3> QED
      BY <1>0, <2>1, <3>1, AppendProperties
  <2>3. \A x \in Finished : sccId[x] + 1 \in 1..sccNum
    BY <1>0, <2>1 DEF NumberInv
  <2>4. \A x \in Finished' : x \in InstInSCC'[sccId'[x] + 1]
    BY <2>1, <2>2, <2>3 DEF NumberInv
  <2>5. ASSUME NEW k \in 1..Len(InstInSCC'), NEW x \in InstInSCC'[k]
        PROVE  x \in Finished' /\ sccId'[x] = k - 1
    <3>1. k \in 1..sccNum \/ k = sccNum + 1
      BY <1>0, <2>2
    <3> QED
      BY <2>1, <2>2, <3>1 DEF NumberInv
  <2> QED
    BY <2>1, <2>4, <2>5 DEF NumberInv
<1>2. ASSUME NEW next \in Inst, ReverseEdge(next)
      PROVE  NumberInv'
  <2>1. /\ UNCHANGED <<sccNum, sccId, InstInSCC>> /\ Finished' = Finished
        /\ stack' # <<>> /\ phase = "reverse"
    BY <1>2, DescendEffect, VisitEffect
  <2> QED
    BY <2>1 DEF NumberInv
<1>3. CASE ReverseReturn
  <2>1. /\ phase = "reverse" /\ top.inst \in Inst /\ top.inst \notin Finished
        /\ Finished' = Finished \cup {top.inst}
        /\ \A x \in Inst : sccId'[x] = IF x = top.inst THEN sccNum ELSE sccId[x]
        /\ sccNum + 1 \in 1..Len(InstInSCC) /\ Len(InstInSCC') = Len(InstInSCC)
        /\ \A k \in 1..Len(InstInSCC) :
             InstInSCC'[k] = IF k = sccNum + 1 THEN InstInSCC[k] \cup {top.inst} ELSE InstInSCC[k]
        /\ \/ stack' = <<>> /\ sccNum' = sccNum + 1
           \/ stack' # <<>> /\ sccNum' = sccNum
    BY <1>3, ReturnEffect
  <2>2. Len(InstInSCC) = sccNum + 1
    BY <1>3 DEF ReverseReturn, TypeOK
  <2>3. \A x \in Inst \ Finished' : sccId'[x] = 0
    BY <2>1 DEF NumberInv
  <2>4. ASSUME NEW x \in Finished'
        PROVE  sccId'[x] <= sccNum' /\ (stack' = <<>> => sccId'[x] < sccNum')
    <3>1. sccId'[x] \in Nat /\ sccId'[x] <= sccNum
      BY <1>0, <2>1 DEF NumberInv
    <3>2. sccNum' = sccNum \/ sccNum' = sccNum + 1
      BY <2>1
    <3>3. stack' = <<>> => sccNum' = sccNum + 1
      BY <2>1
    <3> QED
      BY <1>0, <3>1, <3>2, <3>3
  <2>5. ASSUME NEW x \in Finished'
        PROVE  x \in InstInSCC'[sccId'[x] + 1]
    <3>1. CASE x = top.inst
      BY <2>1, <3>1
    <3>2. CASE x \in Finished /\ x # top.inst
      <4>1. sccId'[x] = sccId[x] /\ x \in InstInSCC[sccId[x] + 1] /\ sccId[x] <= sccNum
            /\ sccId[x] \in Nat
        BY <1>0, <2>1, <3>2 DEF NumberInv
      <4>2. sccId[x] + 1 \in 1..Len(InstInSCC)
        BY <1>0, <2>2, <4>1
      <4> QED
        BY <2>1, <4>1, <4>2
    <3> QED
      BY <2>1, <3>1, <3>2
  <2>6. ASSUME NEW k \in 1..Len(InstInSCC'), NEW x \in InstInSCC'[k]
        PROVE  x \in Finished' /\ sccId'[x] = k - 1
    <3>1. x \in InstInSCC[k] \/ (x = top.inst /\ k = sccNum + 1)
      BY <2>1
    <3>2. CASE x \in InstInSCC[k]
      <4>1. x \in Finished /\ sccId[x] = k - 1
        BY <2>1, <3>2 DEF NumberInv
      <4> QED
        BY <1>0, <2>1, <4>1
    <3>3. CASE x = top.inst /\ k = sccNum + 1
      <4>1. k - 1 = sccNum
        BY <1>0, <3>3
      <4> QED
        BY <2>1, <3>3, <4>1
    <3> QED
      BY <3>1, <3>2, <3>3
  <2> QED
    BY <2>3, <2>4, <2>5, <2>6 DEF NumberInv
<1>4. CASE phase # "forward" /\ UNCHANGED <<pdg, list, used, stack, sccNum, sccId, InstInSCC, dag>>
  BY <1>4 DEF NumberInv, Finished, Active
<1>5. CASE ForwardEnd
  <2>1. /\ Finished' = {} /\ sccId' = [I \in Inst |-> 0] /\ InstInSCC' = <<>>
    BY <1>5, ReverseBegins
  <2>2. Len(InstInSCC') = 0
    BY <2>1
  <2> QED
    BY <2>1, <2>2 DEF NumberInv
<1> QED
  BY <1>1, <1>2, <1>3, <1>4, <1>5, ReverseKinds DEF ReverseStep
-----------------------------------------------------------------------------
(* dfs_reverse: the DAG *)

\* The edges of the pdg that the DAG knows of, if it has to.
Known == {e \in pdg : /\ e[1] \in used /\ comp[e[1]] <= comp[e[2]]
                      /\ comp[e[1]] # comp[e[2]] => <<comp[e[1]], comp[e[2]]>> \in dag}

\* Where an edge of the DAG may come from.
Founded == {d \in Nat \X Nat :
              d[1] = 0 \/ \E e \in pdg : e[1] \in used /\ e[2] \in used /\ d = <<comp[e[1]], comp[e[2]]>>}

\* The edges against which the search has gone are known, and what is in the DAG
\* besides is from component 0.
DagInv ==
  phase # "forward" =>
    /\ \A e \in pdg : e[2] \in Finished => e \in Known
    /\ \A a \in 1..Len(stack) : \A e \in pdg :
         e[2] = stack[a].inst /\ e[1] \notin stack[a].todo => e \in Known
    /\ \A d \in dag : d[1] < d[2] /\ d[2] <= sccNum /\ d \in Founded

LEMMA EdgePair ==
  TypeOK => \A e \in pdg : e[1] \in Inst /\ e[2] \in Inst /\ e = <<e[1], e[2]>>
BY FindSCCAssumption DEF TypeOK

LEMMA CompType == TypeOK => comp \in [Inst -> Nat]
BY DEF TypeOK, comp

LEMMA KnownKept ==
  ASSUME TypeOK, StackInv, ReverseStep
  PROVE  \A e \in Known : e[2] \in used => e \in Known'
<1> SUFFICES ASSUME NEW e \in Known, e[2] \in used
             PROVE  e \in Known'
  OBVIOUS
<1>1. /\ used \subseteq used' /\ \A x \in used : comp'[x] = comp[x] /\ dag \subseteq dag'
      /\ pdg' = pdg
  BY ReverseGrows
<1>2. /\ e \in pdg /\ e[1] \in used /\ comp[e[1]] <= comp[e[2]]
      /\ comp[e[1]] # comp[e[2]] => <<comp[e[1]], comp[e[2]]>> \in dag
  BY DEF Known
<1>3. comp'[e[1]] = comp[e[1]] /\ comp'[e[2]] = comp[e[2]]
  BY <1>1, <1>2
<1> QED
  BY <1>1, <1>2, <1>3 DEF Known

LEMMA FoundedKept ==
  ASSUME TypeOK, StackInv, DagInv, ReverseStep
  PROVE  \A d \in dag : d[1] < d[2] /\ d[2] <= sccNum' /\ d \in Founded'
<1> SUFFICES ASSUME NEW d \in dag
             PROVE  d[1] < d[2] /\ d[2] <= sccNum' /\ d \in Founded'
  OBVIOUS
<1>1. /\ used \subseteq used' /\ \A x \in used : comp'[x] = comp[x]
      /\ sccNum <= sccNum' /\ sccNum \in Nat /\ sccNum' \in Nat /\ phase = "reverse" /\ pdg' = pdg
  BY ReverseGrows
<1>2. d[1] < d[2] /\ d[2] <= sccNum /\ d \in Founded
  BY <1>1 DEF DagInv
<1>3. d[1] \in Nat /\ d[2] \in Nat
  BY <1>2 DEF Founded
<1>4. d[2] <= sccNum'
  BY <1>1, <1>2, <1>3
<1>5. d \in Founded'
  BY <1>1, <1>2 DEF Founded
<1> QED
  BY <1>2, <1>4, <1>5

LEMMA NextDagInv ==
  TypeOK /\ StackInv /\ ForwardInv /\ NumberInv /\ DagInv /\ [Next]_vars => DagInv'
<1> SUFFICES ASSUME TypeOK, StackInv, ForwardInv, NumberInv, DagInv, [Next]_vars, phase' # "forward"
             PROVE  DagInv'
  BY DEF DagInv
<1>0. /\ sccNum \in Nat /\ used \subseteq Inst /\ Finished \subseteq used /\ Active \subseteq used
      /\ sccId \in [Inst -> Nat] /\ comp \in [Inst -> Nat] /\ Len(stack) \in Nat /\ pdg' = pdg
      /\ \A e \in pdg : e[1] \in Inst /\ e[2] \in Inst /\ e = <<e[1], e[2]>>
      /\ \A a \in 1..Len(stack) : stack[a].inst \in Active
  BY StepKinds, EdgePair, CompType, LenProperties DEF TypeOK, Finished, StackInv, Active
<1>1. ASSUME NEW I \in Inst, ReverseRoot(I)
      PROVE  DagInv'
  <2>0. ReverseStep
    BY <1>1 DEF ReverseStep
  <2>1. /\ phase = "reverse" /\ Finished' = Finished /\ dag' = dag
        /\ Len(stack') = 1 /\ stack'[1].inst = I /\ stack'[1].todo = Preds(I)
    BY <1>1, RootEffect
  <2>2. \A e \in pdg' : e[2] \in Finished' => e \in Known'
    BY <1>0, <2>0, <2>1, KnownKept DEF DagInv
  <2>3. \A a \in 1..Len(stack') : a = 1
    BY <2>1
  <2>4. \A e \in pdg : e[2] = I => e[1] \in Preds(I)
    BY <1>0 DEF Preds
  <2>5. \A a \in 1..Len(stack') : \A e \in pdg' :
          e[2] = stack'[a].inst /\ e[1] \notin stack'[a].todo => e \in Known'
    BY <1>0, <2>1, <2>3, <2>4
  <2>6. \A d \in dag' : d[1] < d[2] /\ d[2] <= sccNum' /\ d \in Founded'
    BY <2>0, <2>1, FoundedKept
  <2> QED
    BY <2>2, <2>5, <2>6 DEF DagInv
<1>2. ASSUME NEW next \in Inst, ReverseEdge(next), next \notin used
      PROVE  DagInv'
  <2>0. ReverseStep
    BY <1>2 DEF ReverseStep
  <2>1. /\ phase = "reverse" /\ Finished' = Finished /\ dag' = dag
        /\ top.inst \in Active /\ top.inst \in Inst /\ top = stack[Len(stack)]
        /\ Len(stack') = Len(stack) + 1 /\ Visits(next)
        /\ stack'[Len(stack) + 1].inst = next /\ stack'[Len(stack) + 1].todo = Preds(next)
        /\ used' = used \cup {next} /\ comp'[next] = sccNum
        /\ \A x \in used : comp'[x] = comp[x]
    BY <1>2, DescendEffect
  <2>2. \A e \in pdg' : e[2] \in Finished' => e \in Known'
    BY <1>0, <2>0, <2>1, KnownKept DEF DagInv
  <2>3. comp'[top.inst] = sccNum
    BY <1>0, <2>1 DEF comp
  <2>4. \A e \in pdg : e[1] = next /\ e[2] = top.inst => e \in Known'
    BY <1>0, <2>1, <2>3 DEF Known
  <2>5. ASSUME NEW a \in 1..Len(stack'), NEW e \in pdg',
               e[2] = stack'[a].inst, e[1] \notin stack'[a].todo
        PROVE  e \in Known'
    <3>1. a \in 1..Len(stack) \/ a = Len(stack) + 1
      BY <1>0, <2>1
    <3>2. \A f \in pdg : f[2] = next => f[1] \in Preds(next)
      BY <1>0 DEF Preds
    <3>3. a # Len(stack) + 1
      BY <1>0, <2>1, <2>5, <3>2
    <3>4. a \in 1..Len(stack) /\ e[2] = stack[a].inst /\ stack[a].inst \in used
      BY <1>0, <2>1, <2>5, <3>1, <3>3 DEF Visits
    <3>5. e[1] \notin stack[a].todo \/ (a = Len(stack) /\ e[1] = next)
      BY <2>1, <2>5, <3>4 DEF Visits
    <3>6. CASE e[1] \notin stack[a].todo
      BY <1>0, <2>0, <2>1, <3>4, <3>6, KnownKept DEF DagInv
    <3>7. CASE a = Len(stack) /\ e[1] = next
      BY <1>0, <2>1, <2>4, <3>4, <3>7
    <3> QED
      BY <3>5, <3>6, <3>7
  <2>6. \A d \in dag' : d[1] < d[2] /\ d[2] <= sccNum' /\ d \in Founded'
    BY <2>0, <2>1, FoundedKept
  <2> QED
    BY <2>2, <2>5, <2>6 DEF DagInv
<1>3. ASSUME NEW next \in Inst, ReverseEdge(next), next \in used
      PROVE  DagInv'
  <2>0. ReverseStep
    BY <1>3 DEF ReverseStep
  <2>1. /\ phase = "reverse" /\ Finished' = Finished /\ used' = used /\ sccNum' = sccNum
        /\ <<next, top.inst>> \in pdg
        /\ top.inst \in Active /\ top.inst \in Inst /\ top = stack[Len(stack)]
        /\ Len(stack') = Len(stack) /\ Visits(next) /\ comp' = comp
        /\ dag' \subseteq dag \cup {<<sccId[next], sccNum>>}
        /\ sccId[next] = sccNum => dag' = dag
        /\ sccId[next] # sccNum => <<sccId[next], sccNum>> \in dag'
    BY <1>3, VisitEffect
  <2>2. \A e \in pdg' : e[2] \in Finished' => e \in Known'
    BY <1>0, <2>0, <2>1, KnownKept DEF DagInv
  <2>3. comp[top.inst] = sccNum
    BY <2>1 DEF comp
  <2>4. comp[next] = sccId[next] \/ (comp[next] = sccNum /\ sccId[next] = 0)
    BY <2>1 DEF comp, NumberInv, Finished
  <2>5. sccId[next] <= sccNum /\ comp[next] <= sccNum /\ sccId[next] \in Nat
    <3>1. next \in Finished \/ sccId[next] = 0
      BY <2>1 DEF NumberInv
    <3>2. sccId[next] <= sccNum
      BY <1>0, <2>1, <3>1 DEF NumberInv
    <3> QED
      BY <1>0, <2>4, <3>2
  <2>6. comp[next] # sccNum => <<comp[next], sccNum>> \in dag'
    BY <2>1, <2>4
  <2>7. \A e \in pdg : e[1] = next /\ e[2] = top.inst => e \in Known'
    BY <1>0, <1>3, <2>1, <2>3, <2>5, <2>6 DEF Known
  <2>8. ASSUME NEW a \in 1..Len(stack'), NEW e \in pdg',
               e[2] = stack'[a].inst, e[1] \notin stack'[a].todo
        PROVE  e \in Known'
    <3>1. a \in 1..Len(stack) /\ e[2] = stack[a].inst /\ stack[a].inst \in used
      BY <1>0, <2>1, <2>8 DEF Visits
    <3>2. e[1] \notin stack[a].todo \/ (a = Len(stack) /\ e[1] = next)
      BY <2>1, <2>8, <3>1 DEF Visits
    <3>3. CASE e[1] \notin stack[a].todo
      BY <1>0, <2>0, <2>1, <3>1, <3>3, KnownKept DEF DagInv
    <3>4. CASE a = Len(stack) /\ e[1] = next
      BY <1>0, <2>1, <2>7, <3>1, <3>4
    <3> QED
      BY <3>2, <3>3, <3>4
  <2>9. ASSUME NEW d \in dag' \ dag
        PROVE  d[1] < d[2] /\ d[2] <= sccNum' /\ d \in Founded'
    <3>1. d = <<sccId[next], sccNum>> /\ sccId[next] # sccNum
      BY <2>1, <2>9
    <3>2. d[1] < d[2] /\ d[2] <= sccNum' /\ d \in Nat \X Nat
      BY <1>0, <2>1, <2>5, <3>1
    <3>3. CASE sccId[next] = 0
      BY <3>1, <3>2, <3>3 DEF Founded
    <3>4. CASE comp[next] = sccId[next]
      <4> DEFINE e == <<next, top.inst>>
      <4>1. e \in pdg' /\ e[1] \in used' /\ e[2] \in used'
        BY <1>0, <1>3, <2>1
      <4>2. d = <<comp'[e[1]], comp'[e[2]]>>
        BY <2>1, <2>3, <3>1, <3>4
      <4> HIDE DEF e
      <4> QED
        BY <3>2, <4>1, <4>2 DEF Founded
    <3> QED
      BY <2>4, <3>3, <3>4
  <2>10. \A d \in dag' : d[1] < d[2] /\ d[2] <= sccNum' /\ d \in Founded'
    BY <2>0, <2>9, FoundedKept
  <2> QED
    BY <2>2, <2>8, <2>10 DEF DagInv
<1>4. CASE ReverseReturn
  <2>0. ReverseStep
    BY <1>4 DEF ReverseStep
  <2>1. /\ phase = "reverse" /\ Finished' = Finished \cup {top.inst} /\ dag' = dag
        /\ top.inst \in Active /\ top = stack[Len(stack)] /\ top.todo = {} /\ Len(stack) \in Nat \ {0}
        /\ \A a \in 1..Len(stack') : a \in 1..Len(stack) /\ stack'[a] = stack[a]
    BY <1>4, ReturnEffect
  <2>2. ASSUME NEW a \in 1..Len(stack), NEW e \in pdg, e[2] = stack[a].inst, e[1] \notin stack[a].todo
        PROVE  e \in Known'
    BY <1>0, <2>0, <2>1, <2>2, KnownKept DEF DagInv
  <2>3. ASSUME NEW e \in pdg', e[2] \in Finished'
        PROVE  e \in Known'
    <3>1. Len(stack) \in 1..Len(stack)
      BY <2>1
    <3>2. CASE e[2] \in Finished
      BY <1>0, <2>0, <2>1, <3>2, KnownKept DEF DagInv
    <3>3. CASE e[2] = top.inst
      BY <1>0, <2>1, <2>2, <3>1, <3>3
    <3> QED
      BY <2>1, <2>3, <3>2, <3>3
  <2>4. \A d \in dag' : d[1] < d[2] /\ d[2] <= sccNum' /\ d \in Founded'
    BY <2>0, <2>1, FoundedKept
  <2> QED
    BY <1>0, <2>1, <2>2, <2>3, <2>4 DEF DagInv
<1>5. CASE phase # "forward" /\ UNCHANGED <<pdg, list, used, stack, sccNum, sccId, InstInSCC, dag>>
  <2>1. Finished' = Finished /\ comp' = comp
    BY <1>5 DEF Finished, Active, comp
  <2>2. Known' = Known /\ Founded' = Founded
    BY <1>5, <2>1 DEF Known, Founded
  <2> QED
    BY <1>5, <2>1, <2>2 DEF DagInv
<1>6. CASE ForwardEnd
  <2>1. Finished' = {} /\ stack' = <<>> /\ dag' = {}
    BY <1>6, ReverseBegins
  <2>2. Len(stack') = 0
    BY <2>1
  <2> QED
    BY <2>1, <2>2 DEF DagInv
<1> QED
  BY <1>1, <1>2, <1>3, <1>4, <1>5, <1>6, ReverseKinds DEF ReverseStep
-----------------------------------------------------------------------------
(* dfs_reverse: components *)

\* The instructions that depend on each other.
Mutual == {p \in Inst \X Inst : p \in Depends /\ <<p[2], p[1]>> \in Depends}

LEMMA MutualPair ==
  \A x, y \in Inst : <<x, y>> \in Mutual <=> <<x, y>> \in Depends /\ <<y, x>> \in Depends
BY DEF Mutual

LEMMA MutualClass ==
  /\ \A x \in Inst : <<x, x>> \in Mutual
  /\ \A x, y \in Inst : <<x, y>> \in Mutual => <<y, x>> \in Mutual
  /\ \A x, y, z \in Inst : <<x, y>> \in Mutual /\ <<y, z>> \in Mutual => <<x, z>> \in Mutual
<1>1. \A x \in Inst : <<x, x>> \in Mutual
  BY MutualPair, DependsOnItself
<1>2. \A x, y \in Inst : <<x, y>> \in Mutual => <<y, x>> \in Mutual
  BY MutualPair
<1>3. \A x, y, z \in Inst : <<x, y>> \in Mutual /\ <<y, z>> \in Mutual => <<x, z>> \in Mutual
  BY MutualPair, DependsTransitive
<1> QED
  BY <1>1, <1>2, <1>3

LEMMA MutualSame == pdg' = pdg => Mutual' = Mutual
BY DependsSame DEF Mutual

\* The component of x is complete, and is the class of x.
Complete(x) == \A y \in Inst : <<x, y>> \in Mutual <=> y \in Finished /\ sccId[y] = sccId[x]

\* Components that have a number below sccNum are complete.  The one being built is
\* part of the class of its root, and what is behind the root in the list is in
\* complete ones.
ClassInv ==
  phase # "forward" =>
    /\ \A a, b \in 1..Len(stack) : a <= b => <<stack[b].inst, stack[a].inst>> \in Depends
    /\ \A x \in Finished : sccId[x] < sccNum => Complete(x)
    /\ stack # <<>> => \A x \in used : comp[x] = sccNum => <<x, stack[1].inst>> \in Mutual
    /\ stack # <<>> =>
         \E k \in 1..Len(list) :
           /\ list[k] = stack[1].inst
           /\ \A m \in k + 1..Len(list) : list[m] \in Finished /\ sccId[list[m]] < sccNum

\* The root's place stays what it was.
LEMMA RootKept ==
  ASSUME TypeOK, StackInv, NumberInv, ClassInv, ReverseStep, stack # <<>>, stack' # <<>>,
         stack'[1].inst = stack[1].inst
  PROVE  \E k \in 1..Len(list') :
           /\ list'[k] = stack'[1].inst
           /\ \A m \in k + 1..Len(list') : list'[m] \in Finished' /\ sccId'[list'[m]] < sccNum'
<1>1. /\ Finished \subseteq Finished' /\ \A x \in Finished : sccId'[x] = sccId[x]
      /\ sccNum <= sccNum' /\ sccNum \in Nat /\ sccNum' \in Nat /\ phase = "reverse" /\ list' = list
  BY ReverseGrows
<1>2. PICK k \in 1..Len(list) :
           /\ list[k] = stack[1].inst
           /\ \A m \in k + 1..Len(list) : list[m] \in Finished /\ sccId[list[m]] < sccNum
  BY <1>1 DEF ClassInv
<1>3. ASSUME NEW m \in k + 1..Len(list)
      PROVE  list[m] \in Finished' /\ sccId'[list[m]] < sccNum'
  <2>1. list[m] \in Finished /\ sccId[list[m]] < sccNum /\ sccId[list[m]] \in Nat
    BY <1>2 DEF TypeOK, Finished
  <2>2. sccId'[list[m]] = sccId[list[m]]
    BY <1>1, <2>1
  <2> QED
    BY <1>1, <2>1, <2>2
<1> QED
  BY <1>1, <1>2, <1>3

\* A root: all that is behind it in the list has been met, and so is in complete components.
LEMMA RootClass ==
  ASSUME TypeOK, StackInv, NumberInv, ClassInv, NEW I \in Inst, ReverseRoot(I)
  PROVE  ClassInv'
<1>1. /\ phase = "reverse" /\ stack = <<>> /\ I \notin used /\ pdg' = pdg /\ list' = list
      /\ sccNum' = sccNum /\ sccId' = sccId /\ Finished' = Finished /\ Finished = used
      /\ Len(stack') = 1 /\ stack'[1].inst = I /\ used' = used \cup {I}
      /\ \A x \in used : comp'[x] = comp[x] /\ comp[x] = sccId[x]
  BY RootEffect
<1>2. \A x \in used : sccId[x] < sccNum /\ sccId[x] \in Nat
  BY <1>1 DEF NumberInv, TypeOK
<1>3. Mutual' = Mutual /\ Depends' = Depends
  BY <1>1, MutualSame, DependsSame
<1>4. \A a \in 1..Len(stack') : stack'[a].inst = I
  <2>1. \A a \in 1..Len(stack') : a = 1
    BY <1>1
  <2> QED
    BY <1>1, <2>1
<1>5. \A a, b \in 1..Len(stack') : a <= b => <<stack'[b].inst, stack'[a].inst>> \in Depends'
  BY <1>3, <1>4, DependsOnItself
<1>6. \A x \in Finished' : sccId'[x] < sccNum' => Complete(x)'
  BY <1>1, <1>3 DEF ClassInv, Complete
<1>7. \A x \in used' : comp'[x] = sccNum' => <<x, stack'[1].inst>> \in Mutual'
  <2>1. \A x \in used : comp'[x] # sccNum
    <3> SUFFICES ASSUME NEW x \in used, comp'[x] = sccNum
                 PROVE  FALSE
      OBVIOUS
    <3>1. sccId[x] = sccNum /\ sccId[x] < sccNum /\ sccId[x] \in Nat
      BY <1>1, <1>2
    <3> QED
      BY <3>1
  <2> QED
    BY <1>1, <1>3, <2>1, MutualClass
<1>8. \E k \in 1..Len(list') :
           /\ list'[k] = stack'[1].inst
           /\ \A m \in k + 1..Len(list') : list'[m] \in Finished' /\ sccId'[list'[m]] < sccNum'
  <2>1. Len(list) \in Nat
    BY LenProperties DEF TypeOK
  <2>2. PICK k \in 1..Len(list) : I = list[k] /\ \A j \in Unmet : j <= k
    BY DEF ReverseRoot, IsRoot, Unmet
  <2>3. ASSUME NEW m \in k + 1..Len(list)
        PROVE  list[m] \in used
    <3>1. m \in 1..Len(list) /\ ~(m <= k)
      BY <2>1
    <3> QED
      BY <2>2, <3>1 DEF Unmet
  <2> QED
    BY <1>1, <1>2, <2>2, <2>3
<1> QED
  BY <1>5, <1>6, <1>7, <1>8 DEF ClassInv

\* An instruction that dfs_reverse meets for the first time is of the root's class: if
\* it did not depend on the root, one of its own class would be behind the root in
\* the list, and its component, which is complete, would have it.
LEMMA DescendClass ==
  ASSUME TypeOK, StackInv, ListInv, NumberInv, ClassInv,
         NEW next \in Inst, ReverseEdge(next), next \notin used
  PROVE  ClassInv'
<1>0. ReverseStep
  BY DEF ReverseStep
<1>1. /\ phase = "reverse" /\ stack # <<>> /\ stack' # <<>> /\ pdg' = pdg /\ list' = list
      /\ <<next, top.inst>> \in pdg /\ top.inst \in Active /\ top.inst \in Inst
      /\ top = stack[Len(stack)] /\ Len(stack) \in Nat \ {0}
      /\ sccNum' = sccNum /\ sccId' = sccId /\ Finished' = Finished
      /\ Len(stack') = Len(stack) + 1 /\ Visits(next) /\ stack'[Len(stack) + 1].inst = next
      /\ used' = used \cup {next} /\ \A x \in used : comp'[x] = comp[x]
  BY DescendEffect
<1>2. Mutual' = Mutual /\ Depends' = Depends
  BY <1>1, MutualSame, DependsSame
<1> DEFINE root == stack[1].inst
<1>3. 1 \in 1..Len(stack) /\ root \in Active /\ root \in Inst /\ Len(stack) \in 1..Len(stack)
  <2>1. 1 \in 1..Len(stack) /\ Len(stack) \in 1..Len(stack)
    BY <1>1
  <2>2. stack[1] \in Frame
    BY <2>1, ElementOfSeq DEF TypeOK
  <2> QED
    BY <2>1, <2>2 DEF Active, Frame
<1>4. stack'[1].inst = root
  BY <1>1, <1>3 DEF Visits
<1> HIDE DEF root
<1>5. <<next, top.inst>> \in Depends
  BY <1>1, DependsOnSucc
<1>6. ASSUME NEW a \in 1..Len(stack'), NEW b \in 1..Len(stack'), a <= b
      PROVE  <<stack'[b].inst, stack'[a].inst>> \in Depends'
  <2>1. b \in 1..Len(stack) \/ b = Len(stack) + 1
    BY <1>1
  <2>2. CASE b \in 1..Len(stack)
    <3>1. a \in 1..Len(stack)
      BY <1>1, <1>6, <2>2
    <3> QED
      BY <1>1, <1>2, <1>6, <2>2, <3>1 DEF ClassInv, Visits
  <2>3. CASE b = Len(stack) + 1 /\ a = Len(stack) + 1
    BY <1>1, <1>2, <2>3, DependsOnItself
  <2>4. CASE b = Len(stack) + 1 /\ a \in 1..Len(stack)
    <3>1. stack[a] \in Frame
      BY <2>4, ElementOfSeq DEF TypeOK
    <3>2. stack[a].inst \in Inst
      BY <3>1 DEF Frame
    <3>3. a <= Len(stack)
      BY <1>1, <2>4
    <3>4. <<top.inst, stack[a].inst>> \in Depends
      BY <1>1, <1>3, <2>4, <3>3 DEF ClassInv
    <3>5. <<next, stack[a].inst>> \in Depends
      BY <1>1, <1>5, <3>2, <3>4, DependsTransitive
    <3> QED
      BY <1>1, <1>2, <2>4, <3>5 DEF Visits
  <2>5. a \in 1..Len(stack) \/ a = Len(stack) + 1
    BY <1>1
  <2> QED
    BY <2>1, <2>2, <2>3, <2>4, <2>5
<1>7. \A x \in Finished' : sccId'[x] < sccNum' => Complete(x)'
  BY <1>1, <1>2 DEF ClassInv, Complete
<1>8. <<next, root>> \in Mutual
  <2>1. <<top.inst, root>> \in Mutual
    <3>1. comp[top.inst] = sccNum /\ top.inst \in used
      BY <1>1 DEF comp, StackInv
    <3> QED
      BY <1>1, <3>1 DEF ClassInv, root
  <2>2. <<next, root>> \in Depends
    BY <1>1, <1>3, <1>5, <2>1, MutualPair, DependsTransitive
  <2>3. PICK k \in 1..Len(list) :
             /\ list[k] = root
             /\ \A m \in k + 1..Len(list) : list[m] \in Finished /\ sccId[list[m]] < sccNum
    BY <1>1 DEF ClassInv, root
  <2>4. ASSUME <<root, next>> \notin Depends
        PROVE  FALSE
    <3>1. PICK m \in k + 1..Len(list) : <<next, list[m]>> \in Depends /\ <<list[m], next>> \in Depends
      BY <1>1, <2>2, <2>3, <2>4, LastOfClass
    <3>2. list[m] \in Finished /\ sccId[list[m]] < sccNum
      BY <2>3
    <3>3. list[m] \in Inst
      BY <3>2 DEF Finished, TypeOK
    <3>4. <<list[m], next>> \in Mutual
      BY <3>1, <3>3, MutualPair
    <3>5. next \in Finished
      BY <1>1, <3>2, <3>4 DEF ClassInv, Complete
    <3> QED
      BY <3>5 DEF Finished
  <2> QED
    BY <1>3, <2>2, <2>4, MutualPair
<1>9. \A x \in used' : comp'[x] = sccNum' => <<x, stack'[1].inst>> \in Mutual'
  BY <1>1, <1>2, <1>4, <1>8 DEF ClassInv, root
<1>10. \E k \in 1..Len(list') :
           /\ list'[k] = stack'[1].inst
           /\ \A m \in k + 1..Len(list') : list'[m] \in Finished' /\ sccId'[list'[m]] < sccNum'
  BY <1>0, <1>1, <1>4, RootKept DEF root
<1> QED
  BY <1>6, <1>7, <1>9, <1>10 DEF ClassInv

LEMMA VisitClass ==
  ASSUME TypeOK, StackInv, NumberInv, ClassInv, NEW next \in Inst, ReverseEdge(next), next \in used
  PROVE  ClassInv'
<1>0. ReverseStep
  BY DEF ReverseStep
<1>1. /\ phase = "reverse" /\ stack # <<>> /\ stack' # <<>> /\ pdg' = pdg /\ list' = list
      /\ Len(stack) \in Nat \ {0} /\ used' = used
      /\ sccNum' = sccNum /\ sccId' = sccId /\ Finished' = Finished
      /\ Len(stack') = Len(stack) /\ Visits(next) /\ comp' = comp
  BY VisitEffect
<1>2. Mutual' = Mutual /\ Depends' = Depends
  BY <1>1, MutualSame, DependsSame
<1>3. stack'[1].inst = stack[1].inst
  <2>1. 1 \in 1..Len(stack)
    BY <1>1
  <2> QED
    BY <1>1, <2>1 DEF Visits
<1>4. \A a, b \in 1..Len(stack') : a <= b => <<stack'[b].inst, stack'[a].inst>> \in Depends'
  BY <1>1, <1>2 DEF ClassInv, Visits
<1>5. \A x \in Finished' : sccId'[x] < sccNum' => Complete(x)'
  BY <1>1, <1>2 DEF ClassInv, Complete
<1>6. \A x \in used' : comp'[x] = sccNum' => <<x, stack'[1].inst>> \in Mutual'
  BY <1>1, <1>2, <1>3 DEF ClassInv
<1>7. \E k \in 1..Len(list') :
           /\ list'[k] = stack'[1].inst
           /\ \A m \in k + 1..Len(list') : list'[m] \in Finished' /\ sccId'[list'[m]] < sccNum'
  BY <1>0, <1>1, <1>3, RootKept
<1> QED
  BY <1>4, <1>5, <1>6, <1>7 DEF ClassInv

\* A component that was complete is so after a return.
LEMMA CompleteKept ==
  ASSUME TypeOK, StackInv, NumberInv, ClassInv, ReverseReturn,
         NEW x \in Finished', sccId'[x] # sccNum
  PROVE  Complete(x)'
<1>1. /\ phase = "reverse" /\ pdg' = pdg /\ top.inst \in Inst /\ top.inst \notin Finished
      /\ Finished' = Finished \cup {top.inst}
      /\ \A y \in Inst : sccId'[y] = IF y = top.inst THEN sccNum ELSE sccId[y]
  BY ReturnEffect
<1>2. x \in Finished /\ x # top.inst /\ x \in Inst
  BY <1>1 DEF Finished, TypeOK
<1>3. sccId[x] < sccNum
  <2>1. sccId[x] # sccNum /\ sccId[x] <= sccNum /\ sccId[x] \in Nat /\ sccNum \in Nat
    BY <1>1, <1>2 DEF NumberInv, TypeOK
  <2> QED
    BY <2>1
<1>4. Complete(x) /\ Mutual' = Mutual
  BY <1>1, <1>2, <1>3, MutualSame DEF ClassInv
<1> QED
  BY <1>1, <1>2, <1>4 DEF Complete

\* When the root's call returns nothing that depends on the class is left to be met.
LEMMA ClassFull ==
  ASSUME TypeOK, StackInv, NumberInv, DagInv, ClassInv, ReverseReturn, Len(stack) = 1,
         NEW x \in used, comp[x] = sccNum
  PROVE  \A y \in Inst : <<x, y>> \in Mutual <=> y \in used /\ comp[y] = sccNum
<1>1. /\ phase = "reverse" /\ stack # <<>> /\ top.todo = {} /\ top = stack[1]
      /\ top.inst \in Active /\ top.inst \in Inst
  BY ReturnEffect
<1>2. Active = {top.inst}
  <2>1. \A a \in 1..Len(stack) : a = 1
    OBVIOUS
  <2> QED
    BY <1>1, <2>1 DEF Active
<1>3. used \subseteq Inst /\ sccNum \in Nat /\ comp \in [Inst -> Nat]
  BY CompType DEF TypeOK
<1>4. ASSUME NEW y \in used, comp[y] = sccNum
      PROVE  <<x, y>> \in Mutual
  <2>1. <<x, top.inst>> \in Mutual /\ <<y, top.inst>> \in Mutual
    BY <1>1, <1>4 DEF ClassInv
  <2> QED
    BY <1>1, <1>3, <2>1, MutualClass
<1>5. Closed(Inst \ used)
  <2> SUFFICES ASSUME NEW e \in pdg, e[1] \in Inst \ used
               PROVE  e[2] \in Inst \ used
    BY DEF Closed
  <2>1. e[2] \in Inst
    BY EdgePair
  <2>2. ASSUME e[2] \in used
        PROVE  FALSE
    <3>1. e[2] \in Finished \/ e[2] = top.inst
      BY <1>2, <2>2 DEF Finished
    <3>2. 1 \in 1..Len(stack)
      OBVIOUS
    <3>3. e \in Known
      BY <1>1, <3>1, <3>2 DEF DagInv
    <3> QED
      BY <3>3 DEF Known
  <2> QED
    BY <2>1, <2>2
<1>6. ASSUME NEW y \in Inst, <<x, y>> \in Mutual
      PROVE  y \in used /\ comp[y] = sccNum
  <2>1. x \in Inst /\ <<y, x>> \in Depends /\ <<y, x>> \in Mutual
    BY <1>3, <1>6, MutualPair
  <2>2. y \in used
    <3> DEFINE S == Inst \ used
    <3>1. S \in SUBSET Inst /\ Closed(S)
      BY <1>5
    <3>2. y \in S => x \in S
      <4> HIDE DEF S
      <4> QED
        BY <2>1, <3>1, ClosedSets
    <3> QED
      BY <3>2
  <2>3. ASSUME comp[y] # sccNum
        PROVE  FALSE
    <3>1. y \in Finished /\ comp[y] = sccId[y]
      BY <2>2, <2>3 DEF comp, Finished
    <3>2. sccId[y] < sccNum
      <4>1. sccId[y] <= sccNum /\ sccId[y] # sccNum /\ sccId[y] \in Nat
        BY <1>1, <2>3, <3>1 DEF NumberInv, TypeOK
      <4> QED
        BY <1>3, <4>1
    <3>3. x \in Finished /\ sccId[x] = sccId[y]
      BY <1>1, <2>1, <3>1, <3>2 DEF ClassInv, Complete
    <3>4. comp[x] = sccId[x]
      BY <2>1, <3>3 DEF comp, Finished
    <3> QED
      BY <2>3, <3>1, <3>3, <3>4
  <2> QED
    BY <2>2, <2>3
<1> QED
  BY <1>4, <1>6

LEMMA ReturnClass ==
  ASSUME TypeOK, StackInv, NumberInv, DagInv, ClassInv, ReverseReturn
  PROVE  ClassInv'
<1>0. ReverseStep
  BY DEF ReverseStep
<1>1. /\ phase = "reverse" /\ stack # <<>> /\ pdg' = pdg /\ list' = list /\ used' = used
      /\ top.inst \in Active /\ top.inst \in Inst
      /\ \A a \in 1..Len(stack') : a \in 1..Len(stack) /\ stack'[a] = stack[a]
      /\ Active' = Active \ {top.inst} /\ Finished' = Finished \cup {top.inst}
      /\ \A x \in used : comp'[x] = comp[x]
  BY ReturnEffect
<1>2. \/ Len(stack) = 1 /\ stack' = <<>> /\ sccNum' = sccNum + 1
      \/ Len(stack) # 1 /\ stack' # <<>> /\ sccNum' = sccNum
  BY ReturnEffect
<1>3. Mutual' = Mutual /\ Depends' = Depends
  BY <1>1, MutualSame, DependsSame
<1>4. \A a, b \in 1..Len(stack') : a <= b => <<stack'[b].inst, stack'[a].inst>> \in Depends'
  BY <1>1, <1>3 DEF ClassInv
<1>5. sccNum \in Nat /\ Finished' \subseteq used /\ used \subseteq Inst /\ sccId' \in [Inst -> Nat]
  <2>1. TypeOK'
    BY NextTypeOK DEF Next
  <2>2. sccId' \in [Inst -> Nat]
    BY <2>1 DEF TypeOK
  <2> QED
    BY <1>1, <2>2 DEF TypeOK, Finished, StackInv
<1>6. ASSUME NEW x \in Finished', sccId'[x] < sccNum'
      PROVE  Complete(x)'
  <2>1. CASE sccId'[x] # sccNum
    BY <2>1, CompleteKept
  <2>2. CASE sccId'[x] = sccNum
    <3>1. Len(stack) = 1 /\ stack' = <<>>
      BY <1>2, <1>5, <1>6, <2>2
    <3>2. Active' = {}
      BY <3>1 DEF Active
    <3>3. Finished' = used
      BY <1>1, <3>2 DEF Finished
    <3>4. \A y \in used : comp'[y] = sccId'[y] /\ comp'[y] = comp[y]
      BY <1>1, <1>5, <3>2 DEF comp
    <3>5. x \in used /\ comp[x] = sccNum
      BY <1>5, <2>2, <3>4
    <3>6. \A y \in Inst : <<x, y>> \in Mutual <=> y \in used /\ comp[y] = sccNum
      BY <3>1, <3>5, ClassFull
    <3> QED
      BY <1>3, <2>2, <3>3, <3>4, <3>6 DEF Complete
  <2> QED
    BY <2>1, <2>2
<1>7. CASE stack' = <<>>
  BY <1>4, <1>6, <1>7 DEF ClassInv
<1>8. CASE stack' # <<>> /\ sccNum' = sccNum
  <2>1. stack'[1].inst = stack[1].inst
    <3>1. stack' \in Seq(Frame)
      BY <1>1, ReturnStep DEF ReverseReturn, TypeOK, StackInv
    <3>2. 1 \in 1..Len(stack')
      BY <1>8, <3>1, EmptySeq
    <3> QED
      BY <1>1, <3>2
  <2>2. \A x \in used' : comp'[x] = sccNum' => <<x, stack'[1].inst>> \in Mutual'
    BY <1>1, <1>3, <1>8, <2>1 DEF ClassInv
  <2>3. \E k \in 1..Len(list') :
           /\ list'[k] = stack'[1].inst
           /\ \A m \in k + 1..Len(list') : list'[m] \in Finished' /\ sccId'[list'[m]] < sccNum'
    BY <1>0, <1>1, <1>8, <2>1, RootKept
  <2> QED
    BY <1>4, <1>6, <2>2, <2>3 DEF ClassInv
<1> QED
  BY <1>2, <1>7, <1>8

LEMMA NextClassInv ==
  TypeOK /\ StackInv /\ ForwardInv /\ ListInv /\ NumberInv /\ DagInv /\ ClassInv /\ [Next]_vars
    => ClassInv'
<1> SUFFICES ASSUME TypeOK, StackInv, ForwardInv, ListInv, NumberInv, DagInv, ClassInv, [Next]_vars,
                    phase' # "forward"
             PROVE  ClassInv'
  BY DEF ClassInv
<1>1. CASE ReverseStep
  BY <1>1, RootClass, DescendClass, VisitClass, ReturnClass DEF ReverseStep
<1>2. CASE phase # "forward" /\ UNCHANGED <<pdg, list, used, stack, sccNum, sccId, InstInSCC, dag>>
  <2>1. Finished' = Finished /\ comp' = comp /\ Mutual' = Mutual /\ Depends' = Depends
    BY <1>2, MutualSame, DependsSame DEF Finished, Active, comp
  <2>2. \A x \in Finished : Complete(x)' <=> Complete(x)
    BY <1>2, <2>1 DEF Complete
  <2> QED
    BY <1>2, <2>1, <2>2 DEF ClassInv
<1>3. CASE ForwardEnd
  <2>1. Finished' = {} /\ stack' = <<>>
    BY <1>3, ReverseBegins
  <2>2. Len(stack') = 0
    BY <2>1
  <2> QED
    BY <2>1, <2>2 DEF ClassInv
<1> QED
  BY <1>1, <1>2, <1>3, ReverseKinds
-----------------------------------------------------------------------------
(* The invariant *)

IInv == TypeOK /\ StackInv /\ ForwardInv /\ ListInv /\ NumberInv /\ DagInv /\ ClassInv

LEMMA InitIInv == Init => IInv
<1> SUFFICES ASSUME Init
             PROVE  IInv
  OBVIOUS
<1>1. /\ phase = "forward" /\ used = {} /\ list = <<>> /\ stack = <<>> /\ InstInSCC = <<>>
      /\ sccNum = 0 /\ sccId = [I \in Inst |-> 0] /\ dag = {}
  BY DEF Init
<1>2. Len(list) = 0 /\ Len(stack) = 0
  BY <1>1
<1>3. 1..Len(list) = {} /\ 1..Len(stack) = {}
  BY <1>2
<1>4. Left = {} /\ Active = {}
  BY <1>3 DEF Left, Active
<1>5. StackInv
  BY <1>1, <1>3, <1>4 DEF StackInv, OneCall
<1>6. ForwardInv
  BY <1>1, <1>3, <1>4 DEF ForwardInv
<1>7. ListInv
  BY <1>1, <1>3 DEF ListInv
<1>8. NumberInv /\ DagInv /\ ClassInv
  BY <1>1 DEF NumberInv, DagInv, ClassInv
<1> QED
  BY <1>5, <1>6, <1>7, <1>8, InitTypeOK DEF IInv

LEMMA NextIInv == IInv /\ [Next]_vars => IInv'
BY NextTypeOK, NextStackInv, NextForwardInv, NextListInv, NextNumberInv, NextDagInv, NextClassInv
   DEF IInv

LEMMA Inductive == Spec => []IInv
BY InitIInv, NextIInv, PTL DEF Spec

LEMMA DependsReaches == \A x, y \in Inst : <<x, y>> \in Depends <=> Reaches(x, y)
BY DEF Depends

\* The instructions in complete components.
LEMMA PlacedFinished ==
  ASSUME TypeOK, NumberInv, phase # "forward"
  PROVE  \A x : x \in Placed <=> x \in Finished /\ sccId[x] < sccNum
<1>1. /\ sccNum \in Nat /\ \A x \in Finished : x \in Inst /\ sccId[x] \in Nat
      /\ \A k \in 1..sccNum : k \in 1..Len(InstInSCC)
  BY DEF TypeOK, Finished
<1>2. ASSUME NEW x \in Placed
      PROVE  x \in Finished /\ sccId[x] < sccNum
  <2>1. PICK k \in 1..sccNum : x \in InstInSCC[k]
    BY DEF Placed
  <2>2. x \in Finished /\ sccId[x] = k - 1
    BY <1>1, <2>1 DEF NumberInv
  <2> QED
    BY <1>1, <2>2
<1>3. ASSUME NEW x \in Finished, sccId[x] < sccNum
      PROVE  x \in Placed
  <2>1. x \in InstInSCC[sccId[x] + 1]
    BY DEF NumberInv
  <2>2. sccId[x] + 1 \in 1..sccNum
    BY <1>1, <1>3
  <2> QED
    BY <2>1, <2>2 DEF Placed
<1> QED
  BY <1>2, <1>3

LEMMA OrderFinishes == IInv => FinishOrder
<1> SUFFICES ASSUME IInv, phase # "forward"
             PROVE  FinishOrder
  BY DEF FinishOrder
<1>1. TypeOK /\ ListInv
  BY DEF IInv
<1>2. DOMAIN list = 1..Len(list) /\ \A k \in 1..Len(list) : list[k] \in Inst
  BY <1>1, LenProperties, ElementOfSeq DEF TypeOK
<1>3. SUFFICES ASSUME NEW k \in 1..Len(list), NEW I \in Inst,
                      Reaches(I, list[k]), ~Reaches(list[k], I)
               PROVE  \E m \in k + 1..Len(list) : Reaches(I, list[m]) /\ Reaches(list[m], I)
  BY <1>2 DEF FinishOrder
<1>4. <<I, list[k]>> \in Depends /\ <<list[k], I>> \notin Depends
  BY <1>2, <1>3, DependsReaches
<1>5. PICK m \in k + 1..Len(list) : <<I, list[m]>> \in Depends /\ <<list[m], I>> \in Depends
  BY <1>1, <1>4, LastOfClass
<1> QED
  BY <1>5 DEF Depends

LEMMA ClassesRight == IInv => SccCorrect
<1> SUFFICES ASSUME IInv
             PROVE  SccCorrect
  OBVIOUS
<1>0. TypeOK /\ ForwardInv /\ NumberInv /\ ClassInv
  BY DEF IInv
<1>1. CASE phase = "forward"
  <2>1. sccNum = 0
    BY <1>0, <1>1 DEF ForwardInv
  <2>2. Placed = {}
    BY <2>1 DEF Placed
  <2> QED
    BY <2>2 DEF SccCorrect
<1>2. CASE phase # "forward"
  <2>1. \A x : x \in Placed <=> x \in Finished /\ sccId[x] < sccNum
    BY <1>0, <1>2, PlacedFinished
  <2>2. Finished \subseteq Inst
    BY <1>0 DEF TypeOK, Finished
  <2>3. ASSUME NEW I \in Placed, NEW J \in Inst
        PROVE  Reaches(I, J) /\ Reaches(J, I) <=> J \in Placed /\ sccId[I] = sccId[J]
    <3>1. I \in Inst /\ Complete(I)
      BY <1>0, <1>2, <2>1, <2>2 DEF ClassInv
    <3>2. <<I, J>> \in Mutual <=> J \in Finished /\ sccId[J] = sccId[I]
      BY <3>1 DEF Complete
    <3>3. <<I, J>> \in Mutual <=> Reaches(I, J) /\ Reaches(J, I)
      BY <3>1, MutualPair, DependsReaches
    <3> QED
      BY <2>1, <3>2, <3>3
  <2>4. \A I \in Placed : I \in InstInSCC[sccId[I] + 1]
    BY <1>0, <1>2, <2>1 DEF NumberInv
  <2> QED
    BY <2>3, <2>4 DEF SccCorrect
<1> QED
  BY <1>1, <1>2

LEMMA EdgesForward == IInv => DagForward
BY DEF IInv, ForwardInv, DagInv, DagForward

LEMMA DagRight == IInv => DagMatches
<1> SUFFICES ASSUME IInv, phase = "done"
             PROVE  DagMatches
  BY DEF DagMatches
<1> DEFINE Between == {<<sccId[e[1]], sccId[e[2]]>> : e \in {f \in pdg : sccId[f[1]] # sccId[f[2]]}}
<1>0. TypeOK /\ StackInv /\ ListInv /\ DagInv
  BY DEF IInv
<1>1. stack = <<>> /\ \A i \in 1..Len(list) : list[i] \in used
  BY <1>0 DEF StackInv, Unmet
<1>2. Active = {}
  <2>1. Len(stack) = 0
    BY <1>1
  <2> QED
    BY <2>1 DEF Active
<1>3. Finished = Inst /\ used = Inst
  <2>1. Left = Inst /\ used \subseteq Inst
    BY <1>0 DEF ListInv, TypeOK
  <2>2. Left \subseteq used
    BY <1>1 DEF Left
  <2> QED
    BY <1>2, <2>1, <2>2 DEF Finished
<1>4. \A x \in Inst : comp[x] = sccId[x]
  BY <1>2 DEF comp
<1>5. \A e \in pdg : e[1] \in Inst /\ e[2] \in Inst
  BY <1>0, EdgePair
<1>6. Between \subseteq dag
  <2> SUFFICES ASSUME NEW e \in pdg, sccId[e[1]] # sccId[e[2]]
               PROVE  <<sccId[e[1]], sccId[e[2]]>> \in dag
    OBVIOUS
  <2>1. e \in Known
    BY <1>0, <1>3, <1>5 DEF DagInv
  <2> QED
    BY <1>4, <1>5, <2>1 DEF Known
<1>7. ASSUME NEW d \in dag, d \notin Between
      PROVE  d[1] = 0
  <2>1. d \in Founded /\ d[1] # d[2]
    BY <1>0 DEF DagInv, TypeOK
  <2>2. ASSUME NEW e \in pdg, d = <<comp[e[1]], comp[e[2]]>>
        PROVE  FALSE
    <3>1. d = <<sccId[e[1]], sccId[e[2]]>>
      BY <1>4, <1>5, <2>2
    <3>2. sccId[e[1]] # sccId[e[2]]
      BY <2>1, <3>1
    <3> QED
      BY <1>7, <3>1, <3>2
  <2> QED
    BY <2>1, <2>2 DEF Founded
<1> HIDE DEF Between
<1>8. Between \subseteq dag /\ \A d \in dag \ Between : d[1] = 0
  BY <1>6, <1>7
<1> QED
  BY <1>8 DEF Between, DagMatches
-----------------------------------------------------------------------------
(* The theorems *)

\* Every variable of findSCC keeps its type on any graph, and InstInSCC has a set for
\* every component begun: InstInSCC[sccNum] is never out of bounds.
THEOREM TypeCorrect == Spec => []TypeOK
BY Inductive, PTL DEF IInv

\* dfs_forward leaves, after everything that depends on a class of instructions, one
\* more of the class; this is the order that dfs_reverse relies on.
THEOREM ListedLast == Spec => []FinishOrder
BY Inductive, OrderFinishes, PTL

\* The components dfs_reverse has completed are exactly classes of mutual dependence.
THEOREM ClassesFound == Spec => []SccCorrect
BY Inductive, ClassesRight, PTL

\* The edges dfs_reverse adds lead to higher numbers, so that the DAG has no cycle,
\* though sccId is read while the search goes on.
THEOREM DagAcyclic == Spec => []DagForward
BY Inductive, EdgesForward, PTL

\* When findSCC returns, every dependence between components is in the DAG, and an
\* edge of no dependence leads from component 0.
THEOREM DagFaithful == Spec => []DagMatches
BY Inductive, DagRight, PTL
=============================================================================
