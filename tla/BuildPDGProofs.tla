--------------------------- MODULE BuildPDGProofs ---------------------------
(* Proofs about buildPDG, modules DataDependence and ControlDependence, for   *)
(* every program: addEdge keeps the three tables of the dependence graph      *)
(* together, its edges order the accesses to memory by chains, and the walks  *)
(* in the peeled loop find the control dependences.                           *)
EXTENDS ControlDependence, LoopCFGProofs, SequenceTheorems

IsSeq(s) == \E S : s \in Seq(S)

\* What addEdge appends to are sequences, of whatever LLVM says depends on what.
SeqInv ==
  /\ IsSeq(allEdges)
  /\ \A i \in DOMAIN pdg : IsSeq(pdg[i])
  /\ \A i \in DOMAIN rev : IsSeq(rev[i])

TableInv == SeqInv /\ TablesAgree
-----------------------------------------------------------------------------
(* Sequences and maps *)

\* push_back adds one element, and no duplicate if it was not there.
LEMMA Appended ==
  ASSUME NEW s, IsSeq(s), NEW e
  PROVE  /\ IsSeq(Append(s, e))
         /\ Range(Append(s, e)) = Range(s) \cup {e}
         /\ IsInjective(s) /\ e \notin Range(s) => IsInjective(Append(s, e))
<1>1. PICK S : s \in Seq(S)
  BY DEF IsSeq
<1>2. s \in Seq(S \cup {e})
  BY <1>1
<1>3. Append(s, e) \in Seq(S \cup {e})
  BY <1>2
<1>4. DOMAIN s = 1..Len(s) /\ Len(s) \in Nat /\ DOMAIN Append(s, e) = 1..Len(s) + 1
  BY <1>2
<1>5. \A i \in 1..Len(s) : Append(s, e)[i] = s[i]
  BY <1>2
<1>6. Append(s, e)[Len(s) + 1] = e
  BY <1>2
<1>7. \A i \in 1..Len(s) + 1 : i \in 1..Len(s) \/ i = Len(s) + 1
  BY <1>4
<1>8. Range(Append(s, e)) = Range(s) \cup {e}
  BY <1>4, <1>5, <1>6, <1>7 DEF Range
<1>9. ASSUME IsInjective(s), e \notin Range(s)
      PROVE  IsInjective(Append(s, e))
  <2> SUFFICES ASSUME NEW a \in 1..Len(s) + 1, NEW b \in 1..Len(s) + 1,
                      Append(s, e)[a] = Append(s, e)[b]
               PROVE  a = b
    BY <1>4 DEF IsInjective
  <2>1. CASE a \in 1..Len(s) /\ b \in 1..Len(s)
    BY <2>1, <1>4, <1>5, <1>9 DEF IsInjective
  <2>2. CASE a = Len(s) + 1 /\ b = Len(s) + 1
    BY <2>2
  <2>3. CASE a \in 1..Len(s) /\ b = Len(s) + 1
    BY <2>3, <1>4, <1>5, <1>6, <1>9 DEF Range
  <2>4. CASE a = Len(s) + 1 /\ b \in 1..Len(s)
    BY <2>4, <1>4, <1>5, <1>6, <1>9 DEF Range
  <2> QED
    BY <2>1, <2>2, <2>3, <2>4, <1>7
<1> QED
  BY <1>3, <1>8, <1>9 DEF IsSeq

LEMMA Empty == IsSeq(<<>>) /\ Range(<<>>) = {} /\ IsInjective(<<>>)
<1>1. <<>> \in Seq({})
  OBVIOUS
<1>2. DOMAIN <<>> = {}
  OBVIOUS
<1> QED
  BY <1>1, <1>2 DEF IsSeq, Range, IsInjective

\* A table of edges by their u, before and after an edge is added to it.
Filed(map) ==
  /\ \A i \in DOMAIN map : IsSeq(map[i])
  /\ \A i \in DOMAIN map : IsInjective(map[i]) /\ \A edge \in Range(map[i]) : edge.u = i
All(map) == UNION {Range(map[i]) : i \in DOMAIN map}

LEMMA PushedFiled ==
  ASSUME NEW map, Filed(map), NEW edge, edge \notin All(map)
  PROVE  /\ Filed(PushBack(map, edge.u, edge))
         /\ All(PushBack(map, edge.u, edge)) = All(map) \cup {edge}
<1> DEFINE x == edge.u
           new == PushBack(map, x, edge)
<1>1. IsSeq(At(map, x)) /\ IsInjective(At(map, x)) /\ \A f \in Range(At(map, x)) : f.u = x
  BY Empty DEF At, Filed
<1>2. edge \notin Range(At(map, x))
  BY Empty DEF At, All
<1>3. DOMAIN new = DOMAIN map \cup {x} /\ new[x] = Append(At(map, x), edge)
      /\ \A y \in DOMAIN map : y # x => new[y] = map[y]
  BY DEF PushBack
<1>4. IsSeq(new[x]) /\ Range(new[x]) = Range(At(map, x)) \cup {edge} /\ IsInjective(new[x])
  BY <1>1, <1>2, <1>3, Appended
<1> HIDE DEF new
<1>5. Filed(new)
  <2>1. \A i \in DOMAIN new : i = x \/ (i \in DOMAIN map /\ new[i] = map[i])
    BY <1>3
  <2>2. \A f \in Range(new[x]) : f.u = x
    BY <1>1, <1>4 DEF x
  <2> QED
    BY <2>1, <2>2, <1>4 DEF Filed
<1>6. All(new) = All(map) \cup {edge}
  <2>1. ASSUME NEW f \in All(new) PROVE f \in All(map) \cup {edge}
    <3>1. PICK i \in DOMAIN new : f \in Range(new[i])
      BY <2>1 DEF All
    <3>2. CASE i = x
      <4>1. f \in Range(At(map, x)) \/ f = edge
        BY <3>1, <3>2, <1>4
      <4>2. Range(At(map, x)) \subseteq All(map)
        BY Empty DEF At, All
      <4> QED
        BY <4>1, <4>2
    <3>3. CASE i # x
      BY <3>1, <3>3, <1>3 DEF All
    <3> QED
      BY <3>2, <3>3
  <2>2. ASSUME NEW f \in All(map) PROVE f \in All(new)
    <3>1. PICK i \in DOMAIN map : f \in Range(map[i])
      BY <2>2 DEF All
    <3>2. i \in DOMAIN new
      BY <1>3
    <3>3. f \in Range(new[i])
      BY <3>1, <1>3, <1>4 DEF At
    <3> QED
      BY <3>2, <3>3 DEF All
  <2>3. edge \in All(new)
    BY <1>3, <1>4 DEF All
  <2> QED
    BY <2>1, <2>2, <2>3
<1> QED
  BY <1>5, <1>6 DEF new, x
-----------------------------------------------------------------------------
(* addEdge *)

Swapped(S) == {Edge(edge.v, edge.u, edge.dtype) : edge \in S}

\* The invariant by tables.
LEMMA ByTables ==
  TableInv <=> /\ Filed(pdg) /\ Filed(rev)
           /\ IsSeq(allEdges) /\ IsInjective(allEdges)
           /\ Range(allEdges) = All(pdg)
           /\ Range(allEdges) = Swapped(All(rev))
BY DEF TableInv, SeqInv, TablesAgree, Filed, All, Swapped

LEMMA ByTablesNext ==
  TableInv' <=> /\ Filed(pdg') /\ Filed(rev')
            /\ IsSeq(allEdges') /\ IsInjective(allEdges')
            /\ Range(allEdges') = All(pdg')
            /\ Range(allEdges') = Swapped(All(rev'))
BY DEF TableInv, SeqInv, TablesAgree, Filed, All, Swapped

\* An edge that is not among those of its u is nowhere, in neither direction.
LEMMA AddEdgeKeeps ==
  ASSUME TableInv, NEW u, NEW v, NEW dtype, addEdge(u, v, dtype)
  PROVE  TableInv' /\ Range(allEdges') = Range(allEdges) \cup {Edge(u, v, dtype)}
<1> DEFINE f == Edge(u, v, dtype)
           r == Edge(v, u, dtype)
<1>0. f.u = u /\ f.v = v /\ f.dtype = dtype /\ r.u = v /\ r.v = u /\ r.dtype = dtype
  BY DEF Edge
<1>1. CASE f \in Range(At(pdg, u))
  <2>1. pdg' = pdg /\ rev' = rev /\ allEdges' = allEdges
    BY <1>1 DEF addEdge, graph
  <2>2. f \in Range(allEdges)
    <3>1. u \in DOMAIN pdg
      BY <1>1, Empty DEF At
    <3>2. f \in All(pdg)
      BY <1>1, <3>1 DEF At, All
    <3> QED
      BY <3>2, ByTables
  <2>3. TableInv'
    BY <2>1, ByTables, ByTablesNext
  <2> QED
    BY <2>1, <2>2, <2>3
<1>2. CASE f \notin Range(At(pdg, u))
  <2>1. pdg' = PushBack(pdg, u, f) /\ rev' = PushBack(rev, v, r) /\ allEdges' = Append(allEdges, f)
    BY <1>2 DEF addEdge
  <2>2. f \notin All(pdg)
    BY <1>0, <1>2, ByTables DEF All, At, Filed
  <2>3. f \notin Range(allEdges)
    BY <2>2, ByTables
  <2>4. r \notin All(rev)
    <3>1. r \in All(rev) => Edge(r.v, r.u, r.dtype) \in Swapped(All(rev))
      BY DEF Swapped
    <3> QED
      BY <3>1, <1>0, <2>3, ByTables
  <2> HIDE DEF f, r
  <2>5. Filed(pdg') /\ All(pdg') = All(pdg) \cup {f}
    BY <2>1, <2>2, <1>0, PushedFiled, ByTables
  <2>6. Filed(rev') /\ All(rev') = All(rev) \cup {r}
    BY <2>1, <2>4, <1>0, PushedFiled, ByTables
  <2>7. IsSeq(allEdges') /\ IsInjective(allEdges') /\ Range(allEdges') = Range(allEdges) \cup {f}
    BY <2>1, <2>3, Appended, ByTables
  <2>8. Swapped(All(rev')) = Swapped(All(rev)) \cup {f}
    <3>1. Edge(r.v, r.u, r.dtype) = f
      BY <1>0 DEF f
    <3> QED
      BY <3>1, <2>6 DEF Swapped
  <2>9. TableInv'
    BY <2>5, <2>6, <2>7, <2>8, ByTables, ByTablesNext
  <2> QED
    BY <2>7, <2>9 DEF f
<1> QED
  BY <1>1, <1>2

LEMMA UnchangedKeeps ==
  ASSUME TableInv, UNCHANGED graph
  PROVE  TableInv'
BY ByTables, ByTablesNext DEF graph
-----------------------------------------------------------------------------
LEMMA InitTableInv == Init => TableInv
<1> SUFFICES ASSUME Init PROVE TableInv
  OBVIOUS
<1>1. /\ \A i \in DOMAIN pdg : pdg[i] = <<>>
      /\ \A i \in DOMAIN rev : rev[i] = <<>>
      /\ allEdges = <<>>
  BY DEF Init
<1>2. Filed(pdg) /\ Filed(rev) /\ All(pdg) = {} /\ All(rev) = {}
  BY <1>1, Empty DEF Filed, All
<1>3. Swapped(All(rev)) = {}
  BY <1>2 DEF Swapped
<1> QED
  BY <1>1, <1>2, <1>3, Empty, ByTables

\* The graph changes by addEdge only; control edges come later.
LEMMA DataEdges ==
  ASSUME Data
  PROVE  /\ UNCHANGED graph \/ \E u, v, dtype : addEdge(u, v, dtype) /\ dtype # "CONTROL"
         /\ phase # "done"
<1> DEFINE Goal == /\ UNCHANGED graph \/ \E u, v, dtype : addEdge(u, v, dtype) /\ dtype # "CONTROL"
                   /\ phase # "done"
<1>1. CASE AddUse
  BY <1>1 DEF AddUse
<1>2. CASE LocalDependence
  <2>1. phase = "uses"
    BY <1>2 DEF LocalDependence, UsesDone
  <2>2. PICK dep : IF ~isDef(inst, dep) THEN addEdge(dep, inst, "DANTI")
                   ELSE IF DefType(inst, dep) = "none" THEN UNCHANGED graph
                   ELSE addEdge(dep, inst, DefType(inst, dep))
    BY <1>2 DEF LocalDependence
  <2>3. DefType(inst, dep) # "CONTROL"
    BY DEF DefType
  <2> QED
    BY <2>1, <2>2, <2>3
<1>3. ASSUME NEW dep \in res, AddNonLocal(dep) PROVE Goal
  BY <1>3 DEF AddNonLocal
<1>4. CASE NoMemory \/ AskNonLocal \/ EndNonLocal
  BY <1>4 DEF NoMemory, AskNonLocal, EndNonLocal, UsesDone
<1> QED
  BY <1>1, <1>2, <1>3, <1>4 DEF Data

LEMMA DataTableInv == TableInv /\ Data => TableInv'
BY DataEdges, AddEdgeKeeps, UnchangedKeeps

\* pdg, rev and allEdges tell of the same edges and of each once, whatever the use
\* lists and the analyses of LLVM say (DSWP_0.cpp:180-190).
THEOREM DataTablesAgree == Spec => []TablesAgree
<1>1. TableInv => TablesAgree
  BY DEF TableInv
<1>2. TableInv /\ [Next]_vars => TableInv'
  <2>1. UNCHANGED vars => UNCHANGED graph
    BY DEF vars
  <2> QED
    BY <2>1, DataTableInv, UnchangedKeeps DEF Next
<1> QED
  BY <1>1, <1>2, InitTableInv, PTL DEF Spec
-----------------------------------------------------------------------------
(* The instructions in the order they are visited *)

LEMMA ProgramFacts ==
  ASSUME IsProgram(prog)
  PROVE  /\ Instr \subseteq Block \X (Nat \ {0})
         /\ \A b \in Block : prog.insts[b] \in Seq([kind : Kind, loc : SUBSET Location])
         /\ prog.insts[predecessor] \in Seq([kind : Kind, loc : SUBSET Location])
         /\ \A b \in Block : \A m \in 1..Len(prog.insts[b]) : <<b, m>> \in Instr
         /\ \A a \in Instr : /\ a = <<a[1], a[2]>> /\ a[1] \in Block
                             /\ a[2] \in 1..Len(prog.insts[a[1]]) /\ prog.users[a] \in Seq(Instr \cup {outside})
<1>1. /\ DOMAIN prog.insts = Block \cup {predecessor} /\ DOMAIN prog.users = Instr
      /\ \A b \in DOMAIN prog.insts : prog.insts[b] \in Seq([kind : Kind, loc : SUBSET Location])
      /\ \A a \in DOMAIN prog.users : prog.users[a] \in Seq(Instr \cup {outside})
  BY DEF IsProgram, Instr
<1>2. \A b \in DOMAIN prog.insts : DOMAIN prog.insts[b] = 1..Len(prog.insts[b]) /\ Len(prog.insts[b]) \in Nat
  BY <1>1
<1>3. \A a : a \in Instr <=> \E b \in Block : a \in {b} \X DOMAIN prog.insts[b]
  BY DEF Instr, InstrsOf
<1>4. ASSUME NEW a \in Instr
      PROVE  a = <<a[1], a[2]>> /\ a[1] \in Block /\ a[2] \in 1..Len(prog.insts[a[1]]) /\ a[2] \in Nat \ {0}
  <2>1. PICK b \in Block : a \in {b} \X DOMAIN prog.insts[b]
    BY <1>3
  <2>2. a[1] = b /\ a[2] \in 1..Len(prog.insts[b]) /\ a = <<a[1], a[2]>> /\ Len(prog.insts[b]) \in Nat
    BY <1>1, <1>2, <2>1
  <2> QED
    BY <2>2
<1>5. ASSUME NEW b \in Block, NEW m \in 1..Len(prog.insts[b]) PROVE <<b, m>> \in Instr
  BY <1>1, <1>2, <1>3
<1>6. Instr \subseteq Block \X (Nat \ {0})
  BY <1>4
<1> QED
  BY <1>1, <1>4, <1>5, <1>6

LEMMA OrderFacts ==
  ASSUME IsProgram(prog)
  PROVE  Order \in Seq(Instr) /\ Len(Order) \in Nat /\ Len(Order) >= 1
<1> DEFINE s == [b \in 1..NumBlock |-> [m \in DOMAIN prog.insts[b - 1] |-> <<b - 1, m>>]]
<1>1. NumBlock \in Nat \ {0}
  BY LoopAssumption
<1>2. ASSUME NEW b \in 1..NumBlock
      PROVE  s[b] \in Seq(Instr) /\ Len(s[b]) = Len(prog.insts[b - 1])
  <2>1. b - 1 \in Block
    BY <1>1 DEF Block
  <2> DEFINE B == b - 1
             t == [m \in DOMAIN prog.insts[B] |-> <<B, m>>]
  <2>2. prog.insts[B] \in Seq([kind : Kind, loc : SUBSET Location])
    BY <2>1, ProgramFacts
  <2>3. DOMAIN prog.insts[B] = 1..Len(prog.insts[B]) /\ Len(prog.insts[B]) \in Nat
    BY <2>2
  <2>4. \A m \in 1..Len(prog.insts[B]) : <<B, m>> \in Instr
    BY <2>1, ProgramFacts
  <2>5. t \in [1..Len(prog.insts[B]) -> Instr]
    BY <2>3, <2>4
  <2>6. t \in Seq(Instr) /\ Len(t) = Len(prog.insts[B])
    <3> HIDE DEF t, B
    <3> QED
      BY <2>3, <2>5
  <2>7. s[b] = t
    OBVIOUS
  <2> HIDE DEF s, t
  <2> QED
    BY <2>6, <2>7 DEF B
<1>3. s \in [1..NumBlock -> Seq(Instr)]
  BY <1>2
<1>4. Order = FlattenSeq(s)
  BY DEF Order
<1>5. Len(s[1]) >= 1
  <2>1. 1 \in 1..NumBlock /\ 1 - 1 = header /\ header \in Block
    BY <1>1 DEF header, Block
  <2>2. Len(s[1]) = Len(prog.insts[header])
    <3> HIDE DEF s
    <3> QED
      BY <1>2, <2>1
  <2>3. prog.insts[header] \in Seq([kind : Kind, loc : SUBSET Location]) /\ prog.insts[header] # <<>>
    BY <2>1, ProgramFacts DEF IsProgram
  <2>4. Len(prog.insts[header]) >= 1
    BY <2>3
  <2> QED
    BY <2>2, <2>4
<1> HIDE DEF s
<1>6. FlattenSeq(s) \in Seq(Instr) /\ Len(FlattenSeq(s)) >= Len(s[1])
  BY <1>1, <1>3, Flattened
<1>7. Len(s[1]) \in Nat /\ Len(FlattenSeq(s)) \in Nat
  <2>1. 1 \in 1..NumBlock
    BY <1>1
  <2> QED
    BY <1>3, <1>6, <2>1
<1> QED
  BY <1>4, <1>5, <1>6, <1>7
-----------------------------------------------------------------------------
(* Types of the first half *)

GraphOK ==
  /\ pdg \in [Instr -> Seq(EdgeSet)] /\ rev \in [Instr -> Seq(EdgeSet)]
  /\ allEdges \in Seq(EdgeSet)

\* The loop over the blocks is at an instruction of theirs.
DataInv ==
  /\ TypeOK /\ prog \in Programs
  /\ phase \in {"uses", "nonlocal"} => k \in 1..Len(Order)

LEMMA PushedTypes ==
  ASSUME NEW I, NEW T, NEW map \in [I -> Seq(T)], NEW u \in I, NEW edge \in T
  PROVE  PushBack(map, u, edge) \in [I -> Seq(T)]
<1>1. At(map, u) \in Seq(T)
  BY DEF At
<1>2. Append(At(map, u), edge) \in Seq(T)
  BY <1>1
<1>3. DOMAIN map \cup {u} = I
  OBVIOUS
<1> QED
  BY <1>2, <1>3 DEF PushBack

LEMMA AddEdgeTypes ==
  ASSUME GraphOK, NEW u \in Instr, NEW v \in Instr, NEW dtype \in DType, addEdge(u, v, dtype), prog' = prog
  PROVE  GraphOK'
<1>1. Instr' = Instr /\ EdgeSet' = EdgeSet
  BY DEF Instr, EdgeSet
<1>2. Edge(u, v, dtype) \in EdgeSet /\ Edge(v, u, dtype) \in EdgeSet
  BY DEF Edge, EdgeSet
<1>3. CASE UNCHANGED graph
  BY <1>1, <1>3 DEF GraphOK, graph
<1>4. CASE ~UNCHANGED graph
  <2>1. /\ pdg' = PushBack(pdg, u, Edge(u, v, dtype))
        /\ allEdges' = Append(allEdges, Edge(u, v, dtype))
        /\ rev' = PushBack(rev, v, Edge(v, u, dtype))
    BY <1>4 DEF addEdge
  <2>2. pdg' \in [Instr -> Seq(EdgeSet)] /\ rev' \in [Instr -> Seq(EdgeSet)]
    BY <1>2, <2>1, PushedTypes DEF GraphOK
  <2>3. allEdges' \in Seq(EdgeSet)
    BY <1>2, <2>1 DEF GraphOK
  <2> QED
    BY <1>1, <2>2, <2>3 DEF GraphOK
<1> QED
  BY <1>3, <1>4

LEMMA GraphStays ==
  ASSUME GraphOK, UNCHANGED graph, prog' = prog
  PROVE  GraphOK'
BY DEF GraphOK, graph, Instr, EdgeSet

\* The last of the accesses a query can stop at is one of them.
LEMMA LatestIn ==
  ASSUME NEW q, NEW b, NEW m \in Nat, Stops(q, b, m) # {}
  PROVE  /\ Latest(Stops(q, b, m)) \in Stops(q, b, m)
         /\ Stops(q, b, m) \subseteq {b} \X (1..m)
<1> DEFINE S == Stops(q, b, m)
           N == {x[2] : x \in S}
<1>1. S \subseteq {b} \X (1..m)
  BY DEF Stops
<1>2. N \subseteq 0..m /\ N # {}
  BY <1>1
<1>3. PICK l \in N : \A y \in N : y <= l
  <2> HIDE DEF N
  <2> QED
    BY <1>2, Largest
<1>4. PICK a \in S : a[2] = l
  OBVIOUS
<1>5. \A x \in S : x[2] <= a[2]
  BY <1>3, <1>4
<1> HIDE DEF S
<1>6. Latest(S) \in S
  BY <1>5 DEF Latest
<1> QED
  BY <1>1, <1>6 DEF S

LEMMA AccessIn ==
  ASSUME IsProgram(prog), NEW q, NEW b \in Block \cup {predecessor}, NEW m \in Nat,
         m <= Len(prog.insts[b]), NEW a \in Stops(q, b, m)
  PROVE  a \in InstrsOf(prog, Block \cup {predecessor}) /\ (b \in Block => a \in Instr)
<1>1. a \in {b} \X (1..m)
  BY DEF Stops
<1>2. DOMAIN prog.insts[b] = 1..Len(prog.insts[b]) /\ Len(prog.insts[b]) \in Nat
  BY ProgramFacts
<1>3. a \in {b} \X DOMAIN prog.insts[b]
  BY <1>1, <1>2
<1>4. a \in InstrsOf(prog, Block \cup {predecessor})
  BY <1>3 DEF InstrsOf
<1>5. b \in Block => a \in Instr
  BY <1>3 DEF InstrsOf, Instr
<1> QED
  BY <1>4, <1>5

\* The nearest access in the block is an instruction before, and the others are
\* instructions of the loop or of the block before it.
LEMMA LocalIn ==
  ASSUME IsProgram(prog), NEW q \in Instr, LocalStops(q) # {}
  PROVE  Latest(LocalStops(q)) \in Instr
<1>1. q[1] \in Block /\ q[2] \in 1..Len(prog.insts[q[1]]) /\ Len(prog.insts[q[1]]) \in Nat
  BY ProgramFacts
<1>2. q[2] - 1 \in Nat /\ q[2] - 1 <= Len(prog.insts[q[1]])
  BY <1>1
<1>3. LocalStops(q) = Stops(q, q[1], q[2] - 1)
  BY DEF LocalStops, parent
<1>4. Latest(LocalStops(q)) \in Stops(q, q[1], q[2] - 1)
  BY <1>2, <1>3, LatestIn
<1> QED
  BY <1>1, <1>2, <1>4, AccessIn

LEMMA NonLocalIn ==
  ASSUME IsProgram(prog), NEW q
  PROVE  NonLocal(q) \subseteq InstrsOf(prog, Block \cup {predecessor})
<1> DEFINE E == EdgesOf(prog.cfg) \cup {<<predecessor, header>>}
           Whole(b) == Stops(q, b, Len(prog.insts[b]))
<1>1. ASSUME NEW b \in Block \cup {predecessor}, Whole(b) # {}
      PROVE  Latest(Whole(b)) \in InstrsOf(prog, Block \cup {predecessor})
  <2>1. Len(prog.insts[b]) \in Nat /\ Len(prog.insts[b]) <= Len(prog.insts[b])
    BY ProgramFacts
  <2>2. Latest(Whole(b)) \in Whole(b)
    BY <1>1, <2>1, LatestIn
  <2> QED
    BY <2>1, <2>2, AccessIn
<1>2. \A f \in E : f[1] \in Block \cup {predecessor}
  BY DEF EdgesOf
<1>3. ASSUME NEW a \in NonLocal(q)
      PROVE  \E b \in Block \cup {predecessor} : Whole(b) # {} /\ a = Latest(Whole(b))
  <2> DEFINE Through == {f \in E : Whole(f[1]) = {}}
  <2>1. PICK f \in E \ Through : a = Latest(Whole(f[1]))
    BY <1>3 DEF NonLocal
  <2> QED
    BY <1>2, <2>1
<1> HIDE DEF Whole
<1> QED
  BY <1>1, <1>3

LEMMA InitDataInv == Init => DataInv
<1> SUFFICES ASSUME Init PROVE DataInv
  OBVIOUS
<1>1. prog \in Programs /\ IsProgram(prog)
  BY DataAssumption DEF Init
<1>2. Len(Order) \in Nat /\ Len(Order) >= 1
  BY <1>1, OrderFacts
<1>3. k = 1 /\ n = 1 /\ res = {} /\ phase = "uses" /\ allEdges \in Seq(EdgeSet)
  BY DEF Init
<1>4. pdg \in [Instr -> Seq(EdgeSet)] /\ rev \in [Instr -> Seq(EdgeSet)]
  BY DEF Init
<1>5. k \in 1..Len(Order)
  BY <1>2, <1>3
<1> QED
  BY <1>1, <1>3, <1>4, <1>5 DEF DataInv, TypeOK

LEMMA DataDataInv == DataInv /\ Data => DataInv'
<1> SUFFICES ASSUME DataInv, Data PROVE DataInv'
  OBVIOUS
<1>0. /\ IsProgram(prog) /\ GraphOK /\ prog \in Programs /\ k \in Nat \ {0} /\ n \in Nat \ {0}
      /\ res \subseteq InstrsOf(prog, Block \cup {predecessor})
      /\ Order \in Seq(Instr) /\ Len(Order) \in Nat
  BY OrderFacts, DataAssumption DEF DataInv, TypeOK, GraphOK
<1>1. prog' = prog /\ Order' = Order
  BY DEF Data, AddUse, NoMemory, LocalDependence, AskNonLocal, AddNonLocal, EndNonLocal, Order
<1>2. phase \in {"uses", "nonlocal"} => k \in 1..Len(Order) /\ inst \in Instr
  BY <1>0 DEF DataInv, inst
<1>3. phase \in {"uses", "nonlocal"} /\ NextInst
        => /\ phase' \in {"uses", "done"} /\ k' \in Nat \ {0} /\ n' \in Nat \ {0}
           /\ phase' = "uses" => k' \in 1..Len(Order)
  BY <1>0, <1>2 DEF NextInst
<1> SUFFICES /\ phase' \in {"uses", "nonlocal", "done", "error"} /\ k' \in Nat \ {0} /\ n' \in Nat \ {0}
             /\ res' \subseteq InstrsOf(prog, Block \cup {predecessor}) /\ GraphOK'
             /\ phase' \in {"uses", "nonlocal"} => k' \in 1..Len(Order)
  BY <1>0, <1>1 DEF DataInv, TypeOK, GraphOK
<1>4. CASE AddUse
  <2>1. /\ phase = "uses" /\ phase' = phase /\ k' = k /\ n' = n + 1 /\ res' = res
        /\ IF prog.users[inst][n] \in Instr THEN addEdge(inst, prog.users[inst][n], "REG") ELSE UNCHANGED graph
    BY <1>4 DEF AddUse
  <2>2. inst \in Instr /\ "REG" \in DType
    BY <1>2, <2>1 DEF DType
  <2>3. GraphOK'
    BY <1>0, <1>1, <2>1, <2>2, AddEdgeTypes, GraphStays
  <2>4. n' \in Nat \ {0}
    BY <1>0, <2>1
  <2>5. phase' \in {"uses", "nonlocal", "done", "error"} /\ k' \in 1..Len(Order)
    BY <1>2, <2>1
  <2> QED
    BY <1>0, <2>1, <2>3, <2>4, <2>5
<1>5. CASE NoMemory
  <2>1. phase = "uses" /\ NextInst /\ UNCHANGED graph /\ res' = res
    BY <1>5 DEF NoMemory, UsesDone
  <2>2. GraphOK'
    BY <1>0, <1>1, <2>1, GraphStays
  <2> QED
    BY <1>0, <1>3, <2>1, <2>2
<1>6. CASE LocalDependence
  <2>1. phase = "uses" /\ NextInst /\ res' = res /\ LocalStops(inst) # {}
    BY <1>6 DEF LocalDependence, UsesDone, isNonLocal
  <2>2. inst \in Instr /\ Latest(LocalStops(inst)) \in Instr
    BY <1>0, <1>2, <2>1, LocalIn
  <2>3. PICK dep \in Instr : IF ~isDef(inst, dep) THEN addEdge(dep, inst, "DANTI")
                             ELSE IF DefType(inst, dep) = "none" THEN UNCHANGED graph
                             ELSE addEdge(dep, inst, DefType(inst, dep))
    BY <1>6, <2>2 DEF LocalDependence
  <2>4. "DANTI" \in DType /\ (DefType(inst, dep) # "none" => DefType(inst, dep) \in DType)
    BY DEF DType, DefType
  <2>5. GraphOK'
    BY <1>0, <1>1, <2>2, <2>3, <2>4, AddEdgeTypes, GraphStays
  <2> QED
    BY <1>0, <1>3, <2>1, <2>5
<1>7. CASE AskNonLocal
  <2>1. /\ phase = "uses" /\ k' = k /\ n' = n /\ UNCHANGED graph /\ phase' \in {"error", "nonlocal"}
        /\ res' \in {res, NonLocal(inst)}
    BY <1>7 DEF AskNonLocal, UsesDone
  <2>2. GraphOK'
    BY <1>0, <1>1, <2>1, GraphStays
  <2>3. res' \subseteq InstrsOf(prog, Block \cup {predecessor})
    BY <1>0, <2>1, NonLocalIn
  <2> QED
    BY <1>0, <1>2, <2>1, <2>2, <2>3
<1>8. ASSUME NEW dep \in res, AddNonLocal(dep)
      PROVE  /\ phase' \in {"uses", "nonlocal", "done", "error"} /\ k' \in Nat \ {0} /\ n' \in Nat \ {0}
             /\ res' \subseteq InstrsOf(prog, Block \cup {predecessor}) /\ GraphOK'
             /\ phase' \in {"uses", "nonlocal"} => k' \in 1..Len(Order)
  <2>1. /\ phase = "nonlocal" /\ phase' = phase /\ k' = k /\ n' = n /\ res' = res \ {dep}
        /\ IF dep \in Instr THEN addEdge(dep, inst, "DANTI") ELSE UNCHANGED graph
    BY <1>8 DEF AddNonLocal, contains
  <2>2. inst \in Instr /\ "DANTI" \in DType
    BY <1>2, <2>1 DEF DType
  <2>3. GraphOK'
    BY <1>0, <1>1, <2>1, <2>2, AddEdgeTypes, GraphStays
  <2> QED
    BY <1>0, <1>2, <2>1, <2>3
<1>9. CASE EndNonLocal
  <2>1. phase = "nonlocal" /\ NextInst /\ UNCHANGED graph /\ res' = res
    BY <1>9 DEF EndNonLocal
  <2>2. GraphOK'
    BY <1>0, <1>1, <2>1, GraphStays
  <2> QED
    BY <1>0, <1>3, <2>1, <2>2
<1> QED
  BY <1>4, <1>5, <1>6, <1>7, <1>8, <1>9 DEF Data

\* Edges join instructions of the loop only, whatever LLVM answers, and the loop over the
\* blocks never leaves their list (DSWP_1.cpp:18-227).
THEOREM DataTypeCorrect == Spec => []TypeOK
<1>1. DataInv => TypeOK
  BY DEF DataInv
<1>2. DataInv /\ [Next]_vars => DataInv'
  <2>1. DataInv /\ UNCHANGED vars => DataInv'
    BY DEF DataInv, TypeOK, vars, graph, Order, Instr, EdgeSet
  <2> QED
    BY <2>1, DataDataInv DEF Next
<1> QED
  BY <1>1, <1>2, InitDataInv, PTL DEF Spec
-----------------------------------------------------------------------------
(* Lists of lists, continued *)

\* Of any two elements of w the first is related to the second.
Sorted(w, R) == \A i, j \in DOMAIN w : i < j => <<w[i], w[j]>> \in R

LEMMA Concatenated ==
  ASSUME NEW T, NEW v \in Seq(T), NEW w \in Seq(T), NEW R,
         Sorted(v, R), Sorted(w, R), \A a \in Range(v) : \A b \in Range(w) : <<a, b>> \in R
  PROVE  v \o w \in Seq(T) /\ Range(v \o w) = Range(v) \cup Range(w) /\ Sorted(v \o w, R)
<1> DEFINE c == v \o w
           m == Len(v)
<1>1. /\ c \in Seq(T) /\ Len(c) = m + Len(w) /\ m \in Nat /\ Len(w) \in Nat
      /\ \A i \in 1..Len(c) : c[i] = IF i <= m THEN v[i] ELSE w[i - m]
  BY ConcatProperties
<1>2. DOMAIN c = 1..m + Len(w) /\ DOMAIN v = 1..m /\ DOMAIN w = 1..Len(w)
  BY <1>1
<1> HIDE DEF c, m
<1>3. ASSUME NEW i \in 1..m PROVE i \in DOMAIN c /\ c[i] = v[i] /\ v[i] \in Range(v)
  <2>1. i \in 1..m + Len(w) /\ i <= m
    BY <1>1
  <2> QED
    BY <1>1, <1>2, <2>1 DEF Range
<1>4. ASSUME NEW i \in 1..Len(w) PROVE m + i \in DOMAIN c /\ c[m + i] = w[i] /\ w[i] \in Range(w)
  <2>1. m + i \in 1..m + Len(w) /\ ~(m + i <= m) /\ (m + i) - m = i
    BY <1>1
  <2> QED
    BY <1>1, <1>2, <2>1 DEF Range
<1>5. ASSUME NEW i \in DOMAIN c PROVE i \in 1..m \/ (~(i <= m) /\ \E l \in 1..Len(w) : i = m + l)
  <2>1. i \in 1..m + Len(w)
    BY <1>2
  <2>2. CASE i <= m
    BY <2>1, <2>2, <1>1
  <2>3. CASE ~(i <= m)
    <3>1. i - m \in 1..Len(w) /\ i = m + (i - m)
      BY <1>1, <2>1, <2>3
    <3> QED
      BY <2>3, <3>1
  <2> QED
    BY <2>2, <2>3
<1>6. Range(c) = Range(v) \cup Range(w)
  <2>1. ASSUME NEW i \in DOMAIN c PROVE c[i] \in Range(v) \cup Range(w)
    BY <1>3, <1>4, <1>5
  <2>2. Range(c) \subseteq Range(v) \cup Range(w)
    BY <2>1 DEF Range
  <2>3. Range(v) \subseteq Range(c)
    BY <1>2, <1>3 DEF Range
  <2>4. Range(w) \subseteq Range(c)
    <3> SUFFICES ASSUME NEW i \in 1..Len(w) PROVE w[i] \in Range(c)
      BY <1>2 DEF Range
    <3> QED
      BY <1>4 DEF Range
  <2> QED
    BY <2>2, <2>3, <2>4
<1>7. ASSUME NEW i \in DOMAIN c, NEW j \in DOMAIN c, i < j PROVE <<c[i], c[j]>> \in R
  <2>1. i \in Int /\ j \in Int
    BY <1>1, <1>2
  <2>2. CASE i \in 1..m /\ j \in 1..m
    BY <1>2, <1>3, <1>7, <2>2 DEF Sorted
  <2>3. CASE i \in 1..m /\ ~(j <= m)
    <3>1. PICK l \in 1..Len(w) : j = m + l
      BY <1>1, <1>5, <2>3
    <3> QED
      BY <1>3, <1>4, <2>3, <3>1
  <2>4. CASE ~(i <= m)
    <3>1. ~(j <= m)
      BY <1>1, <1>7, <2>1, <2>4
    <3>2. PICK l \in 1..Len(w) : i = m + l
      BY <1>1, <1>5, <2>4
    <3>3. PICK h \in 1..Len(w) : j = m + h
      BY <1>1, <1>5, <3>1
    <3>4. l < h
      BY <1>1, <1>7, <3>2, <3>3
    <3> QED
      BY <1>2, <1>4, <3>2, <3>3, <3>4 DEF Sorted
  <2> QED
    BY <1>1, <1>5, <2>1, <2>2, <2>3, <2>4
<1>8. Sorted(c, R)
  BY <1>7 DEF Sorted
<1> QED
  BY <1>1, <1>6, <1>8 DEF c

\* A list of lists as one has the elements of all of them, in order if they are and each is.
LEMMA FlattenedAll ==
  ASSUME NEW T, NEW s, NEW N \in Nat \ {0}, s \in [1..N -> Seq(T)], NEW R,
         \A m \in 1..N : Sorted(s[m], R),
         \A m, l \in 1..N : m < l => \A a \in Range(s[m]) : \A b \in Range(s[l]) : <<a, b>> \in R
  PROVE  /\ FlattenSeq(s) \in Seq(T) /\ Sorted(FlattenSeq(s), R)
         /\ \A x : x \in Range(FlattenSeq(s)) <=> \E m \in 1..N : x \in Range(s[m])
<1> DEFINE f == CHOOSE f : f = [m \in 1..Len(s) |-> IF m = 1 THEN s[m] ELSE f[m - 1] \o s[m]]
           Good(m) == /\ f[m] \in Seq(T) /\ Sorted(f[m], R)
                      /\ \A x : x \in Range(f[m]) <=> \E l \in 1..m : x \in Range(s[l])
           W == {m \in Nat : m \in 1..N => Good(m)}
<1>1. Len(s) = N
  OBVIOUS
<1>2. FlattenSeq(s) = f[N]
  BY <1>1 DEF FlattenSeq
<1>3. f = [m \in 1..N |-> IF m = 1 THEN s[m] ELSE f[m - 1] \o s[m]]
  <2>1. \E g : g = [m \in 1..N |-> IF m = 1 THEN s[m] ELSE g[m - 1] \o s[m]]
    BY FlattenExists DEF Flattens
  <2> QED
    BY <1>1, <2>1, Zenon
<1> HIDE DEF f
<1>4. \A m \in 1..N : s[m] \in Seq(T)
  OBVIOUS
<1>5. 0 \in W
  OBVIOUS
<1>6. ASSUME NEW m \in Nat, m \in W PROVE m + 1 \in W
  <2> SUFFICES ASSUME m + 1 \in 1..N PROVE Good(m + 1)
    OBVIOUS
  <2>1. CASE m = 0
    <3>1. f[m + 1] = s[1] /\ m + 1 = 1 /\ 1 \in 1..N
      BY <1>3, <2>1
    <3>2. \A l \in 1..m + 1 : l = 1
      BY <2>1
    <3> QED
      BY <1>4, <3>1, <3>2
  <2>2. CASE m # 0
    <3>1. m \in 1..N /\ m + 1 # 1 /\ (m + 1) - 1 = m
      BY <2>2
    <3>2. Good(m)
      BY <1>6, <3>1
    <3>3. f[m + 1] = f[m] \o s[m + 1]
      BY <1>3, <3>1
    <3>4. ASSUME NEW a \in Range(f[m]), NEW b \in Range(s[m + 1]) PROVE <<a, b>> \in R
      <4>1. PICK l \in 1..m : a \in Range(s[l])
        BY <3>2
      <4>2. l \in 1..N /\ l < m + 1
        BY <3>1
      <4> QED
        BY <4>1, <4>2
    <3>5. s[m + 1] \in Seq(T) /\ Sorted(s[m + 1], R)
      BY <1>4
    <3>6. /\ f[m + 1] \in Seq(T) /\ Sorted(f[m + 1], R)
          /\ Range(f[m + 1]) = Range(f[m]) \cup Range(s[m + 1])
      BY <3>2, <3>3, <3>4, <3>5, Concatenated
    <3>7. \A l : l \in 1..m + 1 <=> l \in 1..m \/ l = m + 1
      OBVIOUS
    <3>8. ASSUME NEW x PROVE x \in Range(f[m + 1]) <=> \E l \in 1..m + 1 : x \in Range(s[l])
      BY <3>2, <3>6, <3>7
    <3> QED
      BY <3>6, <3>8
  <2> QED
    BY <2>1, <2>2
<1>7. N \in W
  <2> HIDE DEF W
  <2> QED
    BY <1>5, <1>6, SetInduction
<1> QED
  BY <1>2, <1>7

-----------------------------------------------------------------------------
(* What is ordered *)

\* A recursive function on the first few numbers that asks for earlier ones exists.
Closes(D, N, f) == f = [j \in 1..N |-> D[j] \cup UNION {f[i] : i \in D[j]}]

LEMMA EarlierExist ==
  ASSUME NEW N \in Nat, NEW D, \A j \in 1..N : D[j] \subseteq 1..j - 1
  PROVE  \E f : Closes(D, N, f)
<1> DEFINE W == {m \in Nat : m <= N => \E f : f = [j \in 1..m |-> D[j] \cup UNION {f[i] : i \in D[j]}]}
<1>1. 0 \in W
  <2> DEFINE f == [j \in 1..0 |-> {}]
             g == [j \in 1..0 |-> D[j] \cup UNION {f[i] : i \in D[j]}]
  <2>1. f = g
    OBVIOUS
  <2> HIDE DEF f
  <2> QED
    BY <2>1
<1>2. ASSUME NEW m \in Nat, m \in W PROVE m + 1 \in W
  <2> SUFFICES ASSUME m + 1 <= N
               PROVE  \E f : f = [j \in 1..m + 1 |-> D[j] \cup UNION {f[i] : i \in D[j]}]
    OBVIOUS
  <2>1. PICK f : f = [j \in 1..m |-> D[j] \cup UNION {f[i] : i \in D[j]}]
    BY <1>2
  <2> DEFINE g == [j \in 1..m + 1 |-> D[j] \cup UNION {f[i] : i \in D[j]}]
             h == [j \in 1..m + 1 |-> D[j] \cup UNION {g[i] : i \in D[j]}]
  <2>2. ASSUME NEW j \in 1..m PROVE g[j] = f[j]
    <3> DEFINE b == D[j] \cup UNION {f[i] : i \in D[j]}
    <3>1. f[j] = b
      BY <2>1, Zenon
    <3>2. j \in 1..m + 1
      OBVIOUS
    <3>3. g[j] = b
      BY <3>2, Zenon
    <3> QED
      BY <3>1, <3>3
  <2>3. ASSUME NEW j \in 1..m + 1 PROVE g[j] = h[j]
    <3>1. \A i \in D[j] : i \in 1..m
      OBVIOUS
    <3>2. \A i \in D[j] : g[i] = f[i]
      BY <2>2, <3>1
    <3>3. UNION {g[i] : i \in D[j]} = UNION {f[i] : i \in D[j]}
      <4> HIDE DEF g
      <4> QED
        BY <3>2
    <3>4. g[j] = D[j] \cup UNION {f[i] : i \in D[j]}
      OBVIOUS
    <3>5. h[j] = D[j] \cup UNION {g[i] : i \in D[j]}
      <4> HIDE DEF g
      <4> QED
        OBVIOUS
    <3> QED
      BY <3>3, <3>4, <3>5
  <2>4. g = h
    BY <2>3
  <2> HIDE DEF g
  <2> QED
    BY <2>4
<1>3. N \in W
  <2> HIDE DEF W
  <2> QED
    BY <1>1, <1>2, SetInduction
<1> QED
  BY <1>3 DEF Closes

\* The events of a trace the j-th directly depends on.
To == [v \in Instr |-> {edge.u : edge \in {x \in Range(allEdges) : x.v = v}}]
Direct(tr, j) == {i \in 1..j - 1 : Of(tr[i]) \in To[Of(tr[j])]}

LEMMA OrderedIs ==
  ASSUME NEW tr, NEW N \in Nat, DOMAIN tr = 1..N
  PROVE  \A j \in 1..N :
           Ordered(tr)[j] = Direct(tr, j) \cup UNION {Ordered(tr)[i] : i \in Direct(tr, j)}
<1> DEFINE D == [j \in 1..N |-> Direct(tr, j)]
           F(f) == [j \in 1..N |-> Direct(tr, j) \cup UNION {f[i] : i \in Direct(tr, j)}]
<1>1. \A j \in 1..N : D[j] \subseteq 1..j - 1
  BY DEF Direct
<1>2. PICK f : f = [j \in 1..N |-> D[j] \cup UNION {f[i] : i \in D[j]}]
  <2> HIDE DEF D
  <2>1. \E f : Closes(D, N, f)
    BY <1>1, EarlierExist
  <2> QED
    BY <2>1, Zenon DEF Closes
<1>3. f = F(f)
  <2>1. \A j \in 1..N : D[j] = Direct(tr, j)
    OBVIOUS
  <2> HIDE DEF D
  <2>2. [j \in 1..N |-> D[j] \cup UNION {f[i] : i \in D[j]}] = F(f)
    BY <2>1
  <2> QED
    BY <1>2, <2>2
<1>4. \E g : g = F(g)
  <2> HIDE DEF F
  <2> QED
    BY <1>3
<1>5. Ordered(tr) = CHOOSE g : g = F(g)
  BY DEF Ordered, Direct, To, Of
<1>6. Ordered(tr) = F(Ordered(tr))
  <2> HIDE DEF F
  <2> QED
    BY <1>4, <1>5, Zenon
<1> DEFINE g == Ordered(tr)
<1> HIDE DEF g
<1>7. g = [j \in 1..N |-> Direct(tr, j) \cup UNION {g[i] : i \in Direct(tr, j)}]
  BY <1>6 DEF g
<1>8. \A j \in 1..N : g[j] = Direct(tr, j) \cup UNION {g[i] : i \in Direct(tr, j)}
  BY <1>7
<1> QED
  BY <1>8 DEF g
-----------------------------------------------------------------------------
(* Paths *)

\* Each block of p is a successor of the one before it.
IsPath(p) ==
  /\ p \in Seq(Block)
  /\ \A j \in 1..Len(p) - 1 : p[j + 1] \in prog.cfg[p[j]]

Extended(f, l, b) ==
  IF b = exit \/ l = 0 THEN {<<>>}
  ELSE UNION {{<<b>> \o p : p \in f[l - 1][s]} : s \in prog.cfg[b]}

\* The function behind PathsOf exists.
LEMMA PathsExist ==
  ASSUME NEW N \in Nat
  PROVE  \E f : f = [l \in 0..N |-> [b \in Block \cup {exit} |-> Extended(f, l, b)]]
<1> DEFINE D == Block \cup {exit}
           W == {m \in Nat : \E f : f = [l \in 0..m |-> [b \in D |-> Extended(f, l, b)]]}
<1>0. ASSUME NEW f, NEW g, NEW l, NEW b, l # 0 => f[l - 1] = g[l - 1]
      PROVE  Extended(f, l, b) = Extended(g, l, b)
  BY <1>0 DEF Extended
<1>1. 0 \in W
  <2> DEFINE f == [l \in 0..0 |-> [b \in D |-> Extended(<<>>, l, b)]]
  <2>1. ASSUME NEW l \in 0..0, NEW b \in D PROVE Extended(<<>>, l, b) = Extended(f, l, b)
    BY DEF Extended
  <2>2. f = [l \in 0..0 |-> [b \in D |-> Extended(f, l, b)]]
    <3> DEFINE g == [l \in 0..0 |-> [b \in D |-> Extended(f, l, b)]]
    <3>1. \A l \in 0..0 : f[l] = g[l]
      <4> HIDE DEF D
      <4> QED
        BY <2>1
    <3> QED
      BY <3>1
  <2> QED
    BY <2>2
<1>2. ASSUME NEW m \in Nat, m \in W PROVE m + 1 \in W
  <2>1. PICK f : f = [l \in 0..m |-> [b \in D |-> Extended(f, l, b)]]
    BY <1>2
  <2> DEFINE g == [l \in 0..m + 1 |-> [b \in D |-> Extended(f, l, b)]]
             h == [l \in 0..m + 1 |-> [b \in D |-> Extended(g, l, b)]]
  <2>2. \A l \in 0..m : g[l] = f[l]
    <3> SUFFICES ASSUME NEW l \in 0..m PROVE g[l] = f[l]
      OBVIOUS
    <3> DEFINE e == [b \in D |-> Extended(f, l, b)]
    <3>1. f[l] = e
      BY <2>1, Zenon
    <3>2. l \in 0..m + 1
      OBVIOUS
    <3>3. g[l] = e
      BY <3>2, Zenon
    <3> QED
      BY <3>1, <3>3
  <2>3. ASSUME NEW l \in 0..m + 1, NEW b \in D PROVE Extended(f, l, b) = Extended(g, l, b)
    <3> HIDE DEF g, D, W
    <3>1. l # 0 => l - 1 \in 0..m
      OBVIOUS
    <3>2. l # 0 => f[l - 1] = g[l - 1]
      BY <2>2, <3>1
    <3> QED
      BY <1>0, <3>2
  <2>4. \A l \in 0..m + 1 : g[l] = h[l]
    <3> SUFFICES ASSUME NEW l \in 0..m + 1 PROVE g[l] = h[l]
      OBVIOUS
    <3>1. g[l] = [b \in D |-> Extended(f, l, b)] /\ h[l] = [b \in D |-> Extended(g, l, b)]
      OBVIOUS
    <3>2. \A b \in D : Extended(f, l, b) = Extended(g, l, b)
      BY <2>3
    <3> HIDE DEF g, h, D
    <3> QED
      BY <3>1, <3>2
  <2>5. g = h
    BY <2>4
  <2>6. g = [l \in 0..m + 1 |-> [b \in D |-> Extended(g, l, b)]]
    BY <2>5
  <2> QED
    <3> HIDE DEF g, h, D
    <3>1. \E f1 : f1 = [l \in 0..m + 1 |-> [b \in D |-> Extended(f1, l, b)]]
      BY <2>6
    <3> QED
      BY <3>1
<1>3. N \in W
  <2> HIDE DEF W
  <2> QED
    BY <1>1, <1>2, SetInduction
<1> QED
  BY <1>3

LEMMA PathsAre ==
  ASSUME NEW N \in Nat
  PROVE  \E f : /\ PathsOf(N) = f[N][header]
                /\ \A l \in 0..N : \A b \in Block \cup {exit} : f[l][b] = Extended(f, l, b)
<1> DEFINE f == CHOOSE f : f = [l \in 0..N |-> [b \in Block \cup {exit} |-> Extended(f, l, b)]]
<1>1. PathsOf(N) = f[N][header]
  BY DEF PathsOf, Extended
<1>2. f = [l \in 0..N |-> [b \in Block \cup {exit} |-> Extended(f, l, b)]]
  BY PathsExist, Zenon
<1> HIDE DEF f
<1>3. ASSUME NEW l \in 0..N, NEW b \in Block \cup {exit} PROVE f[l][b] = Extended(f, l, b)
  <2>1. f[l] = [a \in Block \cup {exit} |-> Extended(f, l, a)]
    BY <1>2
  <2> QED
    BY <2>1
<1> QED
  BY <1>1, <1>3

LEMMA PathLonger ==
  ASSUME NEW b \in Block, NEW s \in prog.cfg[b], NEW p, IsPath(p), p # <<>> => p[1] = s
  PROVE  IsPath(<<b>> \o p) /\ (<<b>> \o p)[1] = b /\ Len(<<b>> \o p) = Len(p) + 1
<1> DEFINE q == <<b>> \o p
<1>1. <<b>> \in Seq(Block) /\ Len(<<b>>) = 1 /\ <<b>>[1] = b /\ p \in Seq(Block) /\ Len(p) \in Nat
  BY DEF IsPath
<1>2. /\ q \in Seq(Block) /\ Len(q) = 1 + Len(p)
      /\ \A j \in 1..Len(q) : q[j] = IF j <= 1 THEN <<b>>[j] ELSE p[j - 1]
  BY <1>1, ConcatProperties
<1> HIDE DEF q
<1>3. q[1] = b
  BY <1>1, <1>2
<1>4. ASSUME NEW j \in 1..Len(p) PROVE q[j + 1] = p[j]
  <2>1. j + 1 \in 1..Len(q) /\ ~(j + 1 <= 1) /\ (j + 1) - 1 = j
    BY <1>1, <1>2
  <2> QED
    BY <1>2, <2>1
<1>5. ASSUME NEW j \in 1..Len(q) - 1 PROVE q[j + 1] \in prog.cfg[q[j]]
  <2>0. j \in 1..Len(p)
    BY <1>1, <1>2
  <2>1. CASE j = 1
    <3>1. p # <<>>
      BY <2>0
    <3> QED
      BY <1>3, <1>4, <2>0, <2>1, <3>1
  <2>2. CASE j # 1
    <3>1. j - 1 \in 1..Len(p) - 1 /\ j - 1 \in 1..Len(p) /\ (j - 1) + 1 = j
      BY <1>1, <2>0, <2>2
    <3>2. q[j] = p[j - 1] /\ q[j + 1] = p[j]
      BY <1>4, <2>0, <3>1
    <3>3. p[(j - 1) + 1] \in prog.cfg[p[j - 1]]
      BY <3>1 DEF IsPath
    <3> QED
      BY <3>1, <3>2, <3>3
  <2> QED
    BY <2>1, <2>2
<1>6. Len(q) = Len(p) + 1
  BY <1>1, <1>2
<1> QED
  BY <1>2, <1>3, <1>5, <1>6 DEF IsPath, q

LEMMA PathsOfLoop ==
  ASSUME IsProgram(prog), NEW N \in Nat, NEW p \in PathsOf(N)
  PROVE  IsPath(p) /\ Len(p) \in 0..N
<1>1. PICK f : /\ PathsOf(N) = f[N][header]
               /\ \A l \in 0..N : \A b \in Block \cup {exit} : f[l][b] = Extended(f, l, b)
  BY PathsAre
<1> DEFINE Good(l) == \A b \in Block \cup {exit} : \A q \in f[l][b] : IsPath(q) /\ Len(q) <= l /\ (q # <<>> => q[1] = b)
           W == {l \in Nat : l <= N => Good(l)}
<1>2. \A b \in Block : prog.cfg[b] \subseteq Block \cup {exit}
  BY DEF IsProgram
<1>3. IsPath(<<>>) /\ Len(<<>>) = 0
  BY DEF IsPath
<1>4. 0 \in W
  <2> SUFFICES ASSUME NEW b \in Block \cup {exit}, NEW q \in f[0][b]
               PROVE  IsPath(q) /\ Len(q) <= 0 /\ (q # <<>> => q[1] = b)
    OBVIOUS
  <2>1. q \in Extended(f, 0, b)
    BY <1>1
  <2> QED
    BY <1>3, <2>1 DEF Extended
<1>5. ASSUME NEW l \in Nat, l \in W PROVE l + 1 \in W
  <2> SUFFICES ASSUME l + 1 <= N, NEW b \in Block \cup {exit}, NEW q \in f[l + 1][b]
               PROVE  IsPath(q) /\ Len(q) <= l + 1 /\ (q # <<>> => q[1] = b)
    OBVIOUS
  <2>1. Good(l)
    BY <1>5
  <2>2. q \in Extended(f, l + 1, b)
    BY <1>1
  <2>3. CASE b = exit
    BY <1>3, <2>2, <2>3 DEF Extended
  <2>4. CASE b # exit
    <3>1. (l + 1) - 1 = l /\ l + 1 # 0
      OBVIOUS
    <3>2. q \in UNION {{<<b>> \o r : r \in f[l][s]} : s \in prog.cfg[b]}
      BY <2>2, <2>4, <3>1 DEF Extended
    <3>3. PICK s \in prog.cfg[b] : q \in {<<b>> \o r : r \in f[l][s]}
      BY <3>2
    <3>4. PICK r \in f[l][s] : q = <<b>> \o r
      BY <3>3
    <3>5. b \in Block /\ s \in Block \cup {exit}
      BY <1>2, <2>4
    <3>6. IsPath(r) /\ Len(r) <= l /\ (r # <<>> => r[1] = s)
      BY <2>1, <3>4, <3>5
    <3>7. IsPath(q) /\ q[1] = b /\ Len(q) = Len(r) + 1
      BY <3>4, <3>5, <3>6, PathLonger
    <3>8. Len(r) \in Nat
      BY <3>6 DEF IsPath
    <3> QED
      BY <3>6, <3>7, <3>8
  <2> QED
    BY <2>3, <2>4
<1>6. N \in W
  <2> HIDE DEF W
  <2> QED
    BY <1>4, <1>5, SetInduction
<1>7. header \in Block
  BY LoopAssumption DEF header, Block
<1>8. Len(p) \in Nat /\ IsPath(p) /\ Len(p) <= N
  <2>1. p \in f[N][header]
    BY <1>1
  <2>2. IsPath(p) /\ Len(p) <= N
    BY <1>6, <1>7, <2>1
  <2> QED
    BY <2>2 DEF IsPath
<1> QED
  BY <1>8
-----------------------------------------------------------------------------
(* Traces *)

Event == Block \X (Nat \ {0}) \X (Nat \ {0})

\* The m-th block of the path comes before the next one, and goes through its
\* instructions in order.
Earlier(e, f) == e[3] < f[3] \/ (e[3] = f[3] /\ e[2] < f[2])
InTime == {x \in Event \X Event : Earlier(x[1], x[2])}

\* The instructions of the m-th block of path p, as events.
VisitOf(p, m) == [l \in DOMAIN prog.insts[p[m]] |-> <<p[m], l, m>>]

LEMMA VisitFacts ==
  ASSUME IsProgram(prog), NEW p \in Seq(Block), NEW m \in 1..Len(p)
  PROVE  /\ VisitOf(p, m) \in Seq(Event) /\ Sorted(VisitOf(p, m), InTime)
         /\ \A e : e \in Range(VisitOf(p, m)) <=> \E l \in 1..Len(prog.insts[p[m]]) : e = <<p[m], l, m>>
<1> DEFINE b == p[m]
           L == Len(prog.insts[b])
           v == VisitOf(p, m)
<1>1. b \in Block /\ m \in Nat \ {0}
  OBVIOUS
<1>2. prog.insts[b] \in Seq([kind : Kind, loc : SUBSET Location])
  BY <1>1, ProgramFacts
<1>3. DOMAIN prog.insts[b] = 1..L /\ L \in Nat
  BY <1>2
<1> HIDE DEF b, L
<1>4. v = [l \in 1..L |-> <<b, l, m>>]
  BY <1>3 DEF VisitOf, b
<1>5. \A l \in 1..L : v[l] = <<b, l, m>> /\ v[l] \in Event
  BY <1>1, <1>3, <1>4 DEF Event
<1>6. v \in Seq(Event) /\ DOMAIN v = 1..L
  <2>1. v \in [1..L -> Event]
    BY <1>4, <1>5
  <2> HIDE DEF v
  <2> QED
    BY <1>3, <2>1
<1> HIDE DEF v
<1>7. Sorted(v, InTime)
  <2> SUFFICES ASSUME NEW i \in 1..L, NEW j \in 1..L, i < j PROVE <<v[i], v[j]>> \in InTime
    BY <1>6 DEF Sorted
  <2>1. v[i] = <<b, i, m>> /\ v[j] = <<b, j, m>> /\ v[i] \in Event /\ v[j] \in Event
    BY <1>5
  <2>2. Earlier(v[i], v[j])
    BY <2>1 DEF Earlier
  <2> QED
    BY <2>1, <2>2 DEF InTime
<1>8. \A e : e \in Range(v) <=> \E l \in 1..L : e = <<b, l, m>>
  BY <1>5, <1>6 DEF Range
<1> QED
  BY <1>6, <1>7, <1>8 DEF v, b, L

LEMMA TraceFacts ==
  ASSUME IsProgram(prog), NEW p \in Seq(Block), p # <<>>
  PROVE  /\ Trace(p) \in Seq(Event) /\ Len(Trace(p)) \in Nat /\ DOMAIN Trace(p) = 1..Len(Trace(p))
         /\ \A i \in DOMAIN Trace(p) : \E m \in 1..Len(p) : \E l \in 1..Len(prog.insts[p[m]]) :
              Trace(p)[i] = <<p[m], l, m>>
         /\ \A m \in 1..Len(p) : \A l \in 1..Len(prog.insts[p[m]]) :
              \E i \in DOMAIN Trace(p) : Trace(p)[i] = <<p[m], l, m>>
         /\ \A i, j \in DOMAIN Trace(p) : i < j => Earlier(Trace(p)[i], Trace(p)[j])
<1> DEFINE N == Len(p)
           s == [m \in DOMAIN p |-> VisitOf(p, m)]
           tr == Trace(p)
<1>1. DOMAIN p = 1..N /\ N \in Nat \ {0}
  OBVIOUS
<1>2. tr = FlattenSeq(s)
  BY DEF Trace, VisitOf
<1>3. \A m \in 1..N : s[m] = VisitOf(p, m)
  BY <1>1
<1>4. s = [m \in 1..N |-> VisitOf(p, m)]
  BY <1>1
<1>5. ASSUME NEW m \in 1..N
      PROVE  /\ s[m] \in Seq(Event) /\ Sorted(s[m], InTime)
             /\ \A e : e \in Range(s[m]) <=> \E l \in 1..Len(prog.insts[p[m]]) : e = <<p[m], l, m>>
  BY <1>3, VisitFacts
<1> HIDE DEF s
<1>6. s \in [1..N -> Seq(Event)]
  BY <1>3, <1>4, <1>5
<1>7. ASSUME NEW m \in 1..N, NEW l \in 1..N, m < l, NEW e \in Range(s[m]), NEW f \in Range(s[l])
      PROVE  <<e, f>> \in InTime
  <2>1. e[3] = m /\ f[3] = l
    BY <1>5
  <2>2. e \in Event /\ f \in Event
    <3>1. \A v : v \in Seq(Event) => \A x \in Range(v) : x \in Event
      BY DEF Range
    <3> QED
      BY <1>5, <3>1
  <2> QED
    BY <1>7, <2>1, <2>2 DEF InTime, Earlier
<1>8. /\ FlattenSeq(s) \in Seq(Event) /\ Sorted(FlattenSeq(s), InTime)
      /\ \A x : x \in Range(FlattenSeq(s)) <=> \E m \in 1..N : x \in Range(s[m])
  <2> HIDE DEF N
  <2>1. \A m \in 1..N : Sorted(s[m], InTime)
    BY <1>5
  <2>2. \A m, l \in 1..N : m < l => \A e \in Range(s[m]) : \A f \in Range(s[l]) : <<e, f>> \in InTime
    BY <1>7
  <2> QED
    BY <1>1, <1>6, <2>1, <2>2, FlattenedAll
<1> HIDE DEF tr
<1>9. tr \in Seq(Event) /\ DOMAIN tr = 1..Len(tr) /\ Len(tr) \in Nat
  BY <1>2, <1>8
<1>10. ASSUME NEW i \in DOMAIN tr
       PROVE  \E m \in 1..N : \E l \in 1..Len(prog.insts[p[m]]) : tr[i] = <<p[m], l, m>>
  <2>1. tr[i] \in Range(tr)
    BY DEF Range
  <2>2. PICK m \in 1..N : tr[i] \in Range(s[m])
    BY <1>2, <1>8, <2>1
  <2> QED
    BY <1>5, <2>2
<1>11. ASSUME NEW m \in 1..N, NEW l \in 1..Len(prog.insts[p[m]])
       PROVE  \E i \in DOMAIN tr : tr[i] = <<p[m], l, m>>
  <2>1. <<p[m], l, m>> \in Range(s[m])
    BY <1>5
  <2>2. <<p[m], l, m>> \in Range(tr)
    BY <1>2, <1>8, <2>1
  <2> QED
    BY <2>2 DEF Range
<1>12. ASSUME NEW i \in DOMAIN tr, NEW j \in DOMAIN tr, i < j PROVE Earlier(tr[i], tr[j])
  <2>1. <<tr[i], tr[j]>> \in InTime
    BY <1>2, <1>8, <1>12 DEF Sorted
  <2> QED
    BY <2>1 DEF InTime
<1> QED
  BY <1>9, <1>10, <1>11, <1>12 DEF tr

\* What happens after the i-th event and before the j-th is on the trace between them.
LEMMA Between ==
  ASSUME IsProgram(prog), NEW p \in Seq(Block), p # <<>>, NEW i \in DOMAIN Trace(p), NEW j \in DOMAIN Trace(p),
         NEW m \in 1..Len(p), NEW l \in 1..Len(prog.insts[p[m]]),
         Earlier(Trace(p)[i], <<p[m], l, m>>), Earlier(<<p[m], l, m>>, Trace(p)[j])
  PROVE  \E z \in DOMAIN Trace(p) : i < z /\ z < j /\ Trace(p)[z] = <<p[m], l, m>>
<1> DEFINE tr == Trace(p)
<1>0. i \in DOMAIN tr /\ j \in DOMAIN tr
  OBVIOUS
<1>1. PICK z \in DOMAIN tr : tr[z] = <<p[m], l, m>>
  BY TraceFacts
<1>2. i \in Nat /\ z \in Nat /\ j \in Nat /\ tr[i] \in Event /\ tr[j] \in Event /\ tr[z] \in Event
  <2>1. tr \in Seq(Event) /\ DOMAIN tr = 1..Len(tr) /\ Len(tr) \in Nat
    BY TraceFacts
  <2> HIDE DEF tr
  <2> QED
    BY <1>0, <2>1
<1>3. \A x, y \in DOMAIN tr : x < y => Earlier(tr[x], tr[y])
  BY TraceFacts
<1>4. Earlier(tr[i], tr[z]) /\ Earlier(tr[z], tr[j])
  BY <1>1
<1> HIDE DEF tr
<1>5. \A e, f \in Event : ~(Earlier(e, f) /\ Earlier(f, e)) /\ ~Earlier(e, e)
  BY DEF Event, Earlier
<1>6. ~(z < i) /\ z # i /\ ~(j < z) /\ z # j
  BY <1>0, <1>2, <1>3, <1>4, <1>5
<1>7. i < z /\ z < j
  BY <1>2, <1>6
<1> QED
  BY <1>1, <1>7 DEF tr

\* Every instruction of the loop is visited.
LEMMA OrderHasAll ==
  ASSUME IsProgram(prog)
  PROVE  \A a \in Instr : \E m \in 1..Len(Order) : Order[m] = a
<1> DEFINE s == [b \in 1..NumBlock |-> [m \in DOMAIN prog.insts[b - 1] |-> <<b - 1, m>>]]
           R == Instr \X Instr
<1>1. NumBlock \in Nat \ {0} /\ \A b \in Block : b + 1 \in 1..NumBlock /\ (b + 1) - 1 = b
  BY LoopAssumption DEF Block
<1>2. ASSUME NEW b \in 1..NumBlock
      PROVE  s[b] \in Seq(Instr) /\ Range(s[b]) = {a \in Instr : a[1] = b - 1}
  <2>1. b - 1 \in Block
    BY <1>1 DEF Block
  <2> DEFINE B == b - 1
             t == [m \in DOMAIN prog.insts[B] |-> <<B, m>>]
  <2>2. prog.insts[B] \in Seq([kind : Kind, loc : SUBSET Location])
    BY <2>1, ProgramFacts
  <2>3. DOMAIN prog.insts[B] = 1..Len(prog.insts[B]) /\ Len(prog.insts[B]) \in Nat
    BY <2>2
  <2>4. \A m \in 1..Len(prog.insts[B]) : <<B, m>> \in Instr
    BY <2>1, ProgramFacts
  <2>5. t \in [1..Len(prog.insts[B]) -> Instr]
    BY <2>3, <2>4
  <2>6. s[b] = t
    OBVIOUS
  <2>7. \A a \in Instr : a[1] = B => a = <<B, a[2]>> /\ a[2] \in 1..Len(prog.insts[B])
    <3> SUFFICES ASSUME NEW a \in Instr, a[1] = B PROVE a = <<B, a[2]>> /\ a[2] \in 1..Len(prog.insts[B])
      OBVIOUS
    <3>1. a = <<a[1], a[2]>> /\ a[2] \in 1..Len(prog.insts[a[1]])
      BY ProgramFacts
    <3> QED
      BY <3>1
  <2>8. Range(t) = {a \in Instr : a[1] = B}
    <3>1. DOMAIN t = 1..Len(prog.insts[B]) /\ \A m \in 1..Len(prog.insts[B]) : t[m] = <<B, m>>
      BY <2>3
    <3>2. \A m \in 1..Len(prog.insts[B]) : <<B, m>> \in Instr /\ <<B, m>>[1] = B
      BY <2>4
    <3> HIDE DEF t, B
    <3>3. ASSUME NEW a \in Range(t) PROVE a \in Instr /\ a[1] = B
      <4>1. PICK m \in 1..Len(prog.insts[B]) : a = t[m]
        BY <3>1 DEF Range
      <4>2. a = <<B, m>>
        BY <3>1, <4>1
      <4> QED
        BY <3>2, <4>2
    <3>4. ASSUME NEW a \in Instr, a[1] = B PROVE a \in Range(t)
      BY <2>7, <3>1, <3>4 DEF Range
    <3> QED
      BY <3>3, <3>4
  <2>9. t \in Seq(Instr)
    <3> HIDE DEF t, B
    <3> QED
      BY <2>3, <2>5
  <2> HIDE DEF s, t
  <2> QED
    BY <2>6, <2>8, <2>9 DEF B
<1>3. s \in [1..NumBlock -> Seq(Instr)]
  BY <1>2
<1>4. Order = FlattenSeq(s)
  BY DEF Order
<1> HIDE DEF s
<1>5. \A m \in 1..NumBlock : Range(s[m]) \subseteq Instr /\ Sorted(s[m], R)
  <2> SUFFICES ASSUME NEW m \in 1..NumBlock PROVE Range(s[m]) \subseteq Instr /\ Sorted(s[m], R)
    OBVIOUS
  <2>1. s[m] \in Seq(Instr)
    BY <1>2
  <2> QED
    BY <1>2, <2>1 DEF Sorted
<1>6. \A m, l \in 1..NumBlock : m < l => \A a \in Range(s[m]) : \A b \in Range(s[l]) : <<a, b>> \in R
  BY <1>5
<1> HIDE DEF R
<1>7. \A x : x \in Range(FlattenSeq(s)) <=> \E m \in 1..NumBlock : x \in Range(s[m])
  BY <1>1, <1>3, <1>5, <1>6, FlattenedAll
<1> SUFFICES ASSUME NEW a \in Instr PROVE \E m \in 1..Len(Order) : Order[m] = a
  OBVIOUS
<1>8. a \in Range(Order)
  <2>1. a[1] \in Block
    BY ProgramFacts
  <2>2. a \in Range(s[a[1] + 1])
    BY <1>1, <1>2, <2>1
  <2> QED
    BY <1>1, <1>4, <1>7, <2>1, <2>2
<1>9. DOMAIN Order = 1..Len(Order)
  BY OrderFacts
<1> QED
  BY <1>8, <1>9 DEF Range
-----------------------------------------------------------------------------
(* What LLVM has answered *)

Linked(a, q) == \E e \in Range(allEdges) : e.u = a /\ e.v = q

\* The access before q in the block has an edge to q, unless it is no dependence of
\* a known kind; and so have the accesses of the loop in front of the block, if there is none.
Asked(q) ==
  /\ LocalStops(q) # {} =>
       \/ isDef(q, Latest(LocalStops(q))) /\ DefType(q, Latest(LocalStops(q))) = "none"
       \/ Linked(Latest(LocalStops(q)), q)
  /\ LocalStops(q) = {} => \A a \in NonLocal(q) \cap Instr : Linked(a, q)

Answered(q) == mayReadOrWriteMemory(q) => Asked(q)

AskedInv ==
  /\ phase = "done" => k = Len(Order) + 1
  /\ \A m \in 1..Len(Order) : m < k => Answered(Order[m])
  /\ phase = "nonlocal" =>
       LocalStops(inst) = {} /\ \A a \in (NonLocal(inst) \ res) \cap Instr : Linked(a, inst)

\* Edges are only added.
LEMMA AnswersStay ==
  ASSUME prog' = prog, Range(allEdges) \subseteq Range(allEdges')
  PROVE  /\ Instr' = Instr /\ Order' = Order
         /\ \A q : LocalStops(q)' = LocalStops(q) /\ NonLocal(q)' = NonLocal(q)
         /\ \A a, q : Linked(a, q) => Linked(a, q)'
         /\ \A q : Answered(q) => Answered(q)'
<1>1. Instr' = Instr /\ Order' = Order
  BY DEF Instr, Order
<1>2. /\ \A a : loc(a)' = loc(a) /\ kind(a)' = kind(a)
  BY DEF loc, kind
<1>3. \A q, a : mustAlias(q, a)' = mustAlias(q, a)
  BY DEF mustAlias, loc
<1>4. \A q, a : Interferes(q, a)' = Interferes(q, a)
  BY DEF Interferes, mustAlias, loc, kind
<1>5. \A q, b, m : Stops(q, b, m)' = Stops(q, b, m)
  BY DEF Stops, Interferes, mustAlias, loc, kind
<1>6. \A q : LocalStops(q)' = LocalStops(q)
  BY DEF LocalStops, Stops, Interferes, mustAlias, loc, kind
<1>7. \A q : NonLocal(q)' = NonLocal(q)
  BY DEF NonLocal, Stops, Interferes, mustAlias, loc, kind
<1>8. \A q, a : isDef(q, a)' = isDef(q, a) /\ DefType(q, a)' = DefType(q, a)
  BY DEF isDef, DefType, mustAlias, loc, kind
<1>9. \A q : mayReadOrWriteMemory(q)' = mayReadOrWriteMemory(q)
  BY DEF mayReadOrWriteMemory, kind
<1>10. \A a, q : Linked(a, q) => Linked(a, q)'
  BY DEF Linked
<1>11. ASSUME NEW q, Answered(q) PROVE Answered(q)'
  <2>1. SUFFICES ASSUME mayReadOrWriteMemory(q) PROVE Asked(q)'
    BY <1>9 DEF Answered
  <2>2. Asked(q)
    BY <1>11, <2>1 DEF Answered
  <2> QED
    BY <1>1, <1>6, <1>7, <1>8, <1>10, <2>2 DEF Asked
<1> QED
  BY <1>1, <1>6, <1>7, <1>10, <1>11

LEMMA NextAsked ==
  ASSUME DataInv, AskedInv, phase \in {"uses", "nonlocal"}, NextInst, prog' = prog,
         Range(allEdges) \subseteq Range(allEdges'), NEW q, q = inst, Answered(q)'
  PROVE  AskedInv'
<1>1. /\ Order' = Order /\ \A x : Answered(x) => Answered(x)'
  BY AnswersStay
<1>2. k \in 1..Len(Order) /\ Len(Order) \in Nat /\ IsProgram(prog)
  BY OrderFacts, DataAssumption DEF DataInv
<1>3. k' = k + 1 /\ (phase' = "done" <=> k = Len(Order)) /\ phase' # "nonlocal"
  BY DEF NextInst
<1>4. \A m \in 1..Len(Order) : m < k + 1 => m < k \/ m = k
  BY <1>2
<1>5. ASSUME NEW m \in 1..Len(Order), m < k + 1 PROVE Answered(Order[m])'
  <2>1. PICK x : x = Order[m]
    OBVIOUS
  <2>2. Order[m]' = x
    BY <1>1, <2>1
  <2>3. Answered(x)'
    <3>1. CASE m < k
      BY <1>1, <2>1, <3>1 DEF AskedInv
    <3>2. CASE m = k
      BY <2>1, <3>2 DEF inst
    <3> QED
      BY <1>4, <1>5, <3>1, <3>2
  <2> QED
    BY <2>2, <2>3
<1> QED
  BY <1>1, <1>2, <1>3, <1>5 DEF AskedInv

\* As long as the loop over the blocks stays where it is, the answers so far do.
LEMMA SameAsked ==
  ASSUME DataInv, AskedInv, phase' # "done", k' = k, prog' = prog,
         Range(allEdges) \subseteq Range(allEdges'),
         phase' = "nonlocal" =>
           \A q : q = inst => LocalStops(q) = {} /\ \A a \in (NonLocal(q) \ res') \cap Instr : Linked(a, q)'
  PROVE  AskedInv'
<1>1. /\ Order' = Order /\ Instr' = Instr /\ inst' = inst /\ \A x : Answered(x) => Answered(x)'
      /\ \A q : LocalStops(q)' = LocalStops(q) /\ NonLocal(q)' = NonLocal(q)
  BY AnswersStay DEF inst
<1>2. ASSUME NEW m \in 1..Len(Order), m < k PROVE Answered(Order[m])'
  <2>1. PICK x : x = Order[m]
    OBVIOUS
  <2>2. Order[m]' = x
    BY <1>1, <2>1
  <2>3. Answered(x)'
    BY <1>1, <1>2, <2>1 DEF AskedInv
  <2> QED
    BY <2>2, <2>3
<1>3. ASSUME phase' = "nonlocal"
      PROVE  (LocalStops(inst) = {} /\ \A a \in (NonLocal(inst) \ res) \cap Instr : Linked(a, inst))'
  <2>1. PICK q : q = inst
    OBVIOUS
  <2>2. inst' = q
    BY <1>1, <2>1
  <2>3. LocalStops(q)' = {} /\ NonLocal(q)' = NonLocal(q)
        /\ \A a \in (NonLocal(q) \ res') \cap Instr : Linked(a, q)'
    BY <1>1, <1>3, <2>1
  <2> QED
    BY <1>1, <2>2, <2>3
<1> QED
  BY <1>1, <1>2, <1>3 DEF AskedInv

LEMMA AddedLinks ==
  ASSUME TableInv, NEW u, NEW v, NEW dtype, addEdge(u, v, dtype)
  PROVE  Range(allEdges) \subseteq Range(allEdges') /\ Linked(u, v)'
<1>1. Range(allEdges') = Range(allEdges) \cup {Edge(u, v, dtype)}
  BY AddEdgeKeeps
<1>2. Edge(u, v, dtype).u = u /\ Edge(u, v, dtype).v = v
  BY DEF Edge
<1> QED
  BY <1>1, <1>2 DEF Linked

LEMMA DataAsked == DataInv /\ TableInv /\ AskedInv /\ Data => AskedInv'
<1> SUFFICES ASSUME DataInv, TableInv, AskedInv, Data PROVE AskedInv'
  OBVIOUS
<1>1. prog' = prog
  BY DEF Data, AddUse, NoMemory, LocalDependence, AskNonLocal, AddNonLocal, EndNonLocal
<1>2. UNCHANGED graph => Range(allEdges) \subseteq Range(allEdges')
  BY DEF graph
<1>3. PICK q : q = inst
  OBVIOUS
<1>4. CASE AddUse
  <2>1. /\ phase = "uses" /\ phase' = phase /\ k' = k
        /\ IF prog.users[inst][n] \in Instr THEN addEdge(inst, prog.users[inst][n], "REG") ELSE UNCHANGED graph
    BY <1>4 DEF AddUse
  <2>2. Range(allEdges) \subseteq Range(allEdges')
    BY <1>2, <2>1, AddedLinks
  <2> QED
    BY <1>1, <2>1, <2>2, SameAsked
<1>5. CASE NoMemory
  <2>1. phase = "uses" /\ NextInst /\ UNCHANGED graph /\ ~mayReadOrWriteMemory(q)
    BY <1>3, <1>5 DEF NoMemory, UsesDone
  <2>2. Answered(q)
    BY <2>1 DEF Answered
  <2>3. Answered(q)'
    BY <1>1, <1>2, <2>1, <2>2, AnswersStay
  <2> QED
    BY <1>1, <1>2, <1>3, <2>1, <2>3, NextAsked
<1>6. CASE LocalDependence
  <2>1. phase = "uses" /\ NextInst /\ LocalStops(q) # {}
    BY <1>3, <1>6 DEF LocalDependence, UsesDone, isNonLocal
  <2>2. PICK a : /\ a = Latest(LocalStops(q))
                 /\ IF ~isDef(q, a) THEN addEdge(a, q, "DANTI")
                    ELSE IF DefType(q, a) = "none" THEN UNCHANGED graph
                    ELSE addEdge(a, q, DefType(q, a))
    BY <1>3, <1>6 DEF LocalDependence
  <2>3. Range(allEdges) \subseteq Range(allEdges')
    BY <1>2, <2>2, AddedLinks
  <2>4. (isDef(q, a) /\ DefType(q, a) = "none") \/ Linked(a, q)'
    BY <2>2, AddedLinks
  <2>5. LocalStops(q)' = LocalStops(q) /\ Latest(LocalStops(q))' = a
    BY <1>1, <2>2, <2>3, AnswersStay DEF Latest
  <2>6. isDef(q, a)' = isDef(q, a) /\ DefType(q, a)' = DefType(q, a)
    BY <1>1 DEF isDef, DefType, mustAlias, loc, kind
  <2>7. Answered(q)'
    BY <2>1, <2>4, <2>5, <2>6 DEF Answered, Asked
  <2> QED
    BY <1>1, <1>3, <2>1, <2>3, <2>7, NextAsked
<1>7. CASE AskNonLocal
  <2>1. /\ phase = "uses" /\ k' = k /\ UNCHANGED graph /\ LocalStops(q) = {} /\ phase' # "done"
        /\ phase' = "nonlocal" => res' = NonLocal(q)
    BY <1>3, <1>7 DEF AskNonLocal, UsesDone, isNonLocal
  <2> QED
    BY <1>1, <1>2, <1>3, <2>1, SameAsked
<1>8. ASSUME NEW dep \in res, AddNonLocal(dep) PROVE AskedInv'
  <2>1. /\ phase = "nonlocal" /\ phase' = phase /\ k' = k /\ res' = res \ {dep}
        /\ IF dep \in Instr THEN addEdge(dep, q, "DANTI") ELSE UNCHANGED graph
    BY <1>3, <1>8 DEF AddNonLocal, contains
  <2>2. Range(allEdges) \subseteq Range(allEdges') /\ (dep \in Instr => Linked(dep, q)')
    BY <1>2, <2>1, AddedLinks
  <2>3. LocalStops(q) = {} /\ \A a \in (NonLocal(q) \ res) \cap Instr : Linked(a, q)'
    <3>1. \A a \in (NonLocal(q) \ res) \cap Instr : Linked(a, q)
      BY <1>3, <2>1 DEF AskedInv
    <3>2. \A a : Linked(a, q) => Linked(a, q)'
      BY <1>1, <2>2, AnswersStay
    <3>3. LocalStops(q) = {}
      BY <1>3, <2>1 DEF AskedInv
    <3> QED
      BY <3>1, <3>2, <3>3
  <2>4. \A a \in (NonLocal(q) \ res') \cap Instr : Linked(a, q)'
    BY <2>1, <2>2, <2>3
  <2> QED
    BY <1>1, <1>3, <2>1, <2>2, <2>3, <2>4, SameAsked
<1>9. CASE EndNonLocal
  <2>1. phase = "nonlocal" /\ res = {} /\ NextInst /\ UNCHANGED graph
    BY <1>9 DEF EndNonLocal
  <2>2. Answered(q)
    BY <1>3, <2>1 DEF AskedInv, Answered, Asked
  <2>3. Answered(q)'
    BY <1>1, <1>2, <2>1, <2>2, AnswersStay
  <2> QED
    BY <1>1, <1>2, <1>3, <2>1, <2>3, NextAsked
<1> QED
  BY <1>4, <1>5, <1>6, <1>7, <1>8, <1>9 DEF Data

LEMMA AskedAlways == Spec => [](DataInv /\ TableInv /\ AskedInv)
<1>1. Init => AskedInv
  <2> SUFFICES ASSUME Init PROVE AskedInv
    OBVIOUS
  <2>1. phase = "uses" /\ k = 1
    BY DEF Init
  <2>2. \A m \in 1..Len(Order) : ~(m < k)
    BY <2>1
  <2> QED
    BY <2>1, <2>2 DEF AskedInv
<1>2. DataInv /\ TableInv /\ AskedInv /\ [Next]_vars => (DataInv /\ TableInv /\ AskedInv)'
  <2> SUFFICES ASSUME DataInv, TableInv, AskedInv, [Next]_vars PROVE (DataInv /\ TableInv /\ AskedInv)'
    OBVIOUS
  <2>1. CASE Data
    BY <2>1, DataDataInv, DataTableInv, DataAsked
  <2>2. CASE UNCHANGED vars
    <3>1. DataInv'
      BY <2>2 DEF DataInv, TypeOK, vars, graph, Order, Instr, EdgeSet
    <3>2. TableInv'
      BY <2>2, UnchangedKeeps DEF vars
    <3>3. /\ prog' = prog /\ k' = k /\ phase' = phase /\ res' = res /\ allEdges' = allEdges
      BY <2>2 DEF vars, graph
    <3>4. CASE phase = "done"
      <4>1. /\ Order' = Order /\ \A x : Answered(x) => Answered(x)'
        BY <3>3, AnswersStay
      <4>2. ASSUME NEW m \in 1..Len(Order), m < k PROVE Answered(Order[m])'
        <5>1. PICK x : x = Order[m]
          OBVIOUS
        <5>2. Order[m]' = x
          BY <4>1, <5>1
        <5>3. Answered(x)'
          BY <4>1, <4>2, <5>1 DEF AskedInv
        <5> QED
          BY <5>2, <5>3
      <4>3. AskedInv'
        BY <3>3, <3>4, <4>1, <4>2 DEF AskedInv
      <4> QED
        BY <3>1, <3>2, <4>3
    <3>5. CASE phase # "done"
      <4>1. ASSUME phase' = "nonlocal", NEW q, q = inst
            PROVE  LocalStops(q) = {} /\ \A a \in (NonLocal(q) \ res') \cap Instr : Linked(a, q)'
        <5>1. LocalStops(q) = {} /\ \A a \in (NonLocal(q) \ res) \cap Instr : Linked(a, q)
          BY <3>3, <4>1 DEF AskedInv
        <5>2. \A a : Linked(a, q) => Linked(a, q)'
          BY <3>3, AnswersStay
        <5> QED
          BY <3>3, <5>1, <5>2
      <4> QED
        BY <3>1, <3>2, <3>3, <3>5, <4>1, SameAsked
    <3> QED
      BY <3>4, <3>5
  <2> QED
    BY <2>1, <2>2 DEF Next
<1> QED
  BY <1>1, <1>2, InitDataInv, InitTableInv, PTL DEF Spec
-----------------------------------------------------------------------------
(* Chains *)

\* Between events i and j of a trace it is known what is done to place x: both are accesses
\* to it alone, and so are the others between them that touch it, and no visit of a
\* block reads it twice.
Clear(tr, i, j, x) ==
  /\ loc(tr[i]) = {x} /\ loc(tr[j]) = {x}
  /\ \A m \in i..j : x \in loc(tr[m]) => loc(tr[m]) = {x}
  /\ \A l, m \in i..j : l < m /\ tr[l][3] = tr[m][3] /\ loc(tr[l]) = {x} /\ loc(tr[m]) = {x}
                        => ~(kind(tr[l]) = "load" /\ kind(tr[m]) = "load")

LEMMA Single ==
  ASSUME NEW S \in SUBSET Location, S # {}, ~(Cardinality(S) > 1)
  PROVE  \E x : S = {x}
<1>1. IsFiniteSet(S)
  BY DataAssumption, FS_Subset
<1>2. Cardinality(S) \in Nat
  BY <1>1, FS_CardinalityType
<1>3. Cardinality(S) # 0
  BY <1>1, FS_EmptySet
<1>4. Cardinality(S) = 1
  BY <1>2, <1>3
<1> QED
  BY <1>1, <1>4, FS_Singleton

LEMMA EventFacts ==
  ASSUME IsProgram(prog), NEW p \in Seq(Block), p # <<>>, NEW i \in DOMAIN Trace(p)
  PROVE  \E m \in 1..Len(p) : \E l \in 1..Len(prog.insts[p[m]]) :
           /\ Trace(p)[i] = <<p[m], l, m>> /\ Of(Trace(p)[i]) = <<p[m], l>> /\ <<p[m], l>> \in Instr
           /\ loc(Trace(p)[i]) = loc(<<p[m], l>>) /\ kind(Trace(p)[i]) = kind(<<p[m], l>>)
           /\ loc(Trace(p)[i]) \in SUBSET Location /\ kind(Trace(p)[i]) \in Kind
           /\ (kind(Trace(p)[i]) = "other" <=> loc(Trace(p)[i]) = {})
<1>0. PICK m \in 1..Len(p) : \E l \in 1..Len(prog.insts[p[m]]) : Trace(p)[i] = <<p[m], l, m>>
  BY TraceFacts
<1>1. PICK l \in 1..Len(prog.insts[p[m]]) : Trace(p)[i] = <<p[m], l, m>>
  BY <1>0
<1> DEFINE e == <<p[m], l, m>>
           a == <<p[m], l>>
<1>2. p[m] \in Block
  OBVIOUS
<1>3. a \in Instr /\ prog.insts[p[m]] \in Seq([kind : Kind, loc : SUBSET Location])
  BY <1>2, ProgramFacts
<1>4. Of(e) = a
  BY DEF Of
<1>5. loc(e) = loc(a) /\ kind(e) = kind(a)
  BY DEF loc, kind, parent
<1>6. prog.insts[p[m]][l] \in [kind : Kind, loc : SUBSET Location]
  <2> DEFINE s == prog.insts[p[m]]
             R == [kind : Kind, loc : SUBSET Location]
  <2>1. s \in Seq(R) /\ l \in 1..Len(s)
    BY <1>3
  <2> HIDE DEF s, R
  <2>2. s[l] \in R
    BY <2>1
  <2> QED
    BY <2>2 DEF s, R
<1>7. loc(a) \in SUBSET Location /\ kind(a) \in Kind
  BY <1>6 DEF loc, kind, parent
<1>8. kind(a) = "other" <=> loc(a) = {}
  <2>1. \A b \in InstrsOf(prog, DOMAIN prog.insts) :
          (prog.insts[parent(b)][b[2]].kind = "other") <=> (prog.insts[parent(b)][b[2]].loc = {})
    BY DEF IsProgram
  <2>2. a \in InstrsOf(prog, DOMAIN prog.insts)
    <3>1. DOMAIN prog.insts = Block \cup {predecessor}
      BY DEF IsProgram
    <3> QED
      BY <1>3, <3>1 DEF Instr, InstrsOf
  <2> QED
    BY <2>1, <2>2 DEF kind, loc
<1> QED
  BY <1>1, <1>3, <1>4, <1>5, <1>7, <1>8

LEMMA UnblurredClear ==
  ASSUME IsProgram(prog), NEW p \in Seq(Block), p # <<>>, NEW tr, tr = Trace(p),
         NEW j \in DOMAIN tr, NEW i \in 1..j - 1,
         loc(tr[i]) \cap loc(tr[j]) # {}, ~Blurred(tr, i, j)
  PROVE  \E x : Clear(tr, i, j, x)
<1> DEFINE Near == {m \in i..j : loc(tr[m]) \cap loc(tr[i]) \cap loc(tr[j]) # {}}
<1>1. DOMAIN tr = 1..Len(tr) /\ Len(tr) \in Nat
  BY TraceFacts
<1>2. i \in i..j /\ j \in i..j /\ i..j \subseteq DOMAIN tr /\ i \in DOMAIN tr
  BY <1>1
<1>3. \A m \in DOMAIN tr : loc(tr[m]) \in SUBSET Location
  BY EventFacts
<1>4. \A m \in Near : ~(Cardinality(loc(tr[m])) > 1)
  BY DEF Blurred
<1>5. \A l, m \in Near : ~(l < m /\ tr[l][3] = tr[m][3] /\ kind(tr[l]) = "load" /\ kind(tr[m]) = "load")
  BY DEF Blurred
<1>6. i \in Near /\ j \in Near
  BY <1>2
<1>7. \A m \in Near : \E x : loc(tr[m]) = {x}
  <2> SUFFICES ASSUME NEW m \in Near PROVE \E x : loc(tr[m]) = {x}
    OBVIOUS
  <2>1. loc(tr[m]) \in SUBSET Location /\ loc(tr[m]) # {}
    BY <1>2, <1>3
  <2> QED
    BY <1>4, <2>1, Single
<1>8. PICK x : loc(tr[i]) = {x}
  BY <1>6, <1>7
<1>9. loc(tr[j]) = {x}
  BY <1>6, <1>7, <1>8
<1>10. \A m \in i..j : x \in loc(tr[m]) => m \in Near
  BY <1>8, <1>9
<1> HIDE DEF Near
<1>11. \A m \in i..j : x \in loc(tr[m]) => loc(tr[m]) = {x}
  BY <1>7, <1>10
<1>12. ASSUME NEW l \in i..j, NEW m \in i..j, l < m, tr[l][3] = tr[m][3], loc(tr[l]) = {x}, loc(tr[m]) = {x}
       PROVE  ~(kind(tr[l]) = "load" /\ kind(tr[m]) = "load")
  BY <1>5, <1>10, <1>12
<1>13. Clear(tr, i, j, x)
  BY <1>8, <1>9, <1>11, <1>12 DEF Clear
<1> QED
  BY <1>13, Zenon

\* What is clear of an interval is clear of the parts of it.
LEMMA ClearPart ==
  ASSUME NEW tr, NEW i \in Nat, NEW j \in Nat, NEW x, Clear(tr, i, j, x),
         NEW a \in i..j, loc(tr[a]) = {x}
  PROVE  Clear(tr, i, a, x)
<1>1. i..a \subseteq i..j
  OBVIOUS
<1> QED
  BY <1>1 DEF Clear

\* An access to x interferes with a later one that knows of no other place, and no other does.
LEMMA InterferesIff ==
  ASSUME NEW q, NEW x, loc(q) = {x}
  PROVE  /\ \A a : Interferes(q, a) => x \in loc(a)
         /\ \A a : loc(a) = {x} => Interferes(q, a) /\ mustAlias(q, a)
<1>1. Cardinality({x}) = 1
  BY FS_Singleton
<1> QED
  BY <1>1 DEF Interferes, mustAlias

\* Such an access is a dependence of a known kind, if not both are loads.
LEMMA DefHasType ==
  ASSUME NEW q, NEW a, ~(kind(q) = "load" /\ kind(a) = "load"), isDef(q, a)
  PROVE  DefType(q, a) # "none"
BY DEF isDef, DefType

\* Latest is the last one.
LEMMA LatestLast ==
  ASSUME NEW q, NEW b, NEW m \in Nat, Stops(q, b, m) # {}
  PROVE  \E c \in Stops(q, b, m) : \A y \in Stops(q, b, m) : y[2] <= c[2]
<1> DEFINE S == Stops(q, b, m)
           N == {y[2] : y \in S}
<1>1. S \subseteq {b} \X (1..m)
  BY DEF Stops
<1>2. N \subseteq 0..m /\ N # {}
  BY <1>1
<1>3. PICK h \in N : \A y \in N : y <= h
  <2> HIDE DEF N
  <2> QED
    BY <1>2, Largest
<1>4. PICK c \in S : c[2] = h
  OBVIOUS
<1>5. \A y \in S : y[2] <= c[2]
  BY <1>3, <1>4
<1> QED
  BY <1>5

\* Of the accesses to x between events i and j the last before j has an edge to j.
LEMMA NearestLinked ==
  ASSUME IsProgram(prog), \A q \in Instr : Answered(q),
         NEW p, IsPath(p), p # <<>>, NEW tr, tr = Trace(p),
         NEW i \in DOMAIN tr, NEW j \in DOMAIN tr, i < j, NEW x, Clear(tr, i, j, x),
         NEW a \in i..j - 1, loc(tr[a]) = {x}, \A z \in i..j - 1 : loc(tr[z]) = {x} => z <= a
  PROVE  Linked(Of(tr[a]), Of(tr[j]))
<1>0. /\ DOMAIN tr = 1..Len(tr) /\ Len(tr) \in Nat /\ p \in Seq(Block) /\ Len(p) \in Nat
      /\ \A y, z \in DOMAIN tr : y < z => Earlier(tr[y], tr[z])
  BY TraceFacts DEF IsPath
<1>00. \A z \in DOMAIN tr : z \in Nat
  <2>1. DOMAIN tr = 1..Len(tr) /\ Len(tr) \in Nat
    BY <1>0
  <2> QED
    BY <2>1
<1>1. a \in DOMAIN tr /\ a < j /\ a \in Nat /\ i <= a /\ a \in i..j /\ j \in i..j
  BY <1>0
<1>2. PICK v \in 1..Len(p) : \E l \in 1..Len(prog.insts[p[v]]) :
           /\ tr[j] = <<p[v], l, v>> /\ Of(tr[j]) = <<p[v], l>> /\ <<p[v], l>> \in Instr
           /\ loc(tr[j]) = loc(<<p[v], l>>) /\ kind(tr[j]) = kind(<<p[v], l>>)
           /\ (kind(tr[j]) = "other" <=> loc(tr[j]) = {})
  BY <1>0, EventFacts
<1>3. PICK l \in 1..Len(prog.insts[p[v]]) :
           /\ tr[j] = <<p[v], l, v>> /\ Of(tr[j]) = <<p[v], l>> /\ <<p[v], l>> \in Instr
           /\ loc(tr[j]) = loc(<<p[v], l>>) /\ kind(tr[j]) = kind(<<p[v], l>>)
           /\ (kind(tr[j]) = "other" <=> loc(tr[j]) = {})
  BY <1>2
<1>4. PICK u \in 1..Len(p) : \E g \in 1..Len(prog.insts[p[u]]) :
           /\ tr[a] = <<p[u], g, u>> /\ Of(tr[a]) = <<p[u], g>> /\ <<p[u], g>> \in Instr
           /\ loc(tr[a]) = loc(<<p[u], g>>) /\ kind(tr[a]) = kind(<<p[u], g>>)
  BY <1>0, <1>1, EventFacts
<1>5. PICK g \in 1..Len(prog.insts[p[u]]) :
           /\ tr[a] = <<p[u], g, u>> /\ Of(tr[a]) = <<p[u], g>> /\ <<p[u], g>> \in Instr
           /\ loc(tr[a]) = loc(<<p[u], g>>) /\ kind(tr[a]) = kind(<<p[u], g>>)
  BY <1>4
<1> DEFINE q == <<p[v], l>>
           A == <<p[u], g>>
           Clean(m, h) == ~Interferes(q, <<p[m], h>>)
<1>6. loc(q) = {x} /\ loc(A) = {x} /\ q \in Instr /\ A \in Instr
  BY <1>3, <1>5 DEF Clear
<1>7. Earlier(<<p[u], g, u>>, <<p[v], l, v>>)
  BY <1>0, <1>1, <1>3, <1>5
\* Nothing that happens between the two interferes.
<1>8. ASSUME NEW m \in 1..Len(p), NEW h \in 1..Len(prog.insts[p[m]]),
             Earlier(<<p[u], g, u>>, <<p[m], h, m>>), Earlier(<<p[m], h, m>>, <<p[v], l, v>>)
      PROVE  Clean(m, h)
  <2>0. /\ a \in DOMAIN Trace(p) /\ j \in DOMAIN Trace(p)
        /\ Earlier(Trace(p)[a], <<p[m], h, m>>) /\ Earlier(<<p[m], h, m>>, Trace(p)[j])
    BY <1>1, <1>3, <1>5, <1>8
  <2>1. PICK z \in DOMAIN tr : a < z /\ z < j /\ tr[z] = <<p[m], h, m>>
    <3>1. PICK z \in DOMAIN Trace(p) : a < z /\ z < j /\ Trace(p)[z] = <<p[m], h, m>>
      BY <1>0, <2>0, Between
    <3>2. z \in DOMAIN tr /\ tr[z] = <<p[m], h, m>>
      BY <3>1
    <3> QED
      BY <3>1, <3>2
  <2>2. z \in i..j - 1 /\ z \in i..j /\ ~(z <= a)
    <3>1. z \in Nat /\ i \in Nat /\ j \in Nat
      BY <1>00, <2>1
    <3>2. i <= a /\ a \in Nat /\ a < z /\ z < j
      BY <1>1, <2>1
    <3> QED
      BY <3>1, <3>2
  <2>3. loc(tr[z]) # {x}
    BY <2>2
  <2>4. x \notin loc(tr[z])
    BY <2>2, <2>3 DEF Clear
  <2>5. loc(tr[z]) = loc(<<p[m], h>>)
    BY <2>1 DEF loc, parent
  <2> HIDE DEF q
  <2> QED
    BY <1>6, <2>4, <2>5, InterferesIff
<1>9. Interferes(q, A)
  BY <1>6, InterferesIff
<1>10. Answered(q) /\ mayReadOrWriteMemory(q)
  BY <1>3, <1>6 DEF mayReadOrWriteMemory
<1>11. Asked(q)
  BY <1>10 DEF Answered
<1>12. /\ u \in Nat /\ v \in Nat /\ g \in Nat /\ l \in Nat /\ p[u] \in Block /\ p[v] \in Block
       /\ \A m \in 1..Len(p) : Len(prog.insts[p[m]]) \in Nat
  <2>1. \A m \in 1..Len(p) : p[m] \in Block
    BY <1>0
  <2>2. \A b \in Block : Len(prog.insts[b]) \in Nat
    BY ProgramFacts
  <2> QED
    BY <2>1, <2>2
<1>13. LocalStops(q) = Stops(q, p[v], l - 1)
  BY DEF LocalStops, parent
<1>14. CASE u = v
  <2>1. g < l /\ p[u] = p[v] /\ l - 1 \in Nat
    BY <1>7, <1>12, <1>14 DEF Earlier
  <2>2. A \in LocalStops(q)
    <3>1. g \in 1..l - 1
      BY <1>12, <2>1
    <3> HIDE DEF q
    <3> QED
      BY <1>9, <1>13, <2>1, <3>1 DEF Stops
  <2>3. Latest(LocalStops(q)) = A
    <3> DEFINE b == Latest(LocalStops(q))
    <3>1. b \in LocalStops(q) /\ LocalStops(q) \subseteq {p[v]} \X (1..l - 1)
      BY <1>13, <2>1, <2>2, LatestIn
    <3>2. b = <<p[v], b[2]>> /\ b[2] \in 1..l - 1 /\ Interferes(q, b)
      BY <1>13, <3>1 DEF Stops
    <3>3. ~(b[2] < g)
      <4>1. \E c \in LocalStops(q) : \A y \in LocalStops(q) : y[2] <= c[2]
        BY <1>13, <2>1, <2>2, LatestLast
      <4>2. \A y \in LocalStops(q) : y[2] <= b[2]
        BY <4>1 DEF Latest
      <4>3. g <= b[2]
        BY <2>2, <4>2
      <4> QED
        BY <1>12, <3>2, <4>3
    <3>4. ~(g < b[2])
      <4> SUFFICES ASSUME g < b[2] PROVE FALSE
        OBVIOUS
      <4> DEFINE h == b[2]
      <4>1. h \in 1..Len(prog.insts[p[v]]) /\ h < l /\ h \in Nat
        BY <1>12, <3>2
      <4> HIDE DEF b, h
      <4>2. Earlier(<<p[u], g, u>>, <<p[v], h, v>>) /\ Earlier(<<p[v], h, v>>, <<p[v], l, v>>)
        BY <1>14, <4>1 DEF Earlier, h
      <4>3. Clean(v, h)
        BY <1>8, <4>1, <4>2
      <4> QED
        BY <3>2, <4>3 DEF h
    <3> QED
      BY <1>12, <2>1, <3>2, <3>3, <3>4
  <2>4. ~(kind(q) = "load" /\ kind(A) = "load")
    <3>1. a < j /\ tr[a][3] = tr[j][3] /\ loc(tr[a]) = {x} /\ loc(tr[j]) = {x}
      BY <1>1, <1>3, <1>5, <1>14 DEF Clear
    <3>2. ~(kind(tr[a]) = "load" /\ kind(tr[j]) = "load")
      BY <1>1, <3>1 DEF Clear
    <3> QED
      BY <1>3, <1>5, <3>2
  <2>5. isDef(q, A) => DefType(q, A) # "none"
    BY <2>4, DefHasType
  <2>6. Linked(A, q)
    BY <1>11, <2>2, <2>3, <2>5 DEF Asked
  <2> QED
    BY <1>3, <1>5, <2>6
<1>15. CASE u # v
  <2>1. u < v
    BY <1>7, <1>12, <1>15 DEF Earlier
  <2>2. LocalStops(q) = {}
    <3> SUFFICES ASSUME NEW b \in LocalStops(q) PROVE FALSE
      OBVIOUS
    <3> DEFINE h == b[2]
    <3>1. b = <<p[v], h>> /\ h \in 1..l - 1 /\ Interferes(q, b)
      BY <1>13 DEF Stops
    <3>2. h \in 1..Len(prog.insts[p[v]]) /\ h < l
      BY <1>12, <3>1
    <3>3. Earlier(<<p[u], g, u>>, <<p[v], h, v>>) /\ Earlier(<<p[v], h, v>>, <<p[v], l, v>>)
      BY <2>1, <3>2 DEF Earlier
    <3> HIDE DEF h
    <3>4. Clean(v, h)
      BY <1>8, <3>2, <3>3
    <3> QED
      BY <3>1, <3>4
  <2> DEFINE E == EdgesOf(prog.cfg) \cup {<<predecessor, header>>}
             Whole(b) == Stops(q, b, Len(prog.insts[b]))
             Through == {f \in E : Whole(f[1]) = {}}
             R == Reaching(Through, p[v], exit)
  <2>3. IsFiniteSet(Through)
    <3>1. IsFiniteSet(EdgesOf(prog.cfg))
      BY LoopFinite
    <3>2. IsFiniteSet(E)
      BY <3>1, FS_AddElement
    <3> QED
      BY <3>2, FS_Subset
  <2>4. \A m \in 1..Len(p) : m < Len(p) => <<p[m], p[m + 1]>> \in E /\ p[m] # exit /\ p[m] \in Block
    <3> SUFFICES ASSUME NEW m \in 1..Len(p), m < Len(p)
                 PROVE  <<p[m], p[m + 1]>> \in E /\ p[m] # exit /\ p[m] \in Block
      OBVIOUS
    <3>1. p[m] \in Block /\ p[m + 1] \in Block /\ m \in 1..Len(p) - 1
      BY <1>0
    <3>2. p[m + 1] \in prog.cfg[p[m]]
      BY <3>1 DEF IsPath
    <3>3. p[m] # exit
      BY <3>1, LoopAssumption DEF Block, exit
    <3> QED
      BY <3>1, <3>2, <3>3 DEF EdgesOf
  <2>5. ASSUME NEW m \in 1..Len(p), u < m, m < v PROVE Whole(p[m]) = {}
    <3> SUFFICES ASSUME NEW b \in Whole(p[m]) PROVE FALSE
      OBVIOUS
    <3> DEFINE h == b[2]
    <3>1. b = <<p[m], h>> /\ h \in 1..Len(prog.insts[p[m]]) /\ Interferes(q, b)
      BY DEF Stops
    <3>2. Earlier(<<p[u], g, u>>, <<p[m], h, m>>) /\ Earlier(<<p[m], h, m>>, <<p[v], l, v>>)
      BY <2>5 DEF Earlier
    <3> HIDE DEF h
    <3>3. Clean(m, h)
      BY <1>8, <3>1, <3>2
    <3> QED
      BY <3>1, <3>3
  <2>6. p[u + 1] \in R
    <3> DEFINE W == {m \in Nat : m < v - u => p[v - m] \in R}
    <3>1. 0 \in W
      <4>1. p[v] # exit
        BY <1>12, LoopAssumption DEF Block, exit
      <4>2. p[v] \in R
        <5> HIDE DEF Through
        <5> QED
          BY <2>3, <4>1, ReachStart
      <4>3. v - 0 = v
        BY <1>12
      <4> HIDE DEF R
      <4> QED
        BY <4>2, <4>3
    <3>2. ASSUME NEW m \in Nat, m \in W PROVE m + 1 \in W
      <4> SUFFICES ASSUME m + 1 < v - u PROVE p[v - (m + 1)] \in R
        OBVIOUS
      <4> DEFINE w == v - (m + 1)
      <4>1. w \in 1..Len(p) /\ u < w /\ w < v /\ w < Len(p) /\ v - m = w + 1 /\ m < v - u
        BY <1>12
      <4> HIDE DEF w, W
      <4>2. p[w + 1] \in R
        BY <3>2, <4>1 DEF W
      <4>3. <<p[w], p[w + 1]>> \in E /\ p[w] # exit
        BY <2>4, <4>1
      <4>4. Whole(p[w]) = {}
        BY <2>5, <4>1
      <4> DEFINE f == <<p[w], p[w + 1]>>
      <4>5. f \in Through /\ f[1] = p[w] /\ f[2] = p[w + 1]
        BY <4>3, <4>4
      <4> HIDE DEF f, Through
      <4>6. f[1] \in R
        BY <2>3, <4>2, <4>3, <4>5, ReachStep
      <4> QED
        BY <4>5, <4>6 DEF w
    <3>3. v - (u + 1) \in Nat
      BY <1>12, <2>1
    <3>4. v - (u + 1) \in W
      <4> HIDE DEF W
      <4> QED
        BY <3>1, <3>2, <3>3, SetInduction
    <3>5. v - (u + 1) < v - u /\ v - (v - (u + 1)) = u + 1
      BY <1>12
    <3> HIDE DEF R
    <3> QED
      BY <3>4, <3>5
  <2>7. A \in Whole(p[u])
    <3> HIDE DEF q
    <3> QED
      BY <1>9 DEF Stops
  <2>8. Latest(Whole(p[u])) = A
    <3> DEFINE b == Latest(Whole(p[u]))
    <3>1. b \in Whole(p[u]) /\ Whole(p[u]) \subseteq {p[u]} \X (1..Len(prog.insts[p[u]]))
      BY <1>12, <2>7, LatestIn
    <3>2. b = <<p[u], b[2]>> /\ b[2] \in 1..Len(prog.insts[p[u]]) /\ Interferes(q, b)
      BY <3>1 DEF Stops
    <3>3. ~(b[2] < g)
      <4>1. \E c \in Whole(p[u]) : \A y \in Whole(p[u]) : y[2] <= c[2]
        BY <1>12, <2>7, LatestLast
      <4>2. \A y \in Whole(p[u]) : y[2] <= b[2]
        BY <4>1 DEF Latest
      <4>3. g <= b[2]
        BY <2>7, <4>2
      <4> QED
        BY <1>12, <3>2, <4>3
    <3>4. ~(g < b[2])
      <4> SUFFICES ASSUME g < b[2] PROVE FALSE
        OBVIOUS
      <4> DEFINE h == b[2]
      <4>1. h \in 1..Len(prog.insts[p[u]])
        BY <3>2
      <4> HIDE DEF b, h
      <4>2. Earlier(<<p[u], g, u>>, <<p[u], h, u>>) /\ Earlier(<<p[u], h, u>>, <<p[v], l, v>>)
        BY <2>1, <4>1 DEF Earlier, h
      <4>3. Clean(u, h)
        BY <1>8, <4>1, <4>2
      <4> QED
        BY <3>2, <4>3 DEF h
    <3> QED
      BY <1>12, <3>2, <3>3, <3>4
  <2>9. A \in NonLocal(q)
    <3> DEFINE f == <<p[u], p[u + 1]>>
    <3>1. u < Len(p)
      BY <1>12, <2>1
    <3>2. f \in E /\ f[1] = p[u] /\ f[2] = p[u + 1]
      BY <2>4, <3>1
    <3>3. f \in E \ Through
      BY <2>7, <3>2
    <3>4. f \in {e \in E \ Through : e[2] \in R}
      <4> HIDE DEF R, Through, E
      <4> QED
        BY <2>6, <3>2, <3>3
    <3>5. parent(q) = p[v]
      BY DEF parent
    <3>6. NonLocal(q) = {Latest(Whole(e[1])) : e \in {y \in E \ Through : y[2] \in R}}
      BY <3>5 DEF NonLocal
    <3>7. A = Latest(Whole(f[1]))
      BY <2>8, <3>2
    <3> HIDE DEF f, R, Through, E, Whole, q
    <3> QED
      BY <3>4, <3>6, <3>7
  <2>10. Linked(A, q)
    BY <1>6, <1>11, <2>2, <2>9 DEF Asked
  <2> QED
    BY <1>3, <1>5, <2>10
<1> QED
  BY <1>14, <1>15

\* An access to x is ordered before every later one the interval between is clear to.
LEMMA ClearOrdered ==
  ASSUME IsProgram(prog), \A q \in Instr : Answered(q),
         NEW p, IsPath(p), p # <<>>, NEW tr, tr = Trace(p)
  PROVE  \A j \in DOMAIN tr : \A i \in 1..j - 1 : \A x : Clear(tr, i, j, x) => i \in Ordered(tr)[j]
<1>0. DOMAIN tr = 1..Len(tr) /\ Len(tr) \in Nat /\ p \in Seq(Block)
  BY TraceFacts DEF IsPath
<1>1. \A j \in 1..Len(tr) :
        Ordered(tr)[j] = Direct(tr, j) \cup UNION {Ordered(tr)[i] : i \in Direct(tr, j)}
  BY <1>0, OrderedIs
<1> DEFINE Good(j) == \A i \in 1..j - 1 : \A x : Clear(tr, i, j, x) => i \in Ordered(tr)[j]
           W == {m \in Nat : \A j \in 1..Len(tr) : j <= m => Good(j)}
<1>2. 0 \in W
  OBVIOUS
<1>3. ASSUME NEW m \in Nat, m \in W PROVE m + 1 \in W
  <2> SUFFICES ASSUME NEW j \in 1..Len(tr), j = m + 1,
                      NEW i \in 1..j - 1, NEW x, Clear(tr, i, j, x)
               PROVE  i \in Ordered(tr)[j]
    <3>1. ASSUME NEW j \in 1..Len(tr), j <= m + 1, j # m + 1 PROVE Good(j)
      BY <1>3, <3>1
    <3> HIDE DEF Ordered, Clear
    <3> QED
      BY <3>1
  <2> DEFINE S == {z \in i..j - 1 : loc(tr[z]) = {x}}
  <2>1. i \in DOMAIN tr /\ j \in DOMAIN tr /\ i < j /\ i \in Nat /\ j \in Nat /\ i \in i..j - 1
    BY <1>0
  <2>2. i \in S /\ S \subseteq 0..j - 1 /\ j - 1 \in Nat
    BY <2>1 DEF Clear
  <2>3. PICK a \in S : \A z \in S : z <= a
    <3> HIDE DEF S
    <3> QED
      BY <2>2, Largest
  <2>4. a \in i..j - 1 /\ loc(tr[a]) = {x} /\ \A z \in i..j - 1 : loc(tr[z]) = {x} => z <= a
    BY <2>3
  <2>5. Linked(Of(tr[a]), Of(tr[j]))
    BY <2>1, <2>4, NearestLinked
  <2>6. a \in Direct(tr, j)
    <3>1. Of(tr[j]) \in Instr
      <4>1. j \in DOMAIN Trace(p)
        BY <2>1
      <4>2. Of(Trace(p)[j]) \in Instr
        BY <1>0, <4>1, EventFacts
      <4> QED
        BY <4>2
    <3>2. Of(tr[a]) \in To[Of(tr[j])]
      BY <2>5, <3>1 DEF To, Linked
    <3>3. a \in 1..j - 1
      BY <2>1, <2>4
    <3> QED
      BY <3>2, <3>3 DEF Direct
  <2>7. a \in Ordered(tr)[j] /\ Ordered(tr)[a] \subseteq Ordered(tr)[j]
    <3>1. Ordered(tr)[j] = Direct(tr, j) \cup UNION {Ordered(tr)[z] : z \in Direct(tr, j)}
      BY <1>1
    <3> QED
      BY <2>6, <3>1
  <2>8. CASE a = i
    BY <2>7, <2>8
  <2>9. CASE a # i
    <3>1. i \in 1..a - 1 /\ a \in 1..Len(tr) /\ a <= m /\ a \in i..j
      BY <2>1, <2>4, <2>9, <1>0
    <3>2. Clear(tr, i, a, x)
      BY <2>1, <2>4, <3>1, ClearPart
    <3>3. i \in Ordered(tr)[a]
      BY <1>3, <3>1, <3>2
    <3> QED
      BY <2>7, <3>3
  <2> QED
    BY <2>8, <2>9
<1>4. Len(tr) \in W
  <2> HIDE DEF W
  <2> QED
    BY <1>0, <1>2, <1>3, SetInduction
<1> QED
  BY <1>0, <1>4

LEMMA EmptyChained == Chained(Trace(<<>>))
<1> DEFINE s == [m \in DOMAIN <<>> |-> [l \in DOMAIN prog.insts[<<>>[m]] |-> <<<<>>[m], l, m>>]]
<1>1. DOMAIN s = {}
  OBVIOUS
<1>2. s = <<>>
  BY <1>1
<1>3. Trace(<<>>) = FlattenSeq(s)
  BY DEF Trace
<1> HIDE DEF s
<1>4. FlattenSeq(s) = s
  <2>1. Len(s) = 0
    BY <1>2
  <2> QED
    BY <2>1 DEF FlattenSeq
<1>5. DOMAIN Trace(<<>>) = {}
  BY <1>1, <1>3, <1>4
<1> QED
  BY <1>5 DEF Chained

ChainsKept == phase = "done" => \A p : IsPath(p) => Chained(Trace(p))

\* On every path of the loop, wherever it starts and however long it is, two accesses that
\* conflict are ordered by the edges of the graph, one by one or by a chain of them, in spite of
\* the nearest dependence being all that is asked for (DSWP_1.cpp:84-222).
THEOREM ChainsAlwaysKept == Spec => []ChainsKept
<1>1. DataInv /\ AskedInv => ChainsKept
  <2> SUFFICES ASSUME DataInv, AskedInv, phase = "done", NEW p, IsPath(p), p # <<>>
               PROVE  Chained(Trace(p))
    BY EmptyChained DEF ChainsKept
  <2>1. IsProgram(prog)
    BY DataAssumption DEF DataInv
  <2>2. \A q \in Instr : Answered(q)
    <3> SUFFICES ASSUME NEW q \in Instr PROVE Answered(q)
      OBVIOUS
    <3>1. PICK m \in 1..Len(Order) : Order[m] = q
      BY <2>1, OrderHasAll
    <3>2. m < k
      <4>1. k = Len(Order) + 1 /\ Len(Order) \in Nat
        BY <2>1, OrderFacts DEF AskedInv
      <4> QED
        BY <4>1
    <3> QED
      BY <3>1, <3>2 DEF AskedInv
  <2> DEFINE tr == Trace(p)
  <2>3. ASSUME NEW j \in DOMAIN tr, NEW i \in 1..j - 1, Conflict(tr[i], tr[j]), ~Blurred(tr, i, j)
        PROVE  i \in Ordered(tr)[j]
    <3>1. loc(tr[i]) \cap loc(tr[j]) # {} /\ p \in Seq(Block)
      BY <2>3 DEF Conflict, IsPath
    <3>2. \E x : Clear(tr, i, j, x)
      BY <2>1, <2>3, <3>1, UnblurredClear
    <3> HIDE DEF tr
    <3> QED
      BY <2>1, <2>2, <3>2, ClearOrdered DEF tr
  <2> QED
    BY <2>3 DEF Chained
<1> QED
  BY <1>1, AskedAlways, PTL

\* The same on the paths the run looks at (DSWP_1.cpp:84-222).
THEOREM ConflictsAlwaysOrdered == Spec => []ConflictsOrdered
<1>1. DataInv /\ ChainsKept => ConflictsOrdered
  <2> SUFFICES ASSUME DataInv, ChainsKept, phase = "done", NEW p \in PathsOf(2 * NumBlock)
               PROVE  Chained(Trace(p))
    BY DEF ConflictsOrdered
  <2>1. IsProgram(prog) /\ 2 * NumBlock \in Nat
    BY DataAssumption, LoopAssumption DEF DataInv
  <2>2. IsPath(p)
    BY <2>1, PathsOfLoop
  <2> QED
    BY <2>2 DEF ChainsKept
<1> QED
  BY <1>1, ChainsAlwaysKept, AskedAlways, PTL
-----------------------------------------------------------------------------
(* dfsVisit *)

Frame(j) == stack[j].block
Call == [block : Block, todo : SUBSET Block]

\* A block is met, on the stack or left once; ord lists those left.
DfsInv ==
  /\ ord \in Seq(Block) /\ IsInjective(ord)
  /\ stack \in Seq(Call)
  /\ \A i, j \in 1..Len(stack) : Frame(i) = Frame(j) => i = j
  /\ \A j \in 1..Len(stack) : Frame(j) \notin Range(ord)
  /\ vis = Range(ord) \cup {Frame(j) : j \in 1..Len(stack)}

\* The calls on the stack are a path from the header, and what leads from a block is met
\* by the time it is left.
SearchInv ==
  /\ vis # {} => header \in vis
  /\ \A b \in Range(ord) : InLoop(b) \subseteq vis
  /\ \A j \in 1..Len(stack) : /\ stack[j].todo \subseteq InLoop(Frame(j))
                              /\ InLoop(Frame(j)) \ stack[j].todo \subseteq vis
  /\ stack # <<>> => Frame(1) = header
  /\ \A j \in 1..Len(stack) - 1 : Frame(j + 1) \in InLoop(Frame(j))

LEMMA CfgFacts ==
  ASSUME prog \in Programs
  PROVE  /\ cfg \in [Block -> SUBSET (Block \cup {exit})] /\ IsLoop(cfg) /\ IsProgram(prog)
         /\ header \in Block /\ exit \notin Block
         /\ \A b \in Block : /\ InLoop(b) \subseteq Block
                             /\ \A s \in cfg[b] : <<b, s>> \in EdgesOf(cfg)
         /\ \A f \in EdgesOf(cfg) : f = <<f[1], f[2]>> /\ f[1] \in Block /\ f[2] \in cfg[f[1]]
         /\ IsFiniteSet(EdgesOf(cfg)) /\ EdgesOf(cfg) \subseteq Block \X (Block \cup {exit})
<1>1. IsProgram(prog)
  BY DataAssumption
<1>2. cfg \in [Block -> SUBSET (Block \cup {exit})] /\ IsLoop(cfg)
  BY <1>1 DEF IsProgram, cfg
<1>3. header \in Block /\ exit \notin Block /\ IsFiniteSet(EdgesOf(cfg)) /\ EdgesOf(cfg) \subseteq Block \X (Block \cup {exit})
  BY LoopFinite
<1>4. \A b \in Block : cfg[b] \subseteq Block \cup {exit}
  BY <1>2
<1>5. \A b \in Block : InLoop(b) \subseteq Block /\ \A s \in cfg[b] : <<b, s>> \in EdgesOf(cfg)
  BY <1>4 DEF InLoop, EdgesOf
<1>6. \A f \in EdgesOf(cfg) : f = <<f[1], f[2]>> /\ f[1] \in Block /\ f[2] \in cfg[f[1]]
  BY DEF EdgesOf
<1> QED
  BY <1>1, <1>2, <1>3, <1>5, <1>6

LEMMA TransposedFinite ==
  ASSUME NEW E, IsFiniteSet(E)
  PROVE  IsFiniteSet(Transposed(E))
<1> DEFINE t == [f \in E |-> <<f[2], f[1]>>]
<1>1. t \in Surjection(E, Transposed(E))
  BY DEF Surjection, Transposed
<1> QED
  BY <1>1, FS_Surjection

\* A set with the header that holds what its blocks lead to is the loop.
LEMMA ClosedIsLoop ==
  ASSUME prog \in Programs, NEW S, header \in S, \A b \in S \cap Block : InLoop(b) \subseteq S
  PROVE  Block \subseteq S
<1> DEFINE Inner == {f \in EdgesOf(cfg) : f[2] # exit}
           R == Transposed(Inner)
<1>1. Reaching(R, header, exit) = Block
  BY CfgFacts DEF IsLoop
<1>2. IsFiniteSet(R)
  <2>1. IsFiniteSet(Inner)
    BY CfgFacts, FS_Subset
  <2> HIDE DEF Inner
  <2> QED
    BY <2>1, TransposedFinite
<1>3. ASSUME NEW f \in R, f[2] \in S PROVE f[1] \in S
  <2>1. PICK g \in Inner : f = <<g[2], g[1]>>
    BY DEF Transposed
  <2>2. g[1] \in S \cap Block /\ g[2] \in InLoop(g[1])
    BY <1>3, <2>1, CfgFacts DEF InLoop
  <2> QED
    BY <2>1, <2>2
<1> HIDE DEF R
<1> QED
  BY <1>1, <1>2, <1>3, ReachLeast

\* The last call replaced by another.
LEMMA TopReplaced ==
  ASSUME stack \in Seq(Call), stack # <<>>, NEW x \in Call
  PROVE  /\ Append(Callers, x) \in Seq(Call) /\ Len(Append(Callers, x)) = Len(stack)
         /\ Append(Callers, x)[Len(stack)] = x
         /\ \A j \in 1..Len(stack) - 1 : Append(Callers, x)[j] = stack[j]
         /\ Callers \in Seq(Call) /\ Len(Callers) = Len(stack) - 1
         /\ \A j \in 1..Len(stack) - 1 : Callers[j] = stack[j]
         /\ Len(stack) \in Nat /\ Len(stack) >= 1 /\ top \in Call /\ top = stack[Len(stack)]
<1>1. Len(stack) \in Nat /\ Len(stack) >= 1
  BY EmptySeq
<1>2. top \in Call /\ top = stack[Len(stack)]
  BY <1>1 DEF top
<1>3. /\ Callers \in Seq(Call) /\ Len(Callers) = Len(stack) - 1
      /\ \A j \in 1..Len(stack) - 1 : Callers[j] = stack[j]
  BY <1>1, SubSeqProperties DEF Callers
<1> QED
  BY <1>1, <1>2, <1>3

\* dfsVisit begins with the header and, as everything is met when it is back, never again.
LEMMA RootIsHeader ==
  ASSUME prog \in Programs, DfsInv, SearchInv, NEW BB \in Block, VisitRoot(BB)
  PROVE  BB = header /\ vis = {}
<1>1. stack = <<>> /\ BB \notin vis /\ (vis = {} => BB = header)
  BY DEF VisitRoot
<1>2. vis = Range(ord)
  BY <1>1 DEF DfsInv
<1>3. vis # {} => Block \subseteq vis
  BY <1>2, ClosedIsLoop DEF SearchInv
<1> QED
  BY <1>1, <1>3

\* What the steps do to the stack.
LEMMA VisitRootDoes ==
  ASSUME prog \in Programs, DfsInv, SearchInv, NEW BB \in Block, VisitRoot(BB)
  PROVE  /\ ord' = ord /\ vis' = {header} /\ Len(stack') = 1 /\ stack' \in Seq(Call) /\ stack = <<>>
         /\ stack'[1].block = header /\ stack'[1].todo = InLoop(header) /\ prog' = prog
         /\ Range(ord) = {}
<1>1. BB = header /\ vis = {}
  BY RootIsHeader
<1>2. stack' = <<[block |-> header, todo |-> InLoop(header)]>> /\ vis' = {header} /\ ord' = ord /\ prog' = prog
      /\ stack = <<>>
  BY <1>1 DEF VisitRoot, Visit, vars
<1>3. [block |-> header, todo |-> InLoop(header)] \in Call
  BY CfgFacts DEF Call
<1> QED
  BY <1>1, <1>2, <1>3 DEF DfsInv

LEMMA VisitSuccDoes ==
  ASSUME prog \in Programs, DfsInv, SearchInv, NEW SI, VisitSucc(SI)
  PROVE  /\ ord' = ord /\ prog' = prog /\ stack' \in Seq(Call) /\ Len(stack) \in Nat /\ Len(stack) >= 1
         /\ SI \in InLoop(Frame(Len(stack))) /\ SI \in Block /\ SI \in stack[Len(stack)].todo
         /\ \A j \in 1..Len(stack) - 1 : stack'[j] = stack[j]
         /\ stack'[Len(stack)].block = Frame(Len(stack))
         /\ stack'[Len(stack)].todo = stack[Len(stack)].todo \ {SI}
         /\ \/ SI \in vis /\ vis' = vis /\ Len(stack') = Len(stack)
            \/ /\ SI \notin vis /\ vis' = vis \cup {SI} /\ Len(stack') = Len(stack) + 1
               /\ stack'[Len(stack) + 1].block = SI /\ stack'[Len(stack) + 1].todo = InLoop(SI)
<1> DEFINE x == [top EXCEPT !.todo = @ \ {SI}]
           calls == Append(Callers, x)
           y == [block |-> SI, todo |-> InLoop(SI)]
<1>1. /\ stack # <<>> /\ SI \in top.todo /\ ord' = ord /\ prog' = prog
      /\ IF SI \notin vis THEN vis' = vis \cup {SI} /\ stack' = Append(calls, y)
                          ELSE stack' = calls /\ vis' = vis
  BY DEF VisitSucc, Visit, vars
<1>2. /\ stack \in Seq(Call) /\ top \in Call /\ top = stack[Len(stack)] /\ Len(stack) \in Nat /\ Len(stack) >= 1
  BY <1>1, TopReplaced DEF DfsInv
<1>3. x \in Call /\ x.block = stack[Len(stack)].block /\ x.todo = stack[Len(stack)].todo \ {SI}
  BY <1>2 DEF Call
<1>4. SI \in Block /\ SI \in InLoop(Frame(Len(stack))) /\ SI \in stack[Len(stack)].todo
  BY <1>1, <1>2 DEF Call, SearchInv
<1>5. y \in Call
  BY <1>4, CfgFacts DEF Call
<1> HIDE DEF x
<1>6. /\ calls \in Seq(Call) /\ Len(calls) = Len(stack) /\ calls[Len(stack)] = x
      /\ \A j \in 1..Len(stack) - 1 : calls[j] = stack[j]
  BY <1>1, <1>2, <1>3, TopReplaced
<1>7. calls[Len(stack)].block = Frame(Len(stack)) /\ calls[Len(stack)].todo = stack[Len(stack)].todo \ {SI}
  BY <1>3, <1>6 DEF Frame
<1> HIDE DEF calls
<1>8. CASE SI \in vis
  <2>1. stack' = calls /\ vis' = vis
    BY <1>1, <1>8
  <2>2. \A j \in 1..Len(stack) - 1 : stack'[j] = stack[j]
    BY <1>6, <2>1
  <2>3. stack' \in Seq(Call) /\ Len(stack') = Len(stack)
    BY <1>6, <2>1
  <2>4. stack'[Len(stack)].block = Frame(Len(stack)) /\ stack'[Len(stack)].todo = stack[Len(stack)].todo \ {SI}
    BY <1>7, <2>1
  <2> QED
    BY <1>1, <1>2, <1>4, <1>8, <2>1, <2>2, <2>3, <2>4
<1>9. CASE SI \notin vis
  <2>1. stack' = Append(calls, y) /\ vis' = vis \cup {SI}
    BY <1>1, <1>9
  <2>2. /\ stack' \in Seq(Call) /\ Len(stack') = Len(stack) + 1 /\ stack'[Len(stack) + 1] = y
        /\ \A j \in 1..Len(stack) : stack'[j] = calls[j]
    BY <1>2, <1>5, <1>6, <2>1
  <2>3. \A j \in 1..Len(stack) - 1 : stack'[j] = stack[j]
    BY <1>2, <1>6, <2>2
  <2>4. stack'[Len(stack)].block = Frame(Len(stack)) /\ stack'[Len(stack)].todo = stack[Len(stack)].todo \ {SI}
    BY <1>2, <1>7, <2>2
  <2>5. stack'[Len(stack) + 1].block = SI /\ stack'[Len(stack) + 1].todo = InLoop(SI)
    BY <2>2
  <2> HIDE DEF y
  <2> QED
    BY <1>1, <1>2, <1>4, <1>9, <2>1, <2>2, <2>3, <2>4, <2>5
<1> QED
  BY <1>8, <1>9

LEMMA VisitReturnDoes ==
  ASSUME DfsInv, VisitReturn
  PROVE  /\ vis' = vis /\ prog' = prog /\ stack' \in Seq(Call) /\ Len(stack) \in Nat /\ Len(stack) >= 1
         /\ Len(stack') = Len(stack) - 1 /\ \A j \in 1..Len(stack) - 1 : stack'[j] = stack[j]
         /\ stack[Len(stack)].todo = {} /\ Frame(Len(stack)) \in Block
         /\ ord' = Append(ord, Frame(Len(stack))) /\ ord' \in Seq(Block) /\ Len(ord') = Len(ord) + 1
         /\ ord'[Len(ord) + 1] = Frame(Len(stack)) /\ \A m \in 1..Len(ord) : ord'[m] = ord[m]
         /\ Len(ord) \in Nat
<1>1. /\ stack # <<>> /\ top.todo = {} /\ ord' = Append(ord, top.block) /\ stack' = Callers /\ vis' = vis
      /\ prog' = prog /\ stack \in Seq(Call) /\ ord \in Seq(Block)
  BY DEF VisitReturn, vars, DfsInv
<1>2. /\ top \in Call /\ top = stack[Len(stack)] /\ Len(stack) \in Nat /\ Len(stack) >= 1
      /\ Callers \in Seq(Call) /\ Len(Callers) = Len(stack) - 1
      /\ \A j \in 1..Len(stack) - 1 : Callers[j] = stack[j]
  BY <1>1, TopReplaced
<1>3. top.block \in Block /\ Frame(Len(stack)) = top.block
  BY <1>2 DEF Call, Frame
<1> QED
  BY <1>1, <1>2, <1>3

LEMMA RootKeeps ==
  ASSUME prog \in Programs, DfsInv, SearchInv, NEW BB \in Block, VisitRoot(BB)
  PROVE  DfsInv' /\ SearchInv'
<1>1. /\ ord' = ord /\ vis' = {header} /\ Len(stack') = 1 /\ stack' \in Seq(Call) /\ stack = <<>>
      /\ stack'[1].block = header /\ stack'[1].todo = InLoop(header) /\ prog' = prog /\ Range(ord) = {}
  BY VisitRootDoes
<1>2. ord \in Seq(Block) /\ IsInjective(ord)
  BY DEF DfsInv
<1>3. \A j \in 1..Len(stack') : j = 1
  BY <1>1
<1>4. DfsInv'
  BY <1>1, <1>2, <1>3 DEF DfsInv, Frame
<1>5. SearchInv'
  BY <1>1, <1>3 DEF SearchInv, Frame, InLoop, cfg
<1> QED
  BY <1>4, <1>5

LEMMA SuccKeeps ==
  ASSUME prog \in Programs, DfsInv, SearchInv, NEW SI, VisitSucc(SI)
  PROVE  DfsInv' /\ SearchInv'
<1> DEFINE L == Len(stack)
<1>1. /\ ord' = ord /\ prog' = prog /\ stack' \in Seq(Call) /\ L \in Nat /\ L >= 1
      /\ SI \in InLoop(Frame(L)) /\ SI \in Block /\ SI \in stack[L].todo
      /\ \A j \in 1..L - 1 : stack'[j] = stack[j]
      /\ stack'[L].block = Frame(L) /\ stack'[L].todo = stack[L].todo \ {SI}
      /\ \/ SI \in vis /\ vis' = vis /\ Len(stack') = L
         \/ /\ SI \notin vis /\ vis' = vis \cup {SI} /\ Len(stack') = L + 1
            /\ stack'[L + 1].block = SI /\ stack'[L + 1].todo = InLoop(SI)
  BY VisitSuccDoes
<1> HIDE DEF L
<1>2. /\ ord \in Seq(Block) /\ IsInjective(ord)
      /\ \A i, j \in 1..L : Frame(i) = Frame(j) => i = j
      /\ \A j \in 1..L : Frame(j) \notin Range(ord)
      /\ vis = Range(ord) \cup {Frame(j) : j \in 1..L}
  BY DEF DfsInv, L
<1>3. /\ vis # {} => header \in vis
      /\ \A b \in Range(ord) : InLoop(b) \subseteq vis
      /\ \A j \in 1..L : /\ stack[j].todo \subseteq InLoop(Frame(j))
                         /\ InLoop(Frame(j)) \ stack[j].todo \subseteq vis
      /\ Frame(1) = header
      /\ \A j \in 1..L - 1 : Frame(j + 1) \in InLoop(Frame(j))
  BY <1>1 DEF SearchInv, L
<1> DEFINE Fr(j) == stack'[j].block
<1>4. \A j \in 1..L : Fr(j) = Frame(j)
  BY <1>1 DEF Frame
<1>5. vis \subseteq vis' /\ SI \in vis'
  BY <1>1
<1>6. \A j \in 1..L : /\ stack'[j].todo \subseteq InLoop(Frame(j))
                      /\ InLoop(Frame(j)) \ stack'[j].todo \subseteq vis'
  <2> SUFFICES ASSUME NEW j \in 1..L
               PROVE  /\ stack'[j].todo \subseteq InLoop(Frame(j))
                      /\ InLoop(Frame(j)) \ stack'[j].todo \subseteq vis'
    OBVIOUS
  <2>1. stack'[j].todo = stack[j].todo \/ stack'[j].todo = stack[j].todo \ {SI}
    BY <1>1
  <2> QED
    BY <1>3, <1>5, <2>1
<1>7. \A b : InLoop(b)' = InLoop(b)
  BY <1>1 DEF InLoop, cfg
<1>8. CASE SI \in vis
  <2>1. vis' = vis /\ Len(stack') = L
    BY <1>1, <1>8
  <2>2. DfsInv'
    <3>1. \A i, j \in 1..L : Fr(i) = Fr(j) => i = j
      BY <1>2, <1>4
    <3>2. \A j \in 1..L : Fr(j) \notin Range(ord)
      BY <1>2, <1>4
    <3>3. vis = Range(ord) \cup {Fr(j) : j \in 1..L}
      BY <1>2, <1>4
    <3> QED
      BY <1>1, <1>2, <2>1, <3>1, <3>2, <3>3 DEF DfsInv, Frame
  <2>3. SearchInv'
    <3>1. Fr(1) = header /\ \A j \in 1..L - 1 : Fr(j + 1) \in InLoop(Fr(j))
      <4>1. 1 \in 1..L /\ \A j \in 1..L - 1 : j \in 1..L /\ j + 1 \in 1..L
        BY <1>1
      <4> QED
        BY <1>3, <1>4, <4>1
    <3>2. \A j \in 1..L : /\ stack'[j].todo \subseteq InLoop(Fr(j))
                          /\ InLoop(Fr(j)) \ stack'[j].todo \subseteq vis'
      BY <1>4, <1>6
    <3>3. vis' # {} => header \in vis'
      BY <1>3, <2>1
    <3>4. \A b \in Range(ord') : InLoop(b) \subseteq vis'
      BY <1>1, <1>3, <2>1
    <3> QED
      BY <1>7, <2>1, <3>1, <3>2, <3>3, <3>4 DEF SearchInv, Frame
  <2> QED
    BY <2>2, <2>3
<1>9. CASE SI \notin vis
  <2>1. /\ vis' = vis \cup {SI} /\ Len(stack') = L + 1 /\ Fr(L + 1) = SI /\ stack'[L + 1].todo = InLoop(SI)
        /\ SI \notin Range(ord) /\ \A j \in 1..L : Fr(j) # SI
    BY <1>1, <1>2, <1>4, <1>9
  <2>0. \A j \in 1..L + 1 : j \in 1..L \/ j = L + 1
    BY <1>1
  <2>2. DfsInv'
    <3>1. \A i, j \in 1..L + 1 : Fr(i) = Fr(j) => i = j
      BY <1>2, <1>4, <2>0, <2>1
    <3>2. \A j \in 1..L + 1 : Fr(j) \notin Range(ord)
      BY <1>2, <1>4, <2>0, <2>1
    <3>3. vis' = Range(ord) \cup {Fr(j) : j \in 1..L + 1}
      <4>1. {Fr(j) : j \in 1..L + 1} = {Frame(j) : j \in 1..L} \cup {SI}
        <5>1. \A j \in 1..L : j \in 1..L + 1
          BY <1>1
        <5>2. L + 1 \in 1..L + 1
          BY <1>1
        <5> HIDE DEF Fr
        <5> QED
          BY <1>4, <2>0, <2>1, <5>1, <5>2
      <4> QED
        BY <1>2, <2>1, <4>1
    <3> QED
      BY <1>1, <1>2, <2>1, <3>1, <3>2, <3>3 DEF DfsInv, Frame
  <2>3. SearchInv'
    <3>1. Fr(1) = header /\ \A j \in 1..L : Fr(j + 1) \in InLoop(Fr(j))
      <4>1. 1 \in 1..L /\ \A j \in 1..L : j = L \/ (j \in 1..L - 1 /\ j + 1 \in 1..L)
        BY <1>1
      <4>2. Fr(1) = header
        BY <1>3, <1>4, <4>1
      <4>3. ASSUME NEW j \in 1..L PROVE Fr(j + 1) \in InLoop(Fr(j))
        <5>1. CASE j = L
          BY <1>1, <1>4, <2>1, <5>1
        <5>2. CASE j # L
          BY <1>3, <1>4, <4>1, <5>2
        <5> QED
          BY <5>1, <5>2
      <4> QED
        BY <4>2, <4>3
    <3>2. \A j \in 1..L + 1 : /\ stack'[j].todo \subseteq InLoop(Fr(j))
                              /\ InLoop(Fr(j)) \ stack'[j].todo \subseteq vis'
      BY <1>4, <1>6, <2>0, <2>1
    <3>3. vis' # {} => header \in vis'
      <4>1. 1 \in 1..L
        BY <1>1
      <4> QED
        BY <1>2, <1>3, <2>1, <4>1
    <3>4. \A b \in Range(ord') : InLoop(b) \subseteq vis'
      BY <1>1, <1>3, <2>1
    <3>5. 1..Len(stack') - 1 = 1..L
      BY <1>1, <2>1
    <3> QED
      BY <1>7, <2>1, <3>1, <3>2, <3>3, <3>4, <3>5 DEF SearchInv, Frame
  <2> QED
    BY <2>2, <2>3
<1> QED
  BY <1>8, <1>9

LEMMA ReturnKeeps ==
  ASSUME prog \in Programs, DfsInv, SearchInv, VisitReturn
  PROVE  DfsInv' /\ SearchInv'
<1> DEFINE L == Len(stack)
           Fr(j) == stack'[j].block
<1>1. /\ vis' = vis /\ prog' = prog /\ stack' \in Seq(Call) /\ L \in Nat /\ L >= 1
      /\ Len(stack') = L - 1 /\ \A j \in 1..L - 1 : stack'[j] = stack[j]
      /\ stack[L].todo = {} /\ Frame(L) \in Block
      /\ ord' = Append(ord, Frame(L)) /\ ord' \in Seq(Block)
  BY VisitReturnDoes
<1> HIDE DEF L
<1>2. /\ ord \in Seq(Block) /\ IsInjective(ord)
      /\ \A i, j \in 1..L : Frame(i) = Frame(j) => i = j
      /\ \A j \in 1..L : Frame(j) \notin Range(ord)
      /\ vis = Range(ord) \cup {Frame(j) : j \in 1..L}
  BY DEF DfsInv, L
<1>3. /\ vis # {} => header \in vis
      /\ \A b \in Range(ord) : InLoop(b) \subseteq vis
      /\ \A j \in 1..L : /\ stack[j].todo \subseteq InLoop(Frame(j))
                         /\ InLoop(Frame(j)) \ stack[j].todo \subseteq vis
      /\ Frame(1) = header
      /\ \A j \in 1..L - 1 : Frame(j + 1) \in InLoop(Frame(j))
  BY <1>1 DEF SearchInv, L
<1>4. L \in 1..L /\ \A j \in 1..L : j = L \/ j \in 1..L - 1
  BY <1>1
<1>5. \A j \in 1..L - 1 : Fr(j) = Frame(j) /\ j \in 1..L /\ j # L
  BY <1>1 DEF Frame
<1>6. Range(ord') = Range(ord) \cup {Frame(L)} /\ IsInjective(ord')
  BY <1>1, <1>2, <1>4, Appended DEF IsSeq
<1>7. \A b : InLoop(b)' = InLoop(b)
  BY <1>1 DEF InLoop, cfg
<1> HIDE DEF Fr
<1>8. DfsInv'
  <2>1. \A i, j \in 1..L - 1 : Fr(i) = Fr(j) => i = j
    BY <1>2, <1>5
  <2>2. \A j \in 1..L - 1 : Fr(j) \notin Range(ord')
    BY <1>2, <1>4, <1>5, <1>6
  <2>3. vis' = Range(ord') \cup {Fr(j) : j \in 1..L - 1}
    <3>1. {Frame(j) : j \in 1..L} = {Fr(j) : j \in 1..L - 1} \cup {Frame(L)}
      BY <1>4, <1>5
    <3> QED
      BY <1>1, <1>2, <1>6, <3>1
  <2> QED
    BY <1>1, <1>6, <2>1, <2>2, <2>3 DEF DfsInv, Frame, Fr
<1>9. SearchInv'
  <2>1. \A b \in Range(ord') : InLoop(b) \subseteq vis'
    BY <1>1, <1>3, <1>4, <1>6
  <2>2. \A j \in 1..L - 1 : /\ stack'[j].todo \subseteq InLoop(Fr(j))
                            /\ InLoop(Fr(j)) \ stack'[j].todo \subseteq vis'
    BY <1>1, <1>3, <1>5
  <2>3. L - 1 >= 1 => Fr(1) = header
    BY <1>1, <1>3, <1>5
  <2>4. \A j \in 1..(L - 1) - 1 : Fr(j + 1) \in InLoop(Fr(j))
    <3>1. \A j \in 1..(L - 1) - 1 : j \in 1..L - 1 /\ j + 1 \in 1..L - 1
      BY <1>1
    <3> QED
      BY <1>3, <1>5, <3>1
  <2>5. stack' # <<>> => L - 1 >= 1
    BY <1>1, EmptySeq
  <2> QED
    BY <1>1, <1>3, <1>7, <2>1, <2>2, <2>3, <2>4, <2>5 DEF SearchInv, Frame, Fr
<1> QED
  BY <1>8, <1>9
-----------------------------------------------------------------------------
(* The peeled loop *)

\* Every block has its place.
Placed == prog \in Programs /\ ord \in Seq(Block) /\ IsInjective(ord) /\ Range(ord) = Block

LEMMA Places ==
  ASSUME Placed
  PROVE  /\ Len(ord) = NumBlock /\ NumBlock \in Nat /\ NumBlock >= 1
         /\ \A b \in Block : instnum(b) \in 1..NumBlock /\ ord[NumBlock + 1 - instnum(b)] = b
         /\ \A m \in 1..NumBlock : ord[m] \in Block /\ instnum(ord[m]) = NumBlock + 1 - m
<1>1. NumBlock \in Nat /\ NumBlock >= 1
  BY LoopAssumption
<1>2. Len(ord) \in Nat /\ DOMAIN ord = 1..Len(ord) /\ \A m \in 1..Len(ord) : ord[m] \in Block
  BY DEF Placed
<1>3. Len(ord) = NumBlock
  <2>1. ord \in Bijection(1..Len(ord), Block)
    BY <1>2 DEF Placed, Bijection, Injection, Surjection, IsInjective, Range
  <2>2. /\ IsFiniteSet(1..Len(ord)) /\ Cardinality(1..Len(ord)) = Len(ord)
        /\ IsFiniteSet(0..NumBlock - 1) /\ Cardinality(0..NumBlock - 1) = NumBlock
    <3>1. \A m \in Nat : IsFiniteSet(1..m) /\ Cardinality(1..m) = m
      BY FS_Interval
    <3>2. \A m \in Nat : m >= 1 => IsFiniteSet(0..m - 1) /\ Cardinality(0..m - 1) = m
      <4> SUFFICES ASSUME NEW m \in Nat, m >= 1 PROVE IsFiniteSet(0..m - 1) /\ Cardinality(0..m - 1) = m
        OBVIOUS
      <4>1. 0 \in Int /\ m - 1 \in Int /\ ~(0 > m - 1) /\ m - 1 - 0 + 1 = m
        OBVIOUS
      <4> QED
        BY <4>1, FS_Interval
    <3> QED
      BY <1>1, <1>2, <3>1, <3>2
  <2>3. Cardinality(1..Len(ord)) = Cardinality(Block)
    BY <2>1, <2>2, FS_Bijection DEF ExistsBijection
  <2> QED
    BY <2>2, <2>3 DEF Block
<1>4. ASSUME NEW b \in Block PROVE instnum(b) \in 1..NumBlock /\ ord[NumBlock + 1 - instnum(b)] = b
  <2>1. PICK m \in 1..NumBlock : ord[m] = b
    BY <1>2, <1>3 DEF Placed, Range
  <2>2. NumBlock + 1 - m \in 1..NumBlock /\ NumBlock + 1 - (NumBlock + 1 - m) = m
    BY <1>1
  <2> QED
    BY <1>3, <2>1, <2>2 DEF instnum
<1>5. ASSUME NEW m \in 1..NumBlock PROVE ord[m] \in Block /\ instnum(ord[m]) = NumBlock + 1 - m
  <2>1. ord[m] \in Block
    BY <1>2, <1>3
  <2>2. instnum(ord[m]) \in 1..NumBlock /\ ord[NumBlock + 1 - instnum(ord[m])] = ord[m]
    BY <1>4, <2>1
  <2>3. NumBlock + 1 - instnum(ord[m]) \in 1..NumBlock
    BY <1>1, <2>2
  <2>4. NumBlock + 1 - instnum(ord[m]) = m
    BY <1>2, <1>3, <2>2, <2>3 DEF Placed, IsInjective
  <2> QED
    BY <1>1, <2>1, <2>2, <2>4
<1> QED
  BY <1>1, <1>3, <1>4, <1>5

LEMMA InjectivePlaces ==
  ASSUME Placed, NEW b \in Block, NEW c \in Block, instnum(b) = instnum(c)
  PROVE  b = c
BY Places

\* dummylist has both halves of every block.
LEMMA DummiesListed ==
  ASSUME Placed
  PROVE  /\ Len(dummylist) = 2 * NumBlock
         /\ \A m \in 1..2 * NumBlock : dummylist[m] \in Block \X {1, 2}
         /\ \A D \in Block \X {1, 2} : \E m \in 1..2 * NumBlock : dummylist[m] = D
<1>1. /\ Len(ord) = NumBlock /\ NumBlock \in Nat /\ NumBlock >= 1
      /\ \A b \in Block : instnum(b) \in 1..NumBlock /\ ord[NumBlock + 1 - instnum(b)] = b
      /\ \A m \in 1..NumBlock : ord[m] \in Block
  BY Places
<1>2. 2 * NumBlock \in Nat
  BY <1>1
<1>3. dummylist = [m \in 1..2 * NumBlock |-> <<ord[NumBlock - (m - 1) \div 2], ((m - 1) % 2) + 1>>]
  BY <1>1 DEF dummylist
<1>4. Len(dummylist) = 2 * NumBlock
  BY <1>2, <1>3
<1>5. ASSUME NEW m \in 1..2 * NumBlock PROVE dummylist[m] \in Block \X {1, 2}
  <2>1. NumBlock - (m - 1) \div 2 \in 1..NumBlock /\ ((m - 1) % 2) + 1 \in {1, 2}
    BY <1>1
  <2> QED
    BY <1>1, <1>3, <2>1
<1>6. ASSUME NEW b \in Block, NEW h \in {1, 2}
      PROVE  \E m \in 1..2 * NumBlock : dummylist[m] = <<b, h>>
  <2> DEFINE i == instnum(b)
             m == 2 * (i - 1) + h
  <2>1. i \in 1..NumBlock /\ ord[NumBlock + 1 - i] = b
    BY <1>1
  <2> HIDE DEF i
  <2>2. m \in 1..2 * NumBlock /\ (m - 1) \div 2 = i - 1 /\ ((m - 1) % 2) + 1 = h
    <3>1. CASE h = 1
      BY <1>1, <2>1, <3>1
    <3>2. CASE h = 2
      BY <1>1, <2>1, <3>2
    <3> QED
      BY <3>1, <3>2
  <2>3. NumBlock - (i - 1) = NumBlock + 1 - i
    BY <1>1, <2>1
  <2> HIDE DEF m
  <2>4. dummylist[m] = <<ord[NumBlock - (m - 1) \div 2], ((m - 1) % 2) + 1>>
    BY <1>3, <2>2
  <2> QED
    BY <2>1, <2>2, <2>3, <2>4
<1> QED
  BY <1>4, <1>5, <1>6

\* The successor of a dummy block that stands for s, one of its block's.
Copy(D, s) == <<s, IF D[2] = 1 /\ s # exit /\ LeadsForward(D[1], s) THEN 1 ELSE 2>>

\* From which halves the end of the peeled loop can be reached without passing not.
Peeled(not) == Reaching(ctrlfunc, dummyexitblock, not)

LEMMA CopyHalves ==
  ASSUME NEW b, NEW s
  PROVE  /\ Copy(<<b, 2>>, s) = <<s, 2>>
         /\ s = exit => Copy(<<b, 1>>, s) = dummyexitblock
         /\ Copy(<<b, 1>>, s) = <<s, IF s # exit /\ LeadsForward(b, s) THEN 1 ELSE 2>>
         /\ Copy(<<b, 1>>, s) = <<s, 1>> \/ Copy(<<b, 1>>, s) = <<s, 2>>
BY DEF Copy, dummyexitblock

LEMMA Copies ==
  ASSUME Placed, NEW b \in Block, NEW h \in {1, 2}
  PROVE  /\ dest(<<b, h>>) = {Copy(<<b, h>>, s) : s \in cfg[b]}
         /\ \A s \in cfg[b] : <<<<b, h>>, Copy(<<b, h>>, s)>> \in ctrlfunc /\ Copy(<<b, h>>, s) \in Half
<1>1. \A s \in cfg[b] : s \in Block \cup {exit}
  BY CfgFacts DEF Placed
<1>2. ASSUME NEW s \in cfg[b]
      PROVE  Copy(<<b, h>>, s) = CASE s = exit -> dummyexitblock
                                   [] s # exit /\ <<b, h>> = TopHalf(b) /\ LeadsForward(b, s) -> TopHalf(s)
                                   [] OTHER -> BottomHalf(s)
  <2>1. <<b, h>> = TopHalf(b) <=> h = 1
    BY DEF TopHalf
  <2>2. Copy(<<b, h>>, s) = <<s, IF h = 1 /\ s # exit /\ LeadsForward(b, s) THEN 1 ELSE 2>>
    BY DEF Copy
  <2>3. CASE s = exit
    BY <2>2, <2>3 DEF dummyexitblock
  <2>4. CASE s # exit /\ h = 1 /\ LeadsForward(b, s)
    BY <2>1, <2>2, <2>4 DEF TopHalf
  <2>5. CASE s # exit /\ ~(h = 1 /\ LeadsForward(b, s))
    BY <2>1, <2>2, <2>5 DEF BottomHalf
  <2> QED
    BY <2>3, <2>4, <2>5
<1>3. dest(<<b, h>>) = {Copy(<<b, h>>, s) : s \in cfg[b]}
  BY <1>2 DEF dest, dummytoreal
<1>4. ASSUME NEW s \in cfg[b] PROVE <<<<b, h>>, Copy(<<b, h>>, s)>> \in ctrlfunc /\ Copy(<<b, h>>, s) \in Half
  <2>1. <<b, h>> \in Block \X {1, 2} /\ Copy(<<b, h>>, s) \in dest(<<b, h>>)
    BY <1>3
  <2>2. Copy(<<b, h>>, s) \in Half
    BY <1>1 DEF Copy, Half, dummyexitblock
  <2> QED
    BY <2>1, <2>2 DEF ctrlfunc
<1> QED
  BY <1>3, <1>4

LEMMA PeeledEdge ==
  ASSUME Placed, NEW f \in ctrlfunc
  PROVE  /\ f = <<f[1], f[2]>> /\ f[2] \in Half
         /\ \E b \in Block, h \in {1, 2} : f[1] = <<b, h>> /\ \E s \in cfg[b] : f[2] = Copy(<<b, h>>, s)
<1>1. PICK D \in Block \X {1, 2} : f \in {<<D, s>> : s \in dest(D)}
  BY DEF ctrlfunc
<1>2. PICK x \in dest(D) : f = <<D, x>>
  BY <1>1
<1>3. PICK b \in Block, h \in {1, 2} : D = <<b, h>>
  OBVIOUS
<1>4. PICK s \in cfg[b] : x = Copy(<<b, h>>, s)
  <2>1. dest(<<b, h>>) = {Copy(<<b, h>>, s) : s \in cfg[b]}
    BY Copies
  <2>2. x \in dest(<<b, h>>)
    BY <1>2, <1>3
  <2> QED
    BY <2>1, <2>2
<1>5. x \in Half
  BY <1>4, Copies
<1> QED
  BY <1>2, <1>3, <1>4, <1>5

LEMMA HalfFinite == IsFiniteSet(Block \X {1, 2}) /\ IsFiniteSet(Half)
<1>1. IsFiniteSet(Block)
  BY LoopAssumption, FS_Interval DEF Block
<1>2. IsFiniteSet({1, 2})
  <2>1. IsFiniteSet({1}) /\ IsFiniteSet({2}) /\ {1, 2} = {1} \cup {2}
    BY FS_Singleton
  <2> QED
    BY <2>1, FS_Union
<1>3. IsFiniteSet(Block \X {1, 2})
  BY <1>1, <1>2, FS_Product
<1> QED
  BY <1>3, FS_AddElement DEF Half

LEMMA PeeledFinite ==
  ASSUME Placed
  PROVE  IsFiniteSet(ctrlfunc) /\ IsFiniteSet(EdgesOf(cfg))
<1>1. \A f \in ctrlfunc : f \in Half \X Half
  <2> SUFFICES ASSUME NEW f \in ctrlfunc PROVE f \in Half \X Half
    OBVIOUS
  <2>1. f = <<f[1], f[2]>> /\ f[2] \in Half /\ \E b \in Block, h \in {1, 2} : f[1] = <<b, h>>
    BY PeeledEdge
  <2>2. f[1] \in Block \X {1, 2}
    BY <2>1
  <2> QED
    BY <2>1, <2>2 DEF Half
<1>2. IsFiniteSet(Half \X Half)
  BY HalfFinite, FS_Product
<1> QED
  BY <1>1, <1>2, FS_Subset, CfgFacts DEF Placed

LEMMA PeeledLeast ==
  ASSUME Placed, NEW not, NEW S, dummyexitblock # not => dummyexitblock \in S,
         \A b \in Block, h \in {1, 2} : \A s \in cfg[b] :
           Copy(<<b, h>>, s) \in S /\ <<b, h>> # not => <<b, h>> \in S
  PROVE  Peeled(not) \subseteq S
<1>1. ASSUME NEW f \in ctrlfunc, f[2] \in S, f[1] # not PROVE f[1] \in S
  BY <1>1, PeeledEdge
<1> QED
  BY <1>1, PeeledFinite, ReachLeast DEF Peeled

LEMMA PeeledStep ==
  ASSUME Placed, NEW not
  PROVE  /\ dummyexitblock # not => dummyexitblock \in Peeled(not)
         /\ not \notin Peeled(not)
         /\ \A b \in Block, h \in {1, 2} : \A s \in cfg[b] :
              Copy(<<b, h>>, s) \in Peeled(not) /\ <<b, h>> # not => <<b, h>> \in Peeled(not)
<1>1. dummyexitblock # not => dummyexitblock \in Peeled(not)
  BY PeeledFinite, ReachStart DEF Peeled
<1>2. not \notin Peeled(not)
  BY PeeledFinite, ReachNodes DEF Peeled
<1>3. ASSUME NEW b \in Block, NEW h \in {1, 2}, NEW s \in cfg[b], Copy(<<b, h>>, s) \in Peeled(not), <<b, h>> # not
      PROVE  <<b, h>> \in Peeled(not)
  <2> DEFINE f == <<<<b, h>>, Copy(<<b, h>>, s)>>
  <2>1. f \in ctrlfunc /\ f[1] = <<b, h>> /\ f[2] = Copy(<<b, h>>, s)
    BY Copies
  <2> HIDE DEF f
  <2> QED
    BY <1>3, <2>1, PeeledFinite, ReachStep DEF Peeled
<1> QED
  BY <1>1, <1>2, <1>3

\* The end of the peeled loop is reached from everywhere in it.
LEMMA PeeledReaches ==
  ASSUME Placed
  PROVE  NodesOf(ctrlfunc, dummyexitblock) = Half /\ AllReach(ctrlfunc, dummyexitblock)
<1>1. /\ \A b \in Block : cfg[b] # {} /\ cfg[b] \subseteq Block \cup {exit}
      /\ AllReach(EdgesOf(cfg), exit) /\ NodesOf(EdgesOf(cfg), exit) = Block \cup {exit}
  BY CfgFacts, LoopReaches DEF Placed, IsLoop
<1>2. NodesOf(ctrlfunc, dummyexitblock) \subseteq Half
  <2>1. ASSUME NEW f \in ctrlfunc PROVE f[1] \in Half /\ f[2] \in Half
    <3>1. f[2] \in Half /\ \E b \in Block, h \in {1, 2} : f[1] = <<b, h>>
      BY PeeledEdge
    <3>2. f[1] \in Block \X {1, 2}
      BY <3>1
    <3> QED
      BY <3>1, <3>2 DEF Half
  <2> QED
    BY <2>1 DEF NodesOf, Half
<1>3. ASSUME NEW b \in Block, NEW h \in {1, 2} PROVE <<b, h>> \in NodesOf(ctrlfunc, dummyexitblock)
  <2>1. PICK s \in cfg[b] : TRUE
    BY <1>1
  <2>2. PICK f \in ctrlfunc : f[1] = <<b, h>>
    BY Copies
  <2> QED
    BY <2>2 DEF NodesOf
<1>4. Half \subseteq NodesOf(ctrlfunc, dummyexitblock)
  <2>1. dummyexitblock \in NodesOf(ctrlfunc, dummyexitblock)
    BY DEF NodesOf
  <2>2. ASSUME NEW D \in Block \X {1, 2} PROVE D \in NodesOf(ctrlfunc, dummyexitblock)
    <3>1. PICK b \in Block, h \in {1, 2} : D = <<b, h>>
      OBVIOUS
    <3>2. <<b, h>> \in NodesOf(ctrlfunc, dummyexitblock)
      BY <1>3
    <3> QED
      BY <3>1, <3>2
  <2> QED
    BY <2>1, <2>2 DEF Half
<1>5. ASSUME NEW S, dummyexitblock \in S,
             \A b \in Block, h \in {1, 2} : \A s \in cfg[b] : Copy(<<b, h>>, s) \in S => <<b, h>> \in S
      PROVE  Half \subseteq S
  <2> DEFINE T(h) == {b \in Block : <<b, h>> \in S} \cup {exit}
  <2>1. ASSUME NEW C \in SUBSET (Block \cup {exit}), exit \in C,
               \A b \in Block : \A s \in cfg[b] : s \in C => b \in C
        PROVE  Block \subseteq C
    <3>1. \A f \in EdgesOf(cfg) : f[2] \in C => f[1] \in C
      BY <2>1 DEF EdgesOf
    <3>2. C = Block \cup {exit}
      BY <1>1, <2>1, <3>1 DEF AllReach
    <3> QED
      BY <3>2
  <2>3. \A b \in Block : \A s \in cfg[b] : s \in T(2) => b \in T(2)
    <3> SUFFICES ASSUME NEW b \in Block, NEW s \in cfg[b], s \in T(2) PROVE <<b, 2>> \in S
      OBVIOUS
    <3>1. Copy(<<b, 2>>, s) = <<s, 2>> /\ 2 \in {1, 2}
      BY CopyHalves
    <3>2. <<s, 2>> \in S
      BY <1>5 DEF dummyexitblock
    <3> QED
      BY <1>5, <3>1, <3>2
  <2>4. \A b \in Block : <<b, 2>> \in S
    <3>1. T(2) \in SUBSET (Block \cup {exit}) /\ exit \in T(2)
      OBVIOUS
    <3>2. Block \subseteq T(2)
      <4> HIDE DEF T
      <4> QED
        BY <2>1, <2>3, <3>1
    <3> QED
      BY <3>2, CfgFacts DEF Placed
  <2>5. \A b \in Block : \A s \in cfg[b] : s \in T(1) => b \in T(1)
    <3> SUFFICES ASSUME NEW b \in Block, NEW s \in cfg[b], s \in T(1) PROVE <<b, 1>> \in S
      OBVIOUS
    <3>0. /\ 1 \in {1, 2} /\ (Copy(<<b, 1>>, s) = <<s, 1>> \/ Copy(<<b, 1>>, s) = <<s, 2>>)
          /\ s = exit => Copy(<<b, 1>>, s) = dummyexitblock
      BY CopyHalves
    <3>1. CASE s = exit
      BY <1>5, <3>0, <3>1
    <3>2. CASE s # exit
      <4>1. <<s, 1>> \in S /\ <<s, 2>> \in S
        BY <2>4, <3>2
      <4>2. Copy(<<b, 1>>, s) \in S
        BY <3>0, <4>1
      <4> QED
        BY <1>5, <3>0, <4>2
    <3> QED
      BY <3>1, <3>2
  <2>6. \A b \in Block : <<b, 1>> \in S
    <3>1. T(1) \in SUBSET (Block \cup {exit}) /\ exit \in T(1)
      OBVIOUS
    <3>2. Block \subseteq T(1)
      <4> HIDE DEF T
      <4> QED
        BY <2>1, <2>5, <3>1
    <3> QED
      BY <3>2, CfgFacts DEF Placed
  <2> QED
    BY <1>5, <2>4, <2>6 DEF Half
<1>6. AllReach(ctrlfunc, dummyexitblock)
  <2> SUFFICES ASSUME NEW S \in SUBSET NodesOf(ctrlfunc, dummyexitblock), dummyexitblock \in S,
                      \A f \in ctrlfunc : f[2] \in S => f[1] \in S
               PROVE  S = NodesOf(ctrlfunc, dummyexitblock)
    BY DEF AllReach
  <2>1. ASSUME NEW b \in Block, NEW h \in {1, 2}, NEW s \in cfg[b], Copy(<<b, h>>, s) \in S
        PROVE  <<b, h>> \in S
    <3> DEFINE f == <<<<b, h>>, Copy(<<b, h>>, s)>>
    <3>1. f \in ctrlfunc /\ f[1] = <<b, h>> /\ f[2] = Copy(<<b, h>>, s)
      BY Copies
    <3> QED
      BY <2>1, <3>1
  <2>2. Half \subseteq S
    BY <1>5, <2>1
  <2> QED
    BY <1>2, <2>2
<1> QED
  BY <1>2, <1>4, <1>6

\* Postdominance in the loop and in the peeled loop.
Passing(y) == Reaching(EdgesOf(cfg), exit, y)

LEMMA LoopPd ==
  ASSUME Placed, NEW x \in Block \cup {exit}, NEW y \in Block \cup {exit}
  PROVE  y \in Postdominators(EdgesOf(cfg), exit)[x] <=> x \notin Passing(y)
<1>1. NodesOf(EdgesOf(cfg), exit) = Block \cup {exit}
  BY CfgFacts, LoopReaches DEF Placed
<1> QED
  BY <1>1, PdDef DEF Passing

LEMMA PeeledPd ==
  ASSUME Placed, NEW x \in Half, NEW y \in Half
  PROVE  y \in Postdominators(ctrlfunc, dummyexitblock)[x] <=> x \notin Peeled(y)
BY PeeledReaches, PdDef DEF Peeled

LEMMA PassingStep ==
  ASSUME Placed, NEW y \in Block
  PROVE  /\ exit \in Passing(y) /\ y \notin Passing(y) /\ exit # y
         /\ \A b \in Block : \A s \in cfg[b] : s \in Passing(y) /\ b # y => b \in Passing(y)
<1>1. exit # y /\ IsFiniteSet(EdgesOf(cfg))
  BY CfgFacts DEF Placed
<1>2. exit \in Passing(y) /\ y \notin Passing(y)
  BY <1>1, ReachStart, ReachNodes DEF Passing
<1>3. ASSUME NEW b \in Block, NEW s \in cfg[b], s \in Passing(y), b # y PROVE b \in Passing(y)
  <2> DEFINE f == <<b, s>>
  <2>1. f \in EdgesOf(cfg) /\ f[1] = b /\ f[2] = s
    BY CfgFacts DEF Placed
  <2> HIDE DEF f
  <2> QED
    BY <1>1, <1>3, <2>1, ReachStep DEF Passing
<1> QED
  BY <1>1, <1>2, <1>3

LEMMA PassingLeast ==
  ASSUME Placed, NEW y \in Block, NEW S, exit \in S,
         \A b \in Block : \A s \in cfg[b] : s \in S /\ b # y => b \in S
  PROVE  Passing(y) \subseteq S
<1>1. \A f \in EdgesOf(cfg) : f[2] \in S /\ f[1] # y => f[1] \in S
  BY DEF EdgesOf
<1> QED
  BY <1>1, PeeledFinite, ReachLeast DEF Passing

\* A way to the exit that passes by y is one in the peeled loop, from either half.
LEMMA Lifted ==
  ASSUME Placed, NEW y \in Block, NEW x \in Passing(y), x # exit
  PROVE  <<x, 1>> \in Peeled(<<y, 2>>) /\ <<x, 2>> \in Peeled(<<y, 2>>)
<1> DEFINE S == {z \in Block \cup {exit} : z # exit => <<z, 1>> \in Peeled(<<y, 2>>) /\ <<z, 2>> \in Peeled(<<y, 2>>)}
<1>0. exit # y /\ exit \notin Block /\ dummyexitblock # <<y, 2>> /\ 1 \in {1, 2} /\ 2 \in {1, 2}
  BY CfgFacts DEF Placed, dummyexitblock
<1>1. dummyexitblock \in Peeled(<<y, 2>>)
  BY <1>0, PeeledStep
<1>2. ASSUME NEW b \in Block, NEW s \in cfg[b], s \in S, b # y PROVE b \in S
  <2>1. <<s, 2>> \in Peeled(<<y, 2>>) /\ (s # exit => <<s, 1>> \in Peeled(<<y, 2>>))
    BY <1>1, <1>2 DEF dummyexitblock
  <2>2. Copy(<<b, 2>>, s) \in Peeled(<<y, 2>>) /\ Copy(<<b, 1>>, s) \in Peeled(<<y, 2>>)
    BY <2>1, <1>1, CopyHalves
  <2>3. <<b, 1>> # <<y, 2>> /\ <<b, 2>> # <<y, 2>>
    BY <1>2
  <2>4. <<b, 1>> \in Peeled(<<y, 2>>) /\ <<b, 2>> \in Peeled(<<y, 2>>)
    BY <1>0, <2>2, <2>3, PeeledStep
  <2> QED
    BY <2>4
<1>3. exit \in S
  OBVIOUS
<1> HIDE DEF S
<1>4. Passing(y) \subseteq S
  BY <1>2, <1>3, PassingLeast
<1> QED
  BY <1>4 DEF S

\* The bottom half is the loop as it stands.
LEMMA BottomIsLoop ==
  ASSUME Placed, NEW y \in Block, NEW x \in Block
  PROVE  <<x, 2>> \in Peeled(<<y, 2>>) <=> x \in Passing(y)
<1> DEFINE S == {D \in Half : D[2] = 2 => D[1] \in Passing(y)}
<1>0. exit # x /\ exit \in Passing(y) /\ dummyexitblock \in Half
  BY CfgFacts, PassingStep DEF Placed, Half
<1>1. dummyexitblock \in S
  BY <1>0 DEF dummyexitblock
<1>2. ASSUME NEW b \in Block, NEW h \in {1, 2}, NEW s \in cfg[b], Copy(<<b, h>>, s) \in S, <<b, h>> # <<y, 2>>
      PROVE  <<b, h>> \in S
  <2>1. <<b, h>> \in Half
    BY DEF Half
  <2>2. CASE h = 1
    BY <2>1, <2>2
  <2>3. CASE h = 2
    <3>1. Copy(<<b, h>>, s) = <<s, 2>>
      BY <2>3, CopyHalves
    <3>2. s \in Passing(y) /\ b # y
      BY <1>2, <2>3, <3>1
    <3> QED
      BY <2>1, <3>2, PassingStep
  <2> QED
    BY <2>2, <2>3
<1> HIDE DEF S
<1>3. Peeled(<<y, 2>>) \subseteq S
  BY <1>1, <1>2, PeeledLeast
<1>4. <<x, 2>> \in S => x \in Passing(y)
  BY DEF S
<1> QED
  BY <1>0, <1>3, <1>4, Lifted

\* A block is left for good on some way.
LEMMA Leaves ==
  ASSUME Placed, NEW b \in Block
  PROVE  \E s \in cfg[b] : s \in Passing(b)
<1> SUFFICES ASSUME \A s \in cfg[b] : s \notin Passing(b) PROVE FALSE
  OBVIOUS
<1>1. AllReach(EdgesOf(cfg), exit) /\ NodesOf(EdgesOf(cfg), exit) = Block \cup {exit}
  BY CfgFacts, LoopReaches DEF Placed
<1>2. Passing(b) \subseteq Block \cup {exit}
  BY <1>1, PeeledFinite, ReachNodes DEF Passing
<1>3. exit \in Passing(b) /\ b \notin Passing(b)
  BY PassingStep
<1>4. ASSUME NEW f \in EdgesOf(cfg), f[2] \in Passing(b) PROVE f[1] \in Passing(b)
  <2>1. f[1] \in Block /\ f[2] \in cfg[f[1]]
    BY CfgFacts DEF Placed
  <2>2. f[1] # b
    BY <1>4, <2>1
  <2> QED
    BY <1>4, <2>1, <2>2, PassingStep
<1>5. Passing(b) = Block \cup {exit}
  BY <1>1, <1>2, <1>3, <1>4 DEF AllReach
<1> QED
  BY <1>3, <1>5

\* So the first iteration may be the last to come to it.
LEMMA TopLeaves ==
  ASSUME Placed, NEW b \in Block
  PROVE  <<b, 1>> \in Peeled(<<b, 2>>)
<1>1. PICK s \in cfg[b] : s \in Passing(b)
  BY Leaves
<1>2. exit # b /\ dummyexitblock # <<b, 2>> /\ <<b, 1>> # <<b, 2>> /\ 1 \in {1, 2}
  BY CfgFacts DEF Placed, dummyexitblock
<1>3. dummyexitblock \in Peeled(<<b, 2>>)
  BY <1>2, PeeledStep
<1>4. s # exit => <<s, 1>> \in Peeled(<<b, 2>>) /\ <<s, 2>> \in Peeled(<<b, 2>>)
  BY <1>1, Lifted
<1>5. Copy(<<b, 1>>, s) \in Peeled(<<b, 2>>)
  BY <1>3, <1>4, CopyHalves
<1> QED
  BY <1>2, <1>5, PeeledStep

LEMMA BlockFacts ==
  ASSUME Placed
  PROVE  /\ \A c \in Block : instnum(c) \in Nat
         /\ \A c \in Block : cfg[c] \subseteq Block \cup {exit}
         /\ dummyexitblock \in Half /\ exit \notin Block
         /\ \A y : Peeled(y) \subseteq Half
<1>1. ASSUME NEW c \in Block PROVE instnum(c) \in Nat
  BY Places
<1>2. ASSUME NEW c \in Block PROVE cfg[c] \subseteq Block \cup {exit}
  BY CfgFacts DEF Placed
<1>3. ASSUME NEW y PROVE Peeled(y) \subseteq Half
  <2>1. NodesOf(ctrlfunc, dummyexitblock) = Half /\ IsFiniteSet(ctrlfunc)
    BY PeeledFinite, PeeledReaches
  <2>2. Reaching(ctrlfunc, dummyexitblock, y) \subseteq NodesOf(ctrlfunc, dummyexitblock) \ {y}
    BY <2>1, ReachNodes
  <2> QED
    BY <2>1, <2>2 DEF Peeled
<1> QED
  BY <1>1, <1>2, <1>3, CfgFacts DEF Placed, Half

\* What leads forward from a block comes to it in a later iteration only.
LEMMA TopAcyclic ==
  ASSUME Placed, NEW b \in Block, NEW s \in cfg[b]
  PROVE  Copy(<<b, 1>>, s) \in Peeled(<<b, 1>>)
<1> DEFINE S == Peeled(<<b, 1>>) \cup {D \in Half : D[2] = 1 /\ instnum(D[1]) <= instnum(b)}
<1>0. /\ \A c \in Block : instnum(c) \in Nat
      /\ 1 \in {1, 2} /\ dummyexitblock # <<b, 1>> /\ \A c \in Block : cfg[c] \subseteq Block \cup {exit}
  BY BlockFacts DEF dummyexitblock
<1>1. dummyexitblock \in S
  BY <1>0, PeeledStep
<1>2. ASSUME NEW c \in Block, NEW h \in {1, 2}, NEW t \in cfg[c], Copy(<<c, h>>, t) \in S PROVE <<c, h>> \in S
  <2>0. <<c, h>> \in Half
    BY DEF Half
  <2>1. CASE <<c, h>> = <<b, 1>>
    BY <1>0, <2>0, <2>1
  <2>2. CASE <<c, h>> # <<b, 1>> /\ Copy(<<c, h>>, t) \in Peeled(<<b, 1>>)
    BY <2>2, PeeledStep
  <2>3. CASE Copy(<<c, h>>, t)[2] = 1 /\ instnum(Copy(<<c, h>>, t)[1]) <= instnum(b)
    <3>1. h = 1 /\ t # exit /\ LeadsForward(c, t) /\ Copy(<<c, h>>, t)[1] = t
      BY <2>3 DEF Copy
    <3>2. t \in Block
      BY <1>0, <3>1
    <3>3. instnum(c) <= instnum(b)
      BY <1>0, <2>3, <3>1, <3>2 DEF LeadsForward
    <3> QED
      BY <2>0, <3>1, <3>3
  <2> QED
    BY <1>2, <2>1, <2>2, <2>3
<1>3. S \subseteq Half
  <2>1. Peeled(<<b, 1>>) \subseteq Half
    BY BlockFacts
  <2> QED
    BY <2>1
<1>4. \A f \in ctrlfunc : f[2] \in S => f[1] \in S
  <2> SUFFICES ASSUME NEW f \in ctrlfunc, f[2] \in S PROVE f[1] \in S
    OBVIOUS
  <2>1. PICK c \in Block, h \in {1, 2} : f[1] = <<c, h>> /\ \E t \in cfg[c] : f[2] = Copy(<<c, h>>, t)
    BY PeeledEdge
  <2> HIDE DEF S
  <2> QED
    BY <1>2, <2>1
<1>5. Half \subseteq S
  <2> HIDE DEF S
  <2> QED
    BY <1>1, <1>3, <1>4, PeeledReaches DEF AllReach
<1>6. Copy(<<b, 1>>, s) \in S
  BY <1>0, <1>5, Copies
<1>7. CASE Copy(<<b, 1>>, s)[2] = 1 /\ instnum(Copy(<<b, 1>>, s)[1]) <= instnum(b)
  <2>1. s # exit /\ LeadsForward(b, s) /\ Copy(<<b, 1>>, s)[1] = s
    BY <1>7 DEF Copy
  <2>2. s \in Block
    BY <1>0, <2>1
  <2> QED
    BY <1>0, <1>7, <2>1, <2>2 DEF LeadsForward
<1> QED
  BY <1>6, <1>7

\* Where a way leads back to a block for certain, the peeled loop leads from its top half
\* to its bottom half for certain.
LEMMA TopReturns ==
  ASSUME Placed, NEW b \in Block, NEW s \in cfg[b], s \notin Passing(b)
  PROVE  Copy(<<b, 1>>, s) \notin Peeled(<<b, 2>>)
<1> DEFINE S == {D \in Half : D[1] \in Passing(b) \/ (D[2] = 1 /\ instnum(D[1]) <= instnum(b))}
<1>0. /\ \A c \in Block : instnum(c) \in Nat
      /\ \A c \in Block : cfg[c] \subseteq Block \cup {exit}
      /\ exit \in Passing(b) /\ dummyexitblock \in Half
  BY BlockFacts, PassingStep
<1>1. dummyexitblock \in S
  BY <1>0 DEF dummyexitblock
<1>2. ASSUME NEW c \in Block, NEW h \in {1, 2}, NEW t \in cfg[c], Copy(<<c, h>>, t) \in S, <<c, h>> # <<b, 2>>
      PROVE  <<c, h>> \in S
  <2>0. <<c, h>> \in Half /\ Copy(<<c, h>>, t)[1] = t
    BY DEF Half, Copy
  <2>1. CASE c = b
    <3>1. h = 1
      BY <1>2, <2>1
    <3> QED
      BY <1>0, <2>0, <2>1, <3>1
  <2>2. CASE c # b /\ t \in Passing(b)
    BY <2>0, <2>2, PassingStep
  <2>3. CASE Copy(<<c, h>>, t)[2] = 1 /\ instnum(t) <= instnum(b)
    <3>1. h = 1 /\ t # exit /\ LeadsForward(c, t)
      BY <2>3 DEF Copy
    <3>2. t \in Block
      BY <1>0, <3>1
    <3>3. instnum(c) <= instnum(b)
      BY <1>0, <2>3, <3>1, <3>2 DEF LeadsForward
    <3> QED
      BY <2>0, <3>1, <3>3
  <2> QED
    BY <1>2, <2>0, <2>1, <2>2, <2>3
<1>3. Copy(<<b, 1>>, s) \notin S
  <2>1. s # exit /\ s \in Block /\ Copy(<<b, 1>>, s)[1] = s
    BY <1>0 DEF Copy
  <2>2. Copy(<<b, 1>>, s)[2] = 1 => LeadsForward(b, s)
    BY DEF Copy
  <2> QED
    BY <1>0, <2>1, <2>2 DEF LeadsForward
<1> HIDE DEF S
<1>4. Peeled(<<b, 2>>) \subseteq S
  BY <1>1, <1>2, PeeledLeast
<1> QED
  BY <1>3, <1>4

\* The dependences the walks are to find: Y below an edge from a half of X, not below X.
Walked(X, Y) ==
  \E h, g \in {1, 2} : \E s \in cfg[X] : Copy(<<X, h>>, s) \notin Peeled(<<Y, g>>) /\ <<X, h>> \in Peeled(<<Y, g>>)

\* They are all that there are in the loop as it stands, and those of the peeled loop.
LEMMA LoopDecided ==
  ASSUME Placed, NEW X \in Block, NEW Y \in Block, NEW P, P = Postdominators(EdgesOf(cfg), exit),
         Decides(EdgesOf(cfg), P, X, Y)
  PROVE  Walked(X, Y)
<1>1. PICK s : s \in DOMAIN P /\ <<X, s>> \in EdgesOf(cfg) /\ Y \in P[s]
  BY DEF Decides
<1>2. s \in cfg[X] /\ s \in Block \cup {exit}
  BY <1>1 DEF EdgesOf
<1>3. s \notin Passing(Y)
  BY <1>1, <1>2, LoopPd
<1>4. s \in Block
  BY <1>2, <1>3, PassingStep
<1>5. 1 \in {1, 2} /\ 2 \in {1, 2}
  OBVIOUS
<1>6. CASE X # Y
  <2>1. X \in Passing(Y)
    BY <1>6, LoopPd DEF Decides
  <2>2. <<X, 2>> \in Peeled(<<Y, 2>>) /\ <<s, 2>> \notin Peeled(<<Y, 2>>)
    BY <1>3, <1>4, <2>1, BottomIsLoop
  <2>3. Copy(<<X, 2>>, s) \notin Peeled(<<Y, 2>>)
    BY <2>2, CopyHalves
  <2> QED
    BY <1>2, <1>5, <2>2, <2>3 DEF Walked
<1>7. CASE X = Y
  <2>1. Copy(<<X, 1>>, s) \notin Peeled(<<Y, 2>>) /\ <<X, 1>> \in Peeled(<<Y, 2>>)
    BY <1>2, <1>3, <1>7, TopReturns, TopLeaves
  <2> QED
    BY <1>2, <1>5, <2>1 DEF Walked
<1> QED
  BY <1>6, <1>7

LEMMA PeeledDecided ==
  ASSUME Placed, NEW X \in Block, NEW Y \in Block, NEW P, P = Postdominators(ctrlfunc, dummyexitblock)
  PROVE  (\E h, g \in {1, 2} : Decides(ctrlfunc, P, <<X, h>>, <<Y, g>>)) <=> Walked(X, Y)
<1>0. \A Z \in Block, h \in {1, 2} : <<Z, h>> \in Half
  BY DEF Half
<1>1. ASSUME NEW h \in {1, 2}, NEW g \in {1, 2}, Decides(ctrlfunc, P, <<X, h>>, <<Y, g>>)
      PROVE  Walked(X, Y)
  <2>1. PICK x : <<<<X, h>>, x>> \in ctrlfunc /\ <<Y, g>> \in P[x]
    BY <1>1 DEF Decides
  <2>2. PICK s \in cfg[X] : x = Copy(<<X, h>>, s)
    <3> DEFINE f == <<<<X, h>>, x>>
    <3>1. PICK b \in Block, i \in {1, 2} : f[1] = <<b, i>> /\ \E s \in cfg[b] : f[2] = Copy(<<b, i>>, s)
      BY <2>1, PeeledEdge
    <3>2. b = X /\ i = h /\ f[2] = x
      BY <3>1
    <3> QED
      BY <3>1, <3>2
  <2>3. x \in Half
    BY <2>2, Copies
  <2>4. x \notin Peeled(<<Y, g>>)
    BY <1>0, <2>1, <2>3, PeeledPd
  <2>5. CASE <<X, h>> # <<Y, g>>
    <3>1. <<X, h>> \in Peeled(<<Y, g>>)
      BY <1>0, <1>1, <2>5, PeeledPd DEF Decides
    <3> QED
      BY <2>2, <2>4, <3>1 DEF Walked
  <2>6. CASE X = Y /\ h = 1 /\ g = 1
    BY <2>2, <2>4, <2>6, TopAcyclic
  <2>7. CASE X = Y /\ h = 2 /\ g = 2
    <3>1. x = <<s, 2>>
      BY <2>2, <2>7, CopyHalves
    <3>2. s # exit
      <4>1. dummyexitblock # <<Y, 2>>
        BY BlockFacts DEF dummyexitblock
      <4>2. dummyexitblock \in Peeled(<<Y, 2>>)
        BY <4>1, PeeledStep
      <4> QED
        BY <2>4, <2>7, <3>1, <4>2 DEF dummyexitblock
    <3>3. s \in Block
      BY <3>2, BlockFacts
    <3>4. s \notin Passing(X)
      BY <2>4, <2>7, <3>1, <3>3, BottomIsLoop
    <3>5. Copy(<<X, 1>>, s) \notin Peeled(<<Y, 2>>) /\ <<X, 1>> \in Peeled(<<Y, 2>>)
      BY <2>7, <3>4, TopReturns, TopLeaves
    <3>6. 1 \in {1, 2} /\ 2 \in {1, 2}
      OBVIOUS
    <3> QED
      BY <3>5, <3>6 DEF Walked
  <2> QED
    BY <2>5, <2>6, <2>7
<1>2. ASSUME Walked(X, Y) PROVE \E h, g \in {1, 2} : Decides(ctrlfunc, P, <<X, h>>, <<Y, g>>)
  <2>1. PICK h, g \in {1, 2} : \E s \in cfg[X] : Copy(<<X, h>>, s) \notin Peeled(<<Y, g>>) /\ <<X, h>> \in Peeled(<<Y, g>>)
    BY <1>2 DEF Walked
  <2>2. PICK s \in cfg[X] : Copy(<<X, h>>, s) \notin Peeled(<<Y, g>>) /\ <<X, h>> \in Peeled(<<Y, g>>)
    BY <2>1
  <2> DEFINE x == Copy(<<X, h>>, s)
  <2>3. <<<<X, h>>, x>> \in ctrlfunc /\ x \in Half
    BY Copies
  <2> HIDE DEF x
  <2>4. x \in DOMAIN P
    BY <2>3, PeeledReaches, PdDef
  <2>5. <<Y, g>> \in P[x] /\ <<Y, g>> \notin P[<<X, h>>]
    BY <1>0, <2>2, <2>3, PeeledPd DEF x
  <2>6. Decides(ctrlfunc, P, <<X, h>>, <<Y, g>>)
    BY <2>3, <2>4, <2>5 DEF Decides
  <2> QED
    BY <2>6
<1> QED
  BY <1>1, <1>2
-----------------------------------------------------------------------------
(* The walk *)

\* What the walk is to add for edge D -> x of the peeled loop: an edge from the branch of
\* D to every instruction of the blocks that postdominate x and not D.
Marks(D, y) == {Edge(getTerminator(D[1]), <<y[1], m>>, "CONTROL") : m \in DOMAIN prog.insts[y[1]]}
Marked(D, y) == Marks(D, y) \subseteq Range(allEdges)
EdgeDone(D, x) == \A y \in pdt[x] \ pdt[D] : Marked(D, y)

\* Halfway: what lies below the node of the walk has its edges, and the end of the walk
\* lies above it.
Walking(D, x) ==
  /\ succnode \in pdt[x] /\ dn \in pdt[succnode] /\ pdt[dn] = pdt[D] \cap pdt[x]
  /\ \A y \in pdt[x] \ pdt[succnode] : Marked(D, y)
  /\ \A m \in 1..bi - 1 : Edge(getTerminator(D[1]), <<succnode[1], m>>, "CONTROL") \in Range(allEdges)
  /\ succnode = dn => bi = 1

\* The control edges are what the walks are to add.
Sound == \A e \in Controls : \E D \in Block \X {1, 2} : \E x \in dest(D) : \E y \in pdt[x] \ pdt[D] : e \in Marks(D, y)

OrderInv ==
  /\ Controls = {} /\ d = 1 /\ todo = {} /\ succnode = None /\ dn = None /\ bi = 1
  /\ phase # "done" => vis = {}

PeeledInv ==
  /\ phase = "done" /\ stack = <<>> /\ vis = Block
  /\ pdt = Postdominators(ctrlfunc, dummyexitblock)
  /\ d \in 1..2 * NumBlock /\ bi \in Nat \ {0}
  /\ Sound
  /\ \A j \in 1..d - 1 : \A x \in dest(dummylist[j]) : EdgeDone(dummylist[j], x)

WalkInv ==
  /\ todo \subseteq dest(dummylist[d])
  /\ succnode = None => dn = None /\ bi = 1 /\ \A x \in dest(dummylist[d]) \ todo : EdgeDone(dummylist[d], x)
  /\ succnode # None => \E x \in dest(dummylist[d]) :
       /\ Walking(dummylist[d], x)
       /\ \A z \in dest(dummylist[d]) \ todo : z = x \/ EdgeDone(dummylist[d], z)

DoneInv ==
  /\ todo = {} /\ succnode = None /\ dn = None
  /\ \A x \in dest(dummylist[d]) : EdgeDone(dummylist[d], x)
  /\ d = 2 * NumBlock

StepInv ==
  /\ step \in {"order", "walk", "done"}
  /\ step = "order" => OrderInv
  /\ step # "order" => PeeledInv
  /\ step = "walk" => WalkInv
  /\ step = "done" => DoneInv

ControlInv == DataInv /\ TableInv /\ DfsInv /\ SearchInv /\ StepInv

LEMMA PeeledPlaced ==
  ASSUME DataInv, DfsInv, PeeledInv
  PROVE  Placed
<1>1. {Frame(j) : j \in 1..Len(stack)} = {}
  BY DEF PeeledInv
<1> QED
  BY <1>1 DEF Placed, DataInv, DfsInv, PeeledInv

\* The parts of the peeled loop do not change.
LEMMA Frozen ==
  ASSUME prog' = prog, ord' = ord
  PROVE  /\ dummylist' = dummylist /\ ctrlfunc' = ctrlfunc
         /\ \A D : dest(D)' = dest(D)
         /\ \A D, y : Marks(D, y)' = Marks(D, y)
<1>1. dummylist' = dummylist
  BY DEF dummylist
<1>2. \A b : instnum(b)' = instnum(b)
  BY DEF instnum
<1>3. \A b, s : LeadsForward(b, s)' = LeadsForward(b, s)
  BY <1>2 DEF LeadsForward
<1>4. cfg' = cfg
  BY DEF cfg
<1>5. \A D : dest(D)' = dest(D)
  BY <1>3, <1>4 DEF dest, dummytoreal
<1>6. ctrlfunc' = ctrlfunc
  BY <1>5 DEF ctrlfunc
<1>7. \A D, y : Marks(D, y)' = Marks(D, y)
  BY DEF Marks, getTerminator
<1> QED
  BY <1>1, <1>5, <1>6, <1>7

LEMMA DoneStays ==
  ASSUME prog' = prog, ord' = ord, pdt' = pdt, Range(allEdges) \subseteq Range(allEdges'),
         NEW D, NEW x, EdgeDone(D, x)
  PROVE  EdgeDone(D, x)'
<1>1. \A y : Marks(D, y)' = Marks(D, y)
  BY Frozen
<1> QED
  BY <1>1 DEF EdgeDone, Marked

\* The tree, as the walk uses it.
LEMMA TreeFacts ==
  ASSUME Placed, pdt = Postdominators(ctrlfunc, dummyexitblock), NEW x \in Half
  PROVE  /\ pdt[x] \subseteq Half /\ x \in pdt[x] /\ dummyexitblock \in pdt[x]
         /\ \A y \in pdt[x] : pdt[y] \subseteq pdt[x] /\ (x \in pdt[y] => x = y)
         /\ pdt[dummyexitblock] = {dummyexitblock}
         /\ x # dummyexitblock => Parent(pdt, x) \in pdt[x] /\ pdt[Parent(pdt, x)] = pdt[x] \ {x}
         /\ \A s \in Half : NearestCommon(pdt, x, s) \in pdt[x] /\ pdt[NearestCommon(pdt, x, s)] = pdt[x] \cap pdt[s]
<1>1. /\ IsFiniteSet(ctrlfunc) /\ AllReach(ctrlfunc, dummyexitblock)
      /\ NodesOf(ctrlfunc, dummyexitblock) = Half
  BY PeeledFinite, PeeledReaches
<1>2. pdt[x] \subseteq Half /\ \A y \in pdt[x] : pdt[y] \subseteq pdt[x]
  BY <1>1, PdSubset
<1>3. x \in pdt[x] /\ dummyexitblock \in pdt[x] /\ pdt[dummyexitblock] = {dummyexitblock}
  BY <1>1, PdSelf
<1>4. \A y \in pdt[x] : x \in pdt[y] => x = y
  BY <1>1, PdAntisymmetric
<1>5. x # dummyexitblock => Parent(pdt, x) \in pdt[x] /\ pdt[Parent(pdt, x)] = pdt[x] \ {x}
  BY <1>1, ParentIs
<1>6. \A s \in Half : NearestCommon(pdt, x, s) \in pdt[x] /\ pdt[NearestCommon(pdt, x, s)] = pdt[x] \cap pdt[s]
  BY <1>1, CommonIs
<1> QED
  BY <1>2, <1>3, <1>4, <1>5, <1>6

\* While the order is found there are no control edges.
LEMMA DataControl ==
  ASSUME ControlInv, Data, UNCHANGED control
  PROVE  ControlInv'
<1>1. DataInv' /\ TableInv'
  BY DataDataInv, DataTableInv DEF ControlInv
<1>2. phase # "done" /\ prog' = prog
  BY DataEdges DEF Data, AddUse, NoMemory, LocalDependence, AskNonLocal, AddNonLocal, EndNonLocal
<1>3. UNCHANGED <<step, vis, ord, stack, pdt, d, todo, succnode, dn, bi>>
  BY DEF control, dfs, walk
<1>4. DfsInv' /\ SearchInv'
  BY <1>2, <1>3 DEF ControlInv, DfsInv, SearchInv, Frame, InLoop, cfg
<1>5. step = "order" /\ OrderInv
  BY <1>2 DEF ControlInv, StepInv, PeeledInv
<1>6. Controls' = {}
  <2>1. Controls = {}
    BY <1>5 DEF OrderInv
  <2>2. UNCHANGED graph \/ \E u, v, dtype : addEdge(u, v, dtype) /\ dtype # "CONTROL"
    BY DataEdges
  <2>3. CASE UNCHANGED graph
    BY <2>1, <2>3 DEF graph, Controls
  <2>4. ASSUME NEW u, NEW v, NEW dtype, addEdge(u, v, dtype), dtype # "CONTROL" PROVE Controls' = {}
    <3>1. Range(allEdges') = Range(allEdges) \cup {Edge(u, v, dtype)}
      BY <2>4, AddEdgeKeeps DEF ControlInv
    <3> QED
      BY <2>1, <2>4, <3>1 DEF Controls, Edge
  <2> QED
    BY <2>2, <2>3, <2>4
<1>7. OrderInv'
  BY <1>2, <1>3, <1>5, <1>6 DEF OrderInv
<1>8. StepInv'
  BY <1>3, <1>5, <1>7 DEF StepInv
<1> QED
  BY <1>1, <1>4, <1>8 DEF ControlInv

LEMMA VarsStay ==
  ASSUME DataInv, TableInv, UNCHANGED vars
  PROVE  DataInv' /\ TableInv'
<1>1. DataInv'
  BY DEF DataInv, TypeOK, vars, graph, Order, Instr, EdgeSet
<1>2. TableInv'
  BY UnchangedKeeps DEF vars
<1> QED
  BY <1>1, <1>2

LEMMA VisitControl ==
  ASSUME ControlInv, (\E b \in Block : VisitRoot(b) \/ VisitSucc(b)) \/ VisitReturn
  PROVE  ControlInv'
<1>1. UNCHANGED <<vars, step, walk>> /\ phase = "done" /\ step = "order"
  BY DEF VisitRoot, VisitSucc, VisitReturn, Ordering
<1>2. DataInv' /\ TableInv'
  BY <1>1, VarsStay DEF ControlInv
<1>3. DfsInv' /\ SearchInv'
  BY RootKeeps, SuccKeeps, ReturnKeeps DEF ControlInv, DataInv
<1>4. StepInv'
  BY <1>1 DEF ControlInv, StepInv, OrderInv, vars, graph, walk, Controls
<1> QED
  BY <1>2, <1>3, <1>4 DEF ControlInv

LEMMA PeelControl ==
  ASSUME ControlInv, Peel
  PROVE  ControlInv'
<1>1. /\ UNCHANGED <<vars, dfs, d, succnode, dn, bi>> /\ phase = "done" /\ step = "order" /\ stack = <<>> /\ vis = Block
      /\ step' = "walk" /\ pdt' = Postdominators(ctrlfunc, dummyexitblock) /\ todo' = dest(dummylist[1])
  BY DEF Peel, Ordering
<1>2. DataInv' /\ TableInv'
  BY <1>1, VarsStay DEF ControlInv
<1>3. DfsInv' /\ SearchInv'
  BY <1>1 DEF ControlInv, DfsInv, SearchInv, Frame, InLoop, cfg, vars, dfs
<1>4. /\ prog' = prog /\ ord' = ord /\ d' = 1 /\ succnode' = None /\ dn' = None /\ bi' = 1 /\ allEdges' = allEdges
      /\ phase' = "done" /\ stack' = <<>> /\ vis' = Block /\ Controls = {}
  BY <1>1 DEF ControlInv, StepInv, OrderInv, vars, graph, dfs
<1>5. dummylist' = dummylist /\ ctrlfunc' = ctrlfunc /\ \A D : dest(D)' = dest(D)
  BY <1>4, Frozen
<1>6. Sound'
  BY <1>4 DEF Sound, Controls
<1>7. PeeledInv'
  BY <1>1, <1>4, <1>5, <1>6, LoopAssumption DEF PeeledInv
<1>8. WalkInv'
  <2>1. dest(dummylist[d])' = todo'
    BY <1>1, <1>4, <1>5
  <2> QED
    BY <1>4, <2>1 DEF WalkInv
<1> QED
  BY <1>1, <1>2, <1>3, <1>7, <1>8 DEF ControlInv, StepInv

\* What a step of the walk meets: the dummy block at hand, and the tree above its edges.
LEMMA WalkFacts ==
  ASSUME ControlInv, step = "walk"
  PROVE  /\ PeeledInv /\ WalkInv /\ Placed /\ 2 * NumBlock \in Nat /\ Len(dummylist) = 2 * NumBlock
         /\ \A j \in 1..2 * NumBlock : \E b \in Block, h \in {1, 2} : dummylist[j] = <<b, h>>
         /\ dummylist[d] \in Block \X {1, 2} /\ dummylist[d] \in Half
         /\ dest(dummylist[d]) \subseteq Half
         /\ None \notin Half
<1>1. PeeledInv /\ WalkInv /\ Placed
  BY PeeledPlaced DEF ControlInv, StepInv
<1>2. Len(dummylist) = 2 * NumBlock /\ \A j \in 1..2 * NumBlock : dummylist[j] \in Block \X {1, 2}
  BY <1>1, DummiesListed
<1>3. PICK b \in Block, h \in {1, 2} : dummylist[d] = <<b, h>>
  BY <1>1, <1>2 DEF PeeledInv
<1>4. dest(<<b, h>>) \subseteq Half
  <2>1. /\ dest(<<b, h>>) = {Copy(<<b, h>>, s) : s \in cfg[b]}
        /\ \A s \in cfg[b] : Copy(<<b, h>>, s) \in Half
    BY <1>1, Copies
  <2> QED
    BY <2>1
<1>5. None \notin Half
  BY DEF None, Half, dummyexitblock
<1>6. 2 * NumBlock \in Nat
  BY LoopAssumption
<1>7. \A j \in 1..2 * NumBlock : \E c \in Block, i \in {1, 2} : dummylist[j] = <<c, i>>
  BY <1>2
<1> QED
  BY <1>1, <1>2, <1>3, <1>4, <1>5, <1>6, <1>7 DEF Half

\* A step of the walk that leaves the graph alone.
LEMMA WalkKeeps ==
  ASSUME ControlInv, step = "walk", UNCHANGED <<vars, dfs, pdt>>
  PROVE  /\ DataInv' /\ TableInv' /\ DfsInv' /\ SearchInv' /\ Sound'
         /\ dummylist' = dummylist /\ ctrlfunc' = ctrlfunc /\ \A D : dest(D)' = dest(D)
         /\ \A D, x : EdgeDone(D, x)' = EdgeDone(D, x)
         /\ \A D, y : Marked(D, y)' = Marked(D, y)
         /\ phase' = "done" /\ stack' = <<>> /\ vis' = Block /\ pdt' = Postdominators(ctrlfunc, dummyexitblock)
<1>1. /\ prog' = prog /\ ord' = ord /\ stack' = stack /\ vis' = vis /\ phase' = phase /\ allEdges' = allEdges
      /\ pdt' = pdt /\ UNCHANGED vars
  BY DEF vars, graph, dfs
<1>2. DataInv' /\ TableInv'
  BY <1>1, VarsStay DEF ControlInv
<1>3. DfsInv' /\ SearchInv'
  BY <1>1 DEF ControlInv, DfsInv, SearchInv, Frame, InLoop, cfg
<1>4. /\ dummylist' = dummylist /\ ctrlfunc' = ctrlfunc /\ \A D : dest(D)' = dest(D)
      /\ \A D, y : Marks(D, y)' = Marks(D, y)
  BY <1>1, Frozen
<1>5. \A D, y : Marked(D, y)' = Marked(D, y)
  BY <1>1, <1>4 DEF Marked
<1>6. \A D, x : EdgeDone(D, x)' = EdgeDone(D, x)
  BY <1>1, <1>5 DEF EdgeDone
<1>7. PeeledInv
  BY DEF ControlInv, StepInv
<1>8. Controls' = Controls
  BY <1>1 DEF Controls
<1>9. Sound'
  BY <1>1, <1>4, <1>7, <1>8 DEF Sound, PeeledInv
<1> QED
  BY <1>1, <1>2, <1>3, <1>4, <1>5, <1>6, <1>7, <1>9 DEF PeeledInv

LEMMA NextSuccControl ==
  ASSUME ControlInv, NEW s \in todo, NextSucc(s)
  PROVE  ControlInv'
<1>1. /\ step = "walk" /\ succnode = None /\ s \in todo /\ succnode' = s /\ todo' = todo \ {s}
      /\ dn' = NearestCommon(pdt, dummylist[d], s) /\ UNCHANGED <<vars, step, dfs, pdt, d, bi>>
  BY DEF NextSucc
<1>2. /\ PeeledInv /\ WalkInv /\ Placed /\ dummylist[d] \in Half /\ dest(dummylist[d]) \subseteq Half /\ None \notin Half
  BY <1>1, WalkFacts
<1>3. /\ DataInv' /\ TableInv' /\ DfsInv' /\ SearchInv' /\ Sound'
      /\ dummylist' = dummylist /\ ctrlfunc' = ctrlfunc /\ \A D : dest(D)' = dest(D)
      /\ \A D, x : EdgeDone(D, x)' = EdgeDone(D, x)
      /\ \A D, y : Marked(D, y)' = Marked(D, y)
      /\ phase' = "done" /\ stack' = <<>> /\ vis' = Block /\ pdt' = Postdominators(ctrlfunc, dummyexitblock)
  BY <1>1, WalkKeeps
<1>4. d' = d /\ bi' = bi /\ pdt' = pdt /\ step' = "walk" /\ bi = 1
  BY <1>1, <1>2 DEF WalkInv
<1>5. PeeledInv'
  BY <1>2, <1>3, <1>4 DEF PeeledInv
<1> DEFINE D == dummylist[d]
<1>6. s \in dest(D) /\ s \in Half /\ \A z \in dest(D) \ todo : EdgeDone(D, z)
  BY <1>1, <1>2 DEF WalkInv
<1>7. dn' \in pdt[s] /\ pdt[dn'] = pdt[D] \cap pdt[s] /\ s \in pdt[s]
  <2>1. dn' \in pdt[D] /\ pdt[dn'] = pdt[D] \cap pdt[s] /\ s \in pdt[s]
    BY <1>1, <1>2, <1>6, TreeFacts DEF PeeledInv
  <2>2. dn' \in pdt[dn']
    BY <1>2, <2>1, TreeFacts DEF PeeledInv
  <2> QED
    BY <2>1, <2>2
<1>8. Walking(D, s)'
  BY <1>1, <1>3, <1>4, <1>7 DEF Walking
<1>9. WalkInv'
  <2>1. dest(dummylist[d])' = dest(D) /\ dummylist[d]' = D
    BY <1>3, <1>4
  <2>2. todo' \subseteq dest(D)
    BY <1>1, <1>2 DEF WalkInv
  <2>3. \A z \in dest(D) \ todo' : z = s \/ EdgeDone(D, z)'
    BY <1>1, <1>3, <1>4, <1>6
  <2>4. succnode' # None
    BY <1>1, <1>2, <1>6
  <2> QED
    BY <1>6, <1>8, <2>1, <2>2, <2>3, <2>4 DEF WalkInv
<1> QED
  BY <1>3, <1>4, <1>5, <1>9 DEF ControlInv, StepInv

\* The walk ends where it is to end, below the root or there.
LEMMA WalkEndsAt ==
  ASSUME ControlInv, step = "walk", succnode # None, NEW x \in dest(dummylist[d]), Walking(dummylist[d], x)
  PROVE  /\ x \in Half /\ succnode \in Half /\ dn \in Half /\ succnode \in pdt[x]
         /\ WalkGoesOn <=> succnode # dn
         /\ WalkGoesOn => /\ succnode \in Block \X {1, 2} /\ succnode \notin pdt[dummylist[d]]
                          /\ Parent(pdt, succnode) \in pdt[x] /\ pdt[Parent(pdt, succnode)] = pdt[succnode] \ {succnode}
                          /\ Parent(pdt, succnode) \in Half /\ dn \in pdt[Parent(pdt, succnode)]
<1>1. /\ PeeledInv /\ WalkInv /\ Placed /\ dummylist[d] \in Half /\ dest(dummylist[d]) \subseteq Half /\ None \notin Half
  BY WalkFacts
<1>2. x \in Half /\ succnode \in pdt[x] /\ dn \in pdt[succnode] /\ pdt[dn] = pdt[dummylist[d]] \cap pdt[x]
  BY <1>1 DEF Walking
<1>3. succnode \in Half /\ pdt[succnode] \subseteq pdt[x]
  BY <1>1, <1>2, TreeFacts DEF PeeledInv
<1>4. dn \in Half
  BY <1>1, <1>2, <1>3, TreeFacts DEF PeeledInv
<1>5. succnode = dummyexitblock => dn = dummyexitblock
  BY <1>1, <1>2, <1>3, TreeFacts DEF PeeledInv
<1>6. WalkGoesOn <=> succnode # dn
  BY <1>5 DEF WalkGoesOn
<1>7. ASSUME WalkGoesOn
      PROVE  /\ succnode \in Block \X {1, 2} /\ succnode \notin pdt[dummylist[d]]
             /\ Parent(pdt, succnode) \in pdt[x] /\ pdt[Parent(pdt, succnode)] = pdt[succnode] \ {succnode}
             /\ Parent(pdt, succnode) \in Half /\ dn \in pdt[Parent(pdt, succnode)]
  <2>1. succnode # dn /\ succnode # dummyexitblock
    BY <1>7 DEF WalkGoesOn
  <2>2. succnode \in Block \X {1, 2}
    BY <1>3, <2>1 DEF Half
  <2>3. Parent(pdt, succnode) \in pdt[succnode] /\ pdt[Parent(pdt, succnode)] = pdt[succnode] \ {succnode}
    BY <1>1, <1>3, <2>1, TreeFacts DEF PeeledInv
  <2>4. Parent(pdt, succnode) \in pdt[x] /\ Parent(pdt, succnode) \in Half
    <3>1. pdt[x] \subseteq Half
      BY <1>1, <1>2, TreeFacts DEF PeeledInv
    <3> QED
      BY <1>3, <2>3, <3>1
  <2>5. dn \in pdt[Parent(pdt, succnode)]
    BY <1>2, <2>1, <2>3
  <2>6. succnode \notin pdt[dn]
    BY <1>1, <1>2, <1>3, <2>1, TreeFacts DEF PeeledInv
  <2>7. succnode \notin pdt[dummylist[d]]
    BY <1>2, <2>6
  <2> QED
    BY <2>2, <2>3, <2>4, <2>5, <2>7
<1> QED
  BY <1>2, <1>3, <1>4, <1>6, <1>7

\* The instructions of a block, and its branch.
LEMMA BlockInstrs ==
  ASSUME DataInv, NEW b \in Block
  PROVE  /\ DOMAIN prog.insts[b] = 1..Len(prog.insts[b]) /\ Len(prog.insts[b]) \in Nat
         /\ \A m \in 1..Len(prog.insts[b]) : <<b, m>> \in Instr
         /\ getTerminator(b) \in Instr
<1>1. prog \in Programs /\ IsProgram(prog)
  BY DataAssumption DEF DataInv
<1>2. /\ prog.insts[b] \in Seq([kind : Kind, loc : SUBSET Location])
      /\ \A m \in 1..Len(prog.insts[b]) : <<b, m>> \in Instr
  BY <1>1, ProgramFacts
<1>3. prog.insts[b] # <<>>
  BY <1>1, ControlAssumption
<1>4. Len(prog.insts[b]) \in Nat /\ Len(prog.insts[b]) >= 1 /\ DOMAIN prog.insts[b] = 1..Len(prog.insts[b])
  BY <1>2, <1>3, EmptySeq
<1>5. getTerminator(b) \in Instr
  BY <1>2, <1>4 DEF getTerminator
<1> QED
  BY <1>2, <1>4, <1>5

LEMMA ClimbControl ==
  ASSUME ControlInv, Climb
  PROVE  ControlInv'
<1>1. /\ step = "walk" /\ succnode # None /\ WalkGoesOn /\ bi > Len(prog.insts[realdepblock])
      /\ succnode' = Parent(pdt, succnode) /\ bi' = 1 /\ UNCHANGED <<vars, step, dfs, pdt, d, todo, dn>>
  BY DEF Climb, getIDom
<1>2. /\ PeeledInv /\ WalkInv /\ Placed /\ dummylist[d] \in Half /\ dest(dummylist[d]) \subseteq Half /\ None \notin Half
  BY <1>1, WalkFacts
<1>3. /\ DataInv' /\ TableInv' /\ DfsInv' /\ SearchInv' /\ Sound'
      /\ dummylist' = dummylist /\ ctrlfunc' = ctrlfunc /\ \A D : dest(D)' = dest(D)
      /\ \A D, x : EdgeDone(D, x)' = EdgeDone(D, x)
      /\ \A D, y : Marked(D, y)' = Marked(D, y)
      /\ phase' = "done" /\ stack' = <<>> /\ vis' = Block /\ pdt' = Postdominators(ctrlfunc, dummyexitblock)
  BY <1>1, WalkKeeps
<1>4. /\ d' = d /\ pdt' = pdt /\ step' = "walk" /\ dn' = dn /\ todo' = todo /\ prog' = prog /\ allEdges' = allEdges
  BY <1>1 DEF vars, graph
<1>5. PeeledInv'
  <2>1. d \in 1..2 * NumBlock /\ \A j \in 1..d - 1 : \A x \in dest(dummylist[j]) : EdgeDone(dummylist[j], x)
    BY <1>2 DEF PeeledInv
  <2>2. \A j \in 1..d' - 1 : \A x \in dest(dummylist[j])' : EdgeDone(dummylist[j], x)'
    BY <1>3, <1>4, <2>1
  <2>3. bi' \in Nat \ {0}
    BY <1>1
  <2> QED
    BY <1>3, <1>4, <2>1, <2>2, <2>3 DEF PeeledInv
<1> DEFINE D == dummylist[d]
<1>6. PICK x \in dest(D) : Walking(D, x) /\ \A z \in dest(D) \ todo : z = x \/ EdgeDone(D, z)
  BY <1>1, <1>2 DEF WalkInv
<1>7. /\ succnode \in Block \X {1, 2} /\ succnode \in pdt[x] /\ dn \in pdt[succnode'] /\ succnode' \in pdt[x]
      /\ pdt[succnode'] = pdt[succnode] \ {succnode} /\ succnode' \in Half
  BY <1>1, <1>6, WalkEndsAt
<1>8. Marked(D, succnode)
  <2>1. PICK b \in Block, h \in {1, 2} : succnode = <<b, h>>
    BY <1>7
  <2>2. DOMAIN prog.insts[b] = 1..Len(prog.insts[b]) /\ Len(prog.insts[b]) \in Nat /\ bi > Len(prog.insts[b]) /\ bi \in Nat
    BY <1>1, <1>2, <2>1, BlockInstrs DEF ControlInv, realdepblock, dummytoreal, PeeledInv
  <2>3. \A m \in DOMAIN prog.insts[b] : m \in 1..bi - 1
    BY <2>2
  <2> QED
    BY <1>6, <2>1, <2>3 DEF Walking, Marked, Marks
<1>9. Walking(D, x)'
  <2>1. \A y \in pdt[x] \ pdt[succnode'] : Marked(D, y)
    BY <1>6, <1>7, <1>8 DEF Walking
  <2>2. D' = D
    BY <1>3, <1>4
  <2>3. pdt[dn] = pdt[D] \cap pdt[x]
    BY <1>6 DEF Walking
  <2>4. \A m \in 1..bi' - 1 : FALSE
    BY <1>1
  <2> QED
    BY <1>1, <1>3, <1>4, <1>7, <2>1, <2>2, <2>3, <2>4 DEF Walking
<1>10. WalkInv'
  <2>1. dest(dummylist[d])' = dest(D) /\ dummylist[d]' = D
    BY <1>3, <1>4
  <2>2. todo' \subseteq dest(D)
    BY <1>2, <1>4 DEF WalkInv
  <2>3. \A z \in dest(D) \ todo' : z = x \/ EdgeDone(D, z)'
    BY <1>3, <1>4, <1>6
  <2>4. succnode' # None
    BY <1>2, <1>7
  <2> QED
    BY <1>6, <1>9, <2>1, <2>2, <2>3, <2>4 DEF WalkInv
<1> QED
  BY <1>3, <1>4, <1>5, <1>10 DEF ControlInv, StepInv

LEMMA WalkEndsControl ==
  ASSUME ControlInv, WalkEnds
  PROVE  ControlInv'
<1>1. /\ step = "walk" /\ succnode # None /\ ~WalkGoesOn
      /\ succnode' = None /\ dn' = None /\ UNCHANGED <<vars, step, dfs, pdt, d, todo, bi>>
  BY DEF WalkEnds
<1>2. /\ PeeledInv /\ WalkInv /\ Placed /\ dummylist[d] \in Half /\ dest(dummylist[d]) \subseteq Half /\ None \notin Half
  BY <1>1, WalkFacts
<1>3. /\ DataInv' /\ TableInv' /\ DfsInv' /\ SearchInv' /\ Sound'
      /\ dummylist' = dummylist /\ ctrlfunc' = ctrlfunc /\ \A D : dest(D)' = dest(D)
      /\ \A D, x : EdgeDone(D, x)' = EdgeDone(D, x)
      /\ phase' = "done" /\ stack' = <<>> /\ vis' = Block /\ pdt' = Postdominators(ctrlfunc, dummyexitblock)
  BY <1>1, WalkKeeps
<1>4. /\ d' = d /\ pdt' = pdt /\ step' = "walk" /\ todo' = todo /\ bi' = bi
  BY <1>1
<1>5. PeeledInv'
  <2>1. /\ d \in 1..2 * NumBlock /\ bi \in Nat \ {0}
        /\ \A j \in 1..d - 1 : \A x \in dest(dummylist[j]) : EdgeDone(dummylist[j], x)
    BY <1>2 DEF PeeledInv
  <2>2. \A j \in 1..d' - 1 : \A x \in dest(dummylist[j])' : EdgeDone(dummylist[j], x)'
    BY <1>3, <1>4, <2>1
  <2> QED
    BY <1>3, <1>4, <2>1, <2>2 DEF PeeledInv
<1> DEFINE D == dummylist[d]
<1>6. PICK x \in dest(D) : Walking(D, x) /\ \A z \in dest(D) \ todo : z = x \/ EdgeDone(D, z)
  BY <1>1, <1>2 DEF WalkInv
<1>7. succnode = dn
  BY <1>1, <1>6, WalkEndsAt
<1>8. bi = 1 /\ EdgeDone(D, x)
  BY <1>6, <1>7 DEF Walking, EdgeDone
<1>9. WalkInv'
  <2>1. dest(dummylist[d])' = dest(D) /\ dummylist[d]' = D
    BY <1>3, <1>4
  <2>2. todo' \subseteq dest(D)
    BY <1>2, <1>4 DEF WalkInv
  <2>3. \A z \in dest(D) \ todo' : EdgeDone(D, z)'
    BY <1>3, <1>4, <1>6, <1>8
  <2> QED
    BY <1>1, <1>4, <1>8, <2>1, <2>2, <2>3 DEF WalkInv
<1> QED
  BY <1>3, <1>4, <1>5, <1>9 DEF ControlInv, StepInv

LEMMA NextDummyControl ==
  ASSUME ControlInv, NextDummy
  PROVE  ControlInv'
<1>1. /\ step = "walk" /\ succnode = None /\ todo = {} /\ UNCHANGED <<vars, dfs, pdt, succnode, dn, bi>>
      /\ IF d < Len(dummylist)
         THEN d' = d + 1 /\ todo' = dest(dummylist[d + 1]) /\ step' = step
         ELSE step' = "done" /\ d' = d /\ todo' = todo
  BY DEF NextDummy
<1>2. PeeledInv /\ WalkInv /\ Placed /\ Len(dummylist) = 2 * NumBlock /\ 2 * NumBlock \in Nat
  BY <1>1, WalkFacts
<1>3. /\ DataInv' /\ TableInv' /\ DfsInv' /\ SearchInv' /\ Sound'
      /\ dummylist' = dummylist /\ ctrlfunc' = ctrlfunc /\ \A D : dest(D)' = dest(D)
      /\ \A D, x : EdgeDone(D, x)' = EdgeDone(D, x)
      /\ phase' = "done" /\ stack' = <<>> /\ vis' = Block /\ pdt' = Postdominators(ctrlfunc, dummyexitblock)
  BY <1>1, WalkKeeps
<1>4. /\ d \in 1..2 * NumBlock /\ bi = 1 /\ dn = None
      /\ \A j \in 1..d - 1 : \A x \in dest(dummylist[j]) : EdgeDone(dummylist[j], x)
      /\ \A x \in dest(dummylist[d]) : EdgeDone(dummylist[d], x)
  BY <1>1, <1>2 DEF PeeledInv, WalkInv
<1>5. \A j \in 1..d : \A x \in dest(dummylist[j]) : EdgeDone(dummylist[j], x)
  <2>1. \A j \in 1..d : j = d \/ j \in 1..d - 1
    BY <1>2, <1>4
  <2> QED
    BY <1>4, <2>1
<1>6. CASE d < Len(dummylist)
  <2>1. d' = d + 1 /\ todo' = dest(dummylist[d + 1]) /\ step' = "walk" /\ succnode' = None /\ dn' = None /\ bi' = 1
    BY <1>1, <1>4, <1>6
  <2>2. d' \in 1..2 * NumBlock /\ d' - 1 = d
    BY <1>2, <1>4, <1>6, <2>1
  <2>3. \A j \in 1..d' - 1 : \A x \in dest(dummylist[j])' : EdgeDone(dummylist[j], x)'
    BY <1>3, <1>5, <2>2
  <2>4. PeeledInv'
    BY <1>3, <2>1, <2>2, <2>3 DEF PeeledInv
  <2>5. WalkInv'
    <3>1. dest(dummylist[d])' = todo'
      BY <1>3, <2>1
    <3> QED
      BY <2>1, <3>1 DEF WalkInv
  <2> QED
    BY <1>3, <2>1, <2>4, <2>5 DEF ControlInv, StepInv
<1>7. CASE ~(d < Len(dummylist))
  <2>1. d' = d /\ todo' = {} /\ step' = "done" /\ succnode' = None /\ dn' = None /\ bi' = 1 /\ d = 2 * NumBlock
    BY <1>1, <1>2, <1>4, <1>7
  <2>2. \A j \in 1..d : \A x \in dest(dummylist[j])' : EdgeDone(dummylist[j], x)'
    BY <1>3, <1>5, <2>1
  <2>3. d \in 1..d /\ \A j \in 1..d - 1 : j \in 1..d
    BY <1>2, <1>4
  <2>4. PeeledInv'
    BY <1>3, <1>4, <2>1, <2>2, <2>3 DEF PeeledInv
  <2>5. DoneInv'
    BY <1>3, <2>1, <2>2, <2>3 DEF DoneInv
  <2> QED
    BY <1>3, <2>1, <2>4, <2>5 DEF ControlInv, StepInv
<1> QED
  BY <1>6, <1>7

LEMMA AddControlControl ==
  ASSUME ControlInv, AddControl
  PROVE  ControlInv'
<1> DEFINE D == dummylist[d]
           e == Edge(getTerminator(D[1]), <<succnode[1], bi>>, "CONTROL")
<1>1. /\ step = "walk" /\ succnode # None /\ WalkGoesOn /\ bi <= Len(prog.insts[succnode[1]])
      /\ addEdge(getTerminator(D[1]), <<succnode[1], bi>>, "CONTROL")
      /\ bi' = bi + 1
      /\ UNCHANGED <<prog, phase, k, n, res, step, dfs, pdt, d, todo, succnode, dn>>
  BY DEF AddControl, realdepblock, realblock, dummytoreal
<1>2. /\ PeeledInv /\ WalkInv /\ Placed /\ D \in Block \X {1, 2} /\ dest(D) \subseteq Half /\ None \notin Half
  BY <1>1, WalkFacts
<1>3. PICK x \in dest(D) : Walking(D, x) /\ \A z \in dest(D) \ todo : z = x \/ EdgeDone(D, z)
  BY <1>1, <1>2 DEF WalkInv
<1>4. succnode # dn /\ succnode \in Block \X {1, 2} /\ succnode \in pdt[x] /\ succnode \notin pdt[D]
  BY <1>1, <1>3, WalkEndsAt
<1>5. /\ ord' = ord /\ stack' = stack /\ vis' = vis /\ phase' = phase /\ prog' = prog /\ pdt' = pdt /\ d' = d
      /\ dn' = dn /\ succnode' = succnode /\ todo' = todo /\ step' = "walk" /\ phase' = "done" /\ k' = k /\ n' = n /\ res' = res
  BY <1>1, <1>2 DEF dfs, PeeledInv
<1>6. PICK b \in Block, h \in {1, 2} : succnode = <<b, h>>
  BY <1>4
<1>7. PICK c \in Block, i \in {1, 2} : D = <<c, i>>
  BY <1>2
<1>8. /\ bi \in Nat \ {0} /\ bi \in DOMAIN prog.insts[succnode[1]]
      /\ <<succnode[1], bi>> \in Instr /\ getTerminator(D[1]) \in Instr
  <2>0. DataInv /\ bi \in Nat \ {0}
    BY <1>2 DEF ControlInv, PeeledInv
  <2>1. /\ DOMAIN prog.insts[b] = 1..Len(prog.insts[b]) /\ Len(prog.insts[b]) \in Nat
        /\ \A m \in 1..Len(prog.insts[b]) : <<b, m>> \in Instr
    BY <2>0, BlockInstrs
  <2>2. getTerminator(c) \in Instr
    BY <2>0, BlockInstrs
  <2>3. bi \in 1..Len(prog.insts[b])
    BY <1>1, <1>6, <2>0, <2>1
  <2> QED
    BY <1>6, <1>7, <2>0, <2>1, <2>2, <2>3
<1>9. DataInv'
  <2>1. GraphOK /\ "CONTROL" \in DType
    BY DEF ControlInv, DataInv, TypeOK, GraphOK, DType
  <2>2. GraphOK'
    BY <1>1, <1>5, <1>8, <2>1, AddEdgeTypes
  <2> QED
    BY <1>5, <2>2 DEF ControlInv, DataInv, TypeOK, GraphOK, Order
<1>10. TableInv' /\ Range(allEdges') = Range(allEdges) \cup {e}
  BY <1>1, AddEdgeKeeps DEF ControlInv
<1>11. DfsInv' /\ SearchInv'
  BY <1>5 DEF ControlInv, DfsInv, SearchInv, Frame, InLoop, cfg
<1>12. /\ dummylist' = dummylist /\ ctrlfunc' = ctrlfunc /\ \A z : dest(z)' = dest(z)
       /\ \A z, y : Marks(z, y)' = Marks(z, y)
  BY <1>5, Frozen
<1>13. \A z, y : Marked(z, y) => Marked(z, y)'
  BY <1>10, <1>12 DEF Marked
<1>14. \A z, y : EdgeDone(z, y) => EdgeDone(z, y)'
  BY <1>5, <1>13 DEF EdgeDone
<1>15. e \in Marks(D, succnode)
  BY <1>8 DEF Marks
<1> HIDE DEF e
<1>16. Sound'
  <2> SUFFICES ASSUME NEW g \in Controls'
               PROVE  \E z \in Block \X {1, 2} : \E u \in dest(z) : \E y \in pdt[u] \ pdt[z] : g \in Marks(z, y)
    BY <1>5, <1>12 DEF Sound
  <2>1. g \in Controls \/ g = e
    BY <1>10 DEF Controls
  <2>2. CASE g \in Controls
    BY <1>2, <2>2 DEF PeeledInv, Sound
  <2>3. CASE g = e
    BY <1>2, <1>4, <1>15, <2>3
  <2> QED
    BY <2>1, <2>2, <2>3
<1>17. PeeledInv'
  <2>1. d \in 1..2 * NumBlock /\ \A j \in 1..d - 1 : \A z \in dest(dummylist[j]) : EdgeDone(dummylist[j], z)
    BY <1>2 DEF PeeledInv
  <2>2. \A j \in 1..d' - 1 : \A z \in dest(dummylist[j])' : EdgeDone(dummylist[j], z)'
    BY <1>5, <1>12, <1>14, <2>1
  <2>3. bi' \in Nat \ {0}
    BY <1>1, <1>8
  <2>4. stack = <<>> /\ vis = Block /\ pdt = Postdominators(ctrlfunc, dummyexitblock)
    BY <1>2 DEF PeeledInv
  <2>5. pdt' = Postdominators(ctrlfunc, dummyexitblock)'
    BY <1>5, <1>12, <2>4
  <2> QED
    BY <1>5, <1>16, <2>1, <2>2, <2>3, <2>4, <2>5 DEF PeeledInv
<1>18. D' = D
  BY <1>5, <1>12
<1>19. Walking(D, x)'
  <2>1. /\ succnode \in pdt[x] /\ dn \in pdt[succnode] /\ pdt[dn] = pdt[D] \cap pdt[x]
        /\ \A y \in pdt[x] \ pdt[succnode] : Marked(D, y)
        /\ \A m \in 1..bi - 1 : Edge(getTerminator(D[1]), <<succnode[1], m>>, "CONTROL") \in Range(allEdges)
    BY <1>3 DEF Walking
  <2>2. \A y \in pdt[x] \ pdt[succnode] : Marked(D, y)'
    BY <1>13, <1>18, <2>1
  <2>3. ASSUME NEW m \in 1..bi' - 1
        PROVE  Edge(getTerminator(D[1]), <<succnode[1], m>>, "CONTROL") \in Range(allEdges')
    <3>1. m = bi \/ m \in 1..bi - 1
      BY <1>1, <1>8
    <3> QED
      BY <1>10, <2>1, <3>1 DEF e
  <2>4. getTerminator(D[1])' = getTerminator(D[1])
    BY <1>5, <1>18 DEF getTerminator
  <2> QED
    BY <1>4, <1>5, <1>18, <2>1, <2>2, <2>3, <2>4 DEF Walking
<1>20. WalkInv'
  <2>1. dest(dummylist[d])' = dest(D) /\ dummylist[d]' = D
    BY <1>12, <1>18
  <2>2. todo' \subseteq dest(D)
    BY <1>2, <1>5 DEF WalkInv
  <2>3. \A z \in dest(D) \ todo' : z = x \/ EdgeDone(D, z)'
    BY <1>3, <1>5, <1>14, <1>18
  <2> QED
    BY <1>1, <1>3, <1>5, <1>19, <2>1, <2>2, <2>3 DEF WalkInv
<1> QED
  BY <1>5, <1>9, <1>10, <1>11, <1>17, <1>20 DEF ControlInv, StepInv

LEMMA InitControl == CInit => ControlInv
<1> SUFFICES ASSUME CInit PROVE ControlInv
  OBVIOUS
<1>1. /\ Init /\ step = "order" /\ vis = {} /\ ord = <<>> /\ stack = <<>> /\ allEdges = <<>> /\ phase = "uses"
      /\ d = 1 /\ todo = {} /\ succnode = None /\ dn = None /\ bi = 1
  BY DEF CInit, Init
<1>2. DataInv /\ TableInv
  BY <1>1, InitDataInv, InitTableInv
<1>3. DfsInv
  <2>1. \A j \in 1..Len(stack) : FALSE
    BY <1>1
  <2>2. ord \in Seq(Block) /\ stack \in Seq(Call) /\ IsInjective(ord) /\ Range(ord) = {}
    BY <1>1, Empty
  <2> QED
    BY <1>1, <2>1, <2>2 DEF DfsInv
<1>4. SearchInv
  <2>1. (\A j \in 1..Len(stack) : FALSE) /\ (\A j \in 1..Len(stack) - 1 : FALSE)
    BY <1>1
  <2>2. Range(ord) = {}
    BY <1>1, Empty
  <2> QED
    BY <1>1, <2>1, <2>2 DEF SearchInv
<1>5. Controls = {}
  BY <1>1, Empty DEF Controls
<1> QED
  BY <1>1, <1>2, <1>3, <1>4, <1>5 DEF ControlInv, StepInv, OrderInv

LEMMA ControlSteps == ControlInv /\ [CNext]_<<vars, control>> => ControlInv'
<1> SUFFICES ASSUME ControlInv, [CNext]_<<vars, control>> PROVE ControlInv'
  OBVIOUS
<1>1. ASSUME UNCHANGED <<vars, control>> PROVE ControlInv'
  <2>1. DataInv' /\ TableInv'
    BY <1>1, VarsStay DEF ControlInv
  <2>2. UNCHANGED <<prog, phase, allEdges, step, vis, ord, stack, pdt, d, todo, succnode, dn, bi>>
    BY <1>1 DEF vars, graph, control, dfs, walk
  <2>3. DfsInv' /\ SearchInv'
    BY <2>2 DEF ControlInv, DfsInv, SearchInv, Frame, InLoop, cfg
  <2>4. Controls' = Controls
    BY <2>2 DEF Controls
  <2>5. CASE step = "order"
    BY <2>1, <2>2, <2>3, <2>4, <2>5 DEF ControlInv, StepInv, OrderInv
  <2>6. CASE step # "order"
    <3>1. /\ dummylist' = dummylist /\ ctrlfunc' = ctrlfunc /\ \A D : dest(D)' = dest(D)
          /\ \A D, y : Marks(D, y)' = Marks(D, y)
      BY <2>2, Frozen
    <3>2. \A D, y : Marked(D, y)' = Marked(D, y)
      BY <2>2, <3>1 DEF Marked
    <3>3. \A D, x : EdgeDone(D, x)' = EdgeDone(D, x)
      BY <2>2, <3>2 DEF EdgeDone
    <3>4. PeeledInv
      BY <2>6 DEF ControlInv, StepInv
    <3>5. Sound'
      BY <2>2, <2>4, <3>1, <3>4 DEF Sound, PeeledInv
    <3>6. PeeledInv'
      <4>1. \A j \in 1..d' - 1 : \A x \in dest(dummylist[j])' : EdgeDone(dummylist[j], x)'
        BY <2>2, <3>1, <3>3, <3>4 DEF PeeledInv
      <4> QED
        BY <2>2, <3>1, <3>4, <3>5, <4>1 DEF PeeledInv
    <3>7. step = "done" => DoneInv'
      BY <2>2, <3>1, <3>3 DEF ControlInv, StepInv, DoneInv
    <3>8. step = "walk" => WalkInv'
      <4> SUFFICES ASSUME step = "walk" PROVE WalkInv'
        OBVIOUS
      <4>0. WalkInv /\ dummylist[d]' = dummylist[d] /\ dest(dummylist[d])' = dest(dummylist[d])
        BY <2>2, <3>1 DEF ControlInv, StepInv
      <4>1. \A x : Walking(dummylist[d], x)' <=> Walking(dummylist[d], x)
        BY <2>2, <3>2, <4>0 DEF Walking, getTerminator
      <4> QED
        BY <2>2, <3>3, <4>0, <4>1 DEF WalkInv
    <3> QED
      BY <2>1, <2>2, <2>3, <2>6, <3>6, <3>7, <3>8 DEF ControlInv, StepInv
  <2> QED
    BY <2>5, <2>6
<1>2. CASE Data /\ UNCHANGED control
  BY <1>2, DataControl
<1>3. CASE (\E b \in Block : VisitRoot(b) \/ VisitSucc(b)) \/ VisitReturn
  BY <1>3, VisitControl
<1>4. CASE Peel
  BY <1>4, PeelControl
<1>5. ASSUME NEW s \in todo, NextSucc(s) PROVE ControlInv'
  BY <1>5, NextSuccControl
<1>6. CASE AddControl
  BY <1>6, AddControlControl
<1>7. CASE Climb
  BY <1>7, ClimbControl
<1>8. CASE WalkEnds
  BY <1>8, WalkEndsControl
<1>9. CASE NextDummy
  BY <1>9, NextDummyControl
<1>10. CASE Ended
  BY <1>1, <1>10 DEF Ended
<1> QED
  BY <1>1, <1>2, <1>3, <1>4, <1>5, <1>6, <1>7, <1>8, <1>9, <1>10 DEF CNext

LEMMA ControlAlways == CSpec => []ControlInv
<1> QED
  BY InitControl, ControlSteps, PTL DEF CSpec

\* The stack, the order of the blocks and the walks keep to the loop, and the graph to its
\* instructions, in both halves of buildPDG (DSWP_1.cpp:18-497).
THEOREM ControlTypeCorrect == CSpec => []CTypeOK
<1>1. ControlInv => CTypeOK
  <2> SUFFICES ASSUME ControlInv PROVE CTypeOK
    OBVIOUS
  <2>1. TypeOK /\ step \in {"order", "walk", "done"}
    BY DEF ControlInv, DataInv, StepInv
  <2>2. ord \in Seq(Block) /\ stack \in Seq(Call)
    BY DEF ControlInv, DfsInv
  <2>3. vis \subseteq Block
    <3>1. Range(ord) \subseteq Block
      BY <2>2 DEF Range
    <3>2. ASSUME NEW j \in 1..Len(stack) PROVE Frame(j) \in Block
      <4>1. stack[j] \in Call
        BY <2>2
      <4> QED
        BY <4>1 DEF Frame, Call
    <3> QED
      BY <3>1, <3>2 DEF ControlInv, DfsInv
  <2>4. d \in 1..2 * NumBlock /\ bi \in Nat \ {0} /\ todo \subseteq Half
        /\ succnode \in Half \cup {None} /\ dn \in Half \cup {None}
    <3>1. CASE step = "order"
      BY <3>1, LoopAssumption DEF ControlInv, StepInv, OrderInv
    <3>2. CASE step = "done"
      BY <3>2 DEF ControlInv, StepInv, PeeledInv, DoneInv
    <3>3. CASE step = "walk"
      <4>1. PeeledInv /\ WalkInv /\ dest(dummylist[d]) \subseteq Half
        BY <3>3, WalkFacts
      <4>2. succnode # None => succnode \in Half /\ dn \in Half
        BY <3>3, <4>1, WalkEndsAt DEF WalkInv
      <4> QED
        BY <4>1, <4>2 DEF PeeledInv, WalkInv
    <3> QED
      BY <2>1, <3>1, <3>2, <3>3
  <2> QED
    BY <2>1, <2>2, <2>3, <2>4 DEF CTypeOK, Call
<1> QED
  BY <1>1, ControlAlways, PTL

\* The three tables of the graph tell of the same edges, each once, after the control
\* edges as before (DSWP_0.cpp:180-190, DSWP_1.cpp:476-487).
THEOREM TablesAlwaysAgree == CSpec => []TablesAgree
<1>1. ControlInv => TablesAgree
  BY DEF ControlInv, TableInv
<1> QED
  BY <1>1, ControlAlways, PTL

\* When all walks have ended the control edges are those of the branches and blocks of
\* which one walk says so, and no others.
LEMMA WalksExact ==
  ASSUME ControlInv, step = "done"
  PROVE  Controls = ControlEdges({e \in Block \X Block : Walked(e[1], e[2])})
<1> DEFINE Dep == {e \in Block \X Block : Walked(e[1], e[2])}
<1>1. PeeledInv /\ DoneInv /\ Placed
  BY PeeledPlaced DEF ControlInv, StepInv
<1>2. ASSUME NEW c \in Controls PROVE c \in ControlEdges(Dep)
  <2>1. PICK D \in Block \X {1, 2} : \E x \in dest(D) : \E y \in pdt[x] \ pdt[D] : c \in Marks(D, y)
    BY <1>1 DEF PeeledInv, Sound
  <2>2. PICK x \in dest(D) : \E y \in pdt[x] \ pdt[D] : c \in Marks(D, y)
    BY <2>1
  <2>3. PICK y \in pdt[x] \ pdt[D] : c \in Marks(D, y)
    BY <2>2
  <2>4. PICK X \in Block, h \in {1, 2} : D = <<X, h>>
    OBVIOUS
  <2>5. PICK s \in cfg[X] : x = Copy(<<X, h>>, s)
    <3>1. dest(<<X, h>>) = {Copy(<<X, h>>, s) : s \in cfg[X]}
      BY <1>1, Copies
    <3> QED
      BY <2>2, <2>4, <3>1
  <2>6. x \in Half /\ D \in Half
    BY <1>1, <2>5, Copies DEF Half
  <2>7. y \in Half /\ y # dummyexitblock
    BY <1>1, <2>3, <2>6, TreeFacts DEF PeeledInv
  <2>8. PICK Y \in Block, g \in {1, 2} : y = <<Y, g>>
    BY <2>7 DEF Half
  <2>9. x \notin Peeled(y) /\ D \in Peeled(y)
    BY <1>1, <2>3, <2>6, <2>7, PeeledPd DEF PeeledInv
  <2>10. Walked(X, Y)
    BY <2>4, <2>5, <2>8, <2>9 DEF Walked
  <2>11. PICK m \in DOMAIN prog.insts[Y] : c = Edge(getTerminator(X), <<Y, m>>, "CONTROL")
    BY <2>3, <2>4, <2>8 DEF Marks
  <2>12. <<X, Y>> \in Dep
    BY <2>10
  <2> HIDE DEF Dep
  <2> QED
    BY <2>11, <2>12 DEF ControlEdges
<1>3. ASSUME NEW X \in Block, NEW Y \in Block, Walked(X, Y), NEW m \in DOMAIN prog.insts[Y]
      PROVE  Edge(getTerminator(X), <<Y, m>>, "CONTROL") \in Controls
  <2>1. PICK h, g \in {1, 2} : \E s \in cfg[X] : Copy(<<X, h>>, s) \notin Peeled(<<Y, g>>) /\ <<X, h>> \in Peeled(<<Y, g>>)
    BY <1>3 DEF Walked
  <2>2. PICK s \in cfg[X] : Copy(<<X, h>>, s) \notin Peeled(<<Y, g>>) /\ <<X, h>> \in Peeled(<<Y, g>>)
    BY <2>1
  <2> DEFINE x == Copy(<<X, h>>, s)
             D == <<X, h>>
  <2>3. x \in Half /\ x \in dest(D) /\ D \in Half /\ D \in Block \X {1, 2} /\ <<Y, g>> \in Half
    BY <1>1, Copies DEF Half
  <2>4. PICK j \in 1..2 * NumBlock : dummylist[j] = D
    BY <1>1, <2>3, DummiesListed
  <2> HIDE DEF x, D
  <2>5. EdgeDone(D, x)
    <3>1. j = d \/ j \in 1..d - 1
      BY <1>1, LoopAssumption DEF DoneInv
    <3> QED
      BY <1>1, <2>3, <2>4, <3>1 DEF PeeledInv, DoneInv
  <2>6. <<Y, g>> \in pdt[x] /\ <<Y, g>> \notin pdt[D]
    BY <1>1, <2>2, <2>3, PeeledPd DEF PeeledInv, x, D
  <2>7. Marked(D, <<Y, g>>)
    BY <2>5, <2>6 DEF EdgeDone
  <2>8. Edge(getTerminator(X), <<Y, m>>, "CONTROL") \in Range(allEdges)
    BY <1>3, <2>7 DEF Marked, Marks, D
  <2> QED
    BY <2>8 DEF Controls, Edge
<1>4. ControlEdges(Dep) \subseteq Controls
  <2> SUFFICES ASSUME NEW c \in ControlEdges(Dep) PROVE c \in Controls
    OBVIOUS
  <2>1. PICK e \in Dep : \E m \in DOMAIN prog.insts[e[2]] : c = Edge(getTerminator(e[1]), <<e[2], m>>, "CONTROL")
    BY DEF ControlEdges
  <2>2. e[1] \in Block /\ e[2] \in Block /\ Walked(e[1], e[2])
    OBVIOUS
  <2> QED
    BY <1>3, <2>1, <2>2
<1> QED
  BY <1>2, <1>4

\* Every control dependence of the loop is found, those of a branch on itself among them:
\* loopSplit takes it for granted (DSWP_1.cpp:303-490, DSWP_4.cpp:207-224).
THEOREM LoopAlwaysCovered == CSpec => []CoversLoop
<1>1. ControlInv => CoversLoop
  <2> SUFFICES ASSUME ControlInv, step = "done", NEW P, P = Postdominators(EdgesOf(cfg), exit)
               PROVE  ControlEdges({e \in Block \X Block : Decides(EdgesOf(cfg), P, e[1], e[2])}) \subseteq Controls
    BY DEF CoversLoop
  <2>1. Placed
    BY PeeledPlaced DEF ControlInv, StepInv
  <2>2. \A e \in Block \X Block : Decides(EdgesOf(cfg), P, e[1], e[2]) => Walked(e[1], e[2])
    BY <2>1, LoopDecided
  <2> DEFINE A == {e \in Block \X Block : Decides(EdgesOf(cfg), P, e[1], e[2])}
             B == {e \in Block \X Block : Walked(e[1], e[2])}
  <2>3. A \subseteq B
    BY <2>2
  <2>4. Controls = ControlEdges(B)
    BY WalksExact
  <2> HIDE DEF A, B
  <2>5. ControlEdges(A) \subseteq ControlEdges(B)
    BY <2>3 DEF ControlEdges
  <2> QED
    BY <2>4, <2>5 DEF A
<1> QED
  BY <1>1, ControlAlways, PTL
-----------------------------------------------------------------------------
(* The order of the blocks *)

Dom == Dominators(EdgesOf(cfg), header)

\* The blocks to which a way leads from the header that passes by y.
Around(y) == Reaching(Transposed(EdgesOf(cfg)), header, y)

LEMMA DomIs ==
  ASSUME prog \in Programs, NEW b \in Block
  PROVE  b \in Dom[b] /\ \A y \in Block : y \in Dom[b] <=> b \notin Around(y)
<1> DEFINE T == Transposed(EdgesOf(cfg))
           V == NodesOf(T, header)
<1>1. IsFiniteSet(T)
  BY CfgFacts, TransposedFinite
<1>2. ASSUME NEW c \in Block PROVE c \in V
  <2>1. PICK s \in cfg[c] : TRUE
    BY CfgFacts DEF IsLoop
  <2>2. <<c, s>> \in EdgesOf(cfg)
    BY CfgFacts
  <2>3. <<s, c>> \in T
    BY <2>2 DEF Transposed
  <2>4. \E f \in T : f[2] = c
    BY <2>3
  <2> HIDE DEF T
  <2> QED
    BY <2>4 DEF NodesOf
<1>3. Dom = Postdominators(T, header)
  BY DEF Dom, Dominators
<1> HIDE DEF T
<1>4. b \in Dom[b] /\ Dom[b] = {y \in V : b \notin Reaching(T, header, y)}
  BY <1>1, <1>2, <1>3, PdSelf, PdDef
<1> HIDE DEF V
<1> QED
  BY <1>2, <1>4 DEF Around, T

LEMMA AroundStep ==
  ASSUME prog \in Programs, NEW y
  PROVE  /\ header # y => header \in Around(y)
         /\ \A b \in Block : \A s \in cfg[b] : b \in Around(y) /\ s # y => s \in Around(y)
<1> DEFINE T == Transposed(EdgesOf(cfg))
<1>1. IsFiniteSet(T)
  BY CfgFacts, TransposedFinite
<1>2. ASSUME NEW b \in Block, NEW s \in cfg[b], b \in Around(y), s # y PROVE s \in Around(y)
  <2> DEFINE f == <<s, b>>
  <2>1. <<b, s>> \in EdgesOf(cfg)
    BY CfgFacts
  <2>2. f \in T /\ f[1] = s /\ f[2] = b
    BY <2>1 DEF Transposed
  <2> HIDE DEF T, f
  <2> QED
    BY <1>1, <1>2, <2>2, ReachStep DEF Around, T
<1> HIDE DEF T
<1> QED
  BY <1>1, <1>2, ReachStart DEF Around, T

\* What dominates a block on the stack is on the stack before it.
LEMMA DomOnStack ==
  ASSUME prog \in Programs, DfsInv, SearchInv, NEW j \in 1..Len(stack), NEW y \in Block, y \in Dom[Frame(j)]
  PROVE  \E i \in 1..j : Frame(i) = y
<1> DEFINE L == Len(stack)
           S == {m \in Nat : m + 1 \in 1..L /\ (\A i \in 1..m + 1 : Frame(i) # y) => Frame(m + 1) \in Around(y)}
<1>0. L \in Nat /\ L >= 1 /\ stack # <<>>
  BY DEF DfsInv
<1>1. \A m \in 1..L : Frame(m) \in Block
  <2> SUFFICES ASSUME NEW m \in 1..L PROVE Frame(m) \in Block
    OBVIOUS
  <2>1. stack[m] \in Call
    BY DEF DfsInv
  <2> QED
    BY <2>1 DEF Frame, Call
<1> HIDE DEF L
<1>2. 0 \in S
  <2> SUFFICES ASSUME \A i \in 1..0 + 1 : Frame(i) # y PROVE Frame(0 + 1) \in Around(y)
    OBVIOUS
  <2>1. Frame(1) = header /\ 1 \in 1..0 + 1 /\ 0 + 1 = 1
    BY <1>0 DEF SearchInv
  <2> QED
    BY <2>1, AroundStep
<1>3. ASSUME NEW m \in Nat, m \in S PROVE m + 1 \in S
  <2> SUFFICES ASSUME (m + 1) + 1 \in 1..L, \A i \in 1..(m + 1) + 1 : Frame(i) # y
               PROVE  Frame((m + 1) + 1) \in Around(y)
    OBVIOUS
  <2>1. m + 1 \in 1..L /\ m + 1 \in 1..L - 1 /\ (m + 1) + 1 \in 1..(m + 1) + 1 /\ \A i \in 1..m + 1 : i \in 1..(m + 1) + 1
    BY <1>0
  <2>2. Frame(m + 1) \in Around(y)
    BY <1>3, <2>1
  <2>3. Frame((m + 1) + 1) \in InLoop(Frame(m + 1)) /\ Frame((m + 1) + 1) # y
    BY <2>1 DEF SearchInv, L
  <2> QED
    BY <1>1, <2>1, <2>2, <2>3, AroundStep DEF InLoop
<1>4. Nat \subseteq S
  <2> HIDE DEF S
  <2> QED
    BY <1>2, <1>3, SetInduction
<1>5. j - 1 \in Nat /\ (j - 1) + 1 = j /\ j \in 1..L
  BY DEF L
<1>6. (\A i \in 1..j : Frame(i) # y) => Frame(j) \in Around(y)
  BY <1>4, <1>5
<1>7. Frame(j) \notin Around(y)
  BY <1>1, <1>5, DomIs
<1> QED
  BY <1>6, <1>7

\* The edges that do not lead back to a dominator.
Forward == {e \in EdgesOf(cfg) : e[2] \notin Dom[e[1]]}

\* The calls on the stack lead forward to the last of them.
LEMMA StackForward ==
  ASSUME prog \in Programs, DfsInv, SearchInv, NEW j \in 1..Len(stack)
  PROVE  Frame(j) \in Reaching(Forward, Frame(Len(stack)), exit)
<1> DEFINE L == Len(stack)
           R == Reaching(Forward, Frame(L), exit)
           S == {m \in Nat : L - m \in 1..L => Frame(L - m) \in R}
<1>0. L \in Nat /\ L >= 1 /\ exit \notin Block
  BY CfgFacts DEF DfsInv
<1>1. \A m \in 1..L : Frame(m) \in Block
  <2> SUFFICES ASSUME NEW m \in 1..L PROVE Frame(m) \in Block
    OBVIOUS
  <2>1. stack[m] \in Call
    BY DEF DfsInv
  <2> QED
    BY <2>1 DEF Frame, Call
<1>2. IsFiniteSet(Forward)
  BY CfgFacts, FS_Subset DEF Forward
<1>3. 0 \in S
  <2>1. L - 0 = L /\ L \in 1..L
    BY <1>0
  <2>2. Frame(L) # exit
    BY <1>0, <1>1, <2>1
  <2>3. Frame(L) \in R
    BY <1>2, <2>2, ReachStart
  <2> HIDE DEF R, L
  <2> QED
    BY <2>1, <2>3
<1>4. ASSUME NEW m \in Nat, m \in S PROVE m + 1 \in S
  <2> SUFFICES ASSUME L - (m + 1) \in 1..L PROVE Frame(L - (m + 1)) \in R
    OBVIOUS
  <2> DEFINE i == L - (m + 1)
  <2>1. i \in 1..L /\ i \in 1..L - 1 /\ i + 1 = L - m /\ i + 1 \in 1..L
    BY <1>0
  <2>2. Frame(i + 1) \in R
    BY <1>4, <2>1
  <2> HIDE DEF i
  <2>3. Frame(i + 1) \in InLoop(Frame(i))
    BY <2>1 DEF SearchInv
  <2>4. Frame(i + 1) \notin Dom[Frame(i)]
    <3> SUFFICES ASSUME Frame(i + 1) \in Dom[Frame(i)] PROVE FALSE
      OBVIOUS
    <3>1. PICK l \in 1..i : Frame(l) = Frame(i + 1)
      BY <1>1, <2>1, DomOnStack
    <3>2. l \in 1..L /\ l # i + 1
      BY <1>0, <2>1
    <3> QED
      BY <2>1, <3>1, <3>2 DEF DfsInv
  <2> DEFINE f == <<Frame(i), Frame(i + 1)>>
  <2>5. f \in Forward /\ f[1] = Frame(i) /\ f[2] = Frame(i + 1) /\ Frame(i) # exit
    <3>1. Frame(i) \in Block /\ Frame(i + 1) \in cfg[Frame(i)]
      BY <1>1, <2>1, <2>3 DEF InLoop
    <3>2. f \in EdgesOf(cfg)
      BY <3>1, CfgFacts
    <3> QED
      BY <1>0, <2>4, <3>1, <3>2 DEF Forward
  <2> HIDE DEF f, R
  <2>6. Frame(i) \in R
    BY <1>2, <2>2, <2>5, ReachStep DEF R
  <2> QED
    BY <2>6 DEF i
<1>5. Nat \subseteq S
  <2> HIDE DEF S
  <2> QED
    BY <1>3, <1>4, SetInduction
<1>6. L - j \in Nat /\ L - (L - j) = j /\ j \in 1..L
  BY <1>0
<1> HIDE DEF R
<1>7. Frame(L - (L - j)) \in R
  <2> HIDE DEF L
  <2> QED
    BY <1>5, <1>6
<1> QED
  BY <1>6, <1>7 DEF R

\* A block comes before what dominates it in ord, and, if the loop is reducible, after
\* what it leads to otherwise.
TopoInv ==
  /\ \A m \in 1..Len(ord) : \A l \in 1..m - 1 : ord[l] \notin Dom[ord[m]]
  /\ Reducible(cfg) => \A m \in 1..Len(ord) : \A s \in InLoop(ord[m]) \ Dom[ord[m]] : \E l \in 1..m - 1 : ord[l] = s

LEMMA ReturnTopo ==
  ASSUME prog \in Programs, DfsInv, SearchInv, TopoInv, VisitReturn
  PROVE  TopoInv'
<1> DEFINE L == Len(stack)
           b == Frame(L)
           N == Len(ord)
<1>1. /\ prog' = prog /\ L \in Nat /\ L >= 1 /\ L \in 1..L /\ stack[L].todo = {} /\ b \in Block
      /\ Len(ord') = N + 1 /\ N \in Nat
      /\ ord'[N + 1] = b /\ \A m \in 1..N : ord'[m] = ord[m]
  BY VisitReturnDoes
<1>2. /\ ord \in Seq(Block) /\ \A m \in 1..N : ord[m] \in Block /\ ord[m] \in Range(ord)
  BY DEF DfsInv, Range
<1>3. cfg' = cfg /\ Dom' = Dom /\ \A c : InLoop(c)' = InLoop(c)
  BY <1>1 DEF cfg, Dom, InLoop
<1> HIDE DEF L, b, N
<1>4. ASSUME NEW l \in 1..N PROVE ord[l] \notin Dom[b]
  <2>1. \A i \in 1..L : Frame(i) # ord[l]
    BY <1>2 DEF DfsInv, L
  <2> QED
    BY <1>1, <1>2, <2>1, DomOnStack DEF L, b
<1>5. ASSUME Reducible(cfg), NEW s \in InLoop(b) \ Dom[b] PROVE \E l \in 1..N : ord[l] = s
  <2>1. s \in vis
    BY <1>1 DEF SearchInv, L, b
  <2>2. CASE s \in Range(ord)
    BY <1>2, <2>2 DEF Range, N
  <2>3. ASSUME NEW i \in 1..L, Frame(i) = s PROVE FALSE
    <3> DEFINE f == <<b, s>>
    <3>1. f \in Forward /\ f[1] = b /\ f[2] = s
      BY <1>1, <1>5, CfgFacts DEF Forward, InLoop
    <3>2. s \in Reaching(Forward, b, exit)
      BY <2>3, StackForward DEF L, b
    <3> HIDE DEF f
    <3>3. \A e \in Forward : e[2] \notin Reaching(Forward, e[1], exit)
      BY <1>5 DEF Reducible, Forward, Dom
    <3> QED
      BY <3>1, <3>2, <3>3
  <2> QED
    BY <2>1, <2>2, <2>3 DEF DfsInv, L
<1>6. ASSUME NEW m \in 1..N + 1
      PROVE  /\ \A l \in 1..m - 1 : ord'[l] \notin Dom[ord'[m]]
             /\ Reducible(cfg) => \A s \in InLoop(ord'[m]) \ Dom[ord'[m]] : \E l \in 1..m - 1 : ord'[l] = s
  <2>1. CASE m = N + 1
    <3>1. m - 1 = N /\ ord'[m] = b
      BY <1>1, <2>1
    <3> QED
      BY <1>1, <1>4, <1>5, <3>1
  <2>2. CASE m \in 1..N
    <3>1. ord'[m] = ord[m] /\ \A l \in 1..m - 1 : l \in 1..N /\ ord'[l] = ord[l]
      BY <1>1, <2>2
    <3>2. \A l \in 1..m - 1 : ord[l] \notin Dom[ord[m]]
      BY <2>2 DEF TopoInv, N
    <3>3. Reducible(cfg) => \A s \in InLoop(ord[m]) \ Dom[ord[m]] : \E l \in 1..m - 1 : ord[l] = s
      BY <2>2 DEF TopoInv, N
    <3> QED
      BY <3>1, <3>2, <3>3
  <2> QED
    BY <1>1, <2>1, <2>2
<1> QED
  BY <1>1, <1>3, <1>6 DEF TopoInv

LEMMA TopoSteps == ControlInv /\ TopoInv /\ [CNext]_<<vars, control>> => TopoInv'
<1> SUFFICES ASSUME ControlInv, TopoInv, [CNext]_<<vars, control>> PROVE TopoInv'
  OBVIOUS
<1>1. ASSUME ord' = ord, prog' = prog PROVE TopoInv'
  <2>1. cfg' = cfg /\ Dom' = Dom /\ \A b : InLoop(b)' = InLoop(b)
    BY <1>1 DEF cfg, Dom, InLoop
  <2> QED
    BY <1>1, <2>1 DEF TopoInv
<1>2. CASE VisitReturn
  BY <1>2, ReturnTopo DEF ControlInv, DataInv
<1>3. CASE UNCHANGED <<vars, control>>
  BY <1>1, <1>3 DEF vars, control, dfs
<1>4. CASE Data /\ UNCHANGED control
  <2>1. prog' = prog
    BY <1>4 DEF Data, AddUse, NoMemory, LocalDependence, AskNonLocal, AddNonLocal, EndNonLocal
  <2> QED
    BY <1>1, <1>4, <2>1 DEF control, dfs
<1>5. ASSUME NEW b, VisitRoot(b) \/ VisitSucc(b) PROVE TopoInv'
  BY <1>1, <1>5 DEF VisitRoot, VisitSucc, Visit, vars
<1>6. ASSUME Peel \/ (\E s \in todo : NextSucc(s)) \/ AddControl \/ Climb \/ WalkEnds \/ NextDummy \/ Ended PROVE TopoInv'
  BY <1>1, <1>6 DEF Peel, NextSucc, AddControl, Climb, WalkEnds, NextDummy, Ended, vars, control, dfs
<1> QED
  BY <1>2, <1>3, <1>4, <1>5, <1>6 DEF CNext

LEMMA TopoAlways == CSpec => []TopoInv
<1>1. CInit => TopoInv
  <2> SUFFICES ASSUME CInit PROVE TopoInv
    OBVIOUS
  <2>1. \A m \in 1..Len(ord) : FALSE
    BY DEF CInit
  <2> QED
    BY <2>1 DEF TopoInv
<1> QED
  BY <1>1, TopoSteps, ControlAlways, PTL DEF CSpec

LEMMA Topological ==
  ASSUME Placed, TopoInv, Reducible(cfg), NEW b \in Block, NEW s \in InLoop(b)
  PROVE  LeadsForward(b, s) <=> s \notin Dom[b]
<1>1. s \in Block /\ prog \in Programs
  BY BlockFacts DEF InLoop, Placed
<1>2. /\ Len(ord) = NumBlock /\ NumBlock \in Nat
      /\ \A c \in Block : instnum(c) \in 1..NumBlock /\ ord[NumBlock + 1 - instnum(c)] = c
      /\ \A m \in 1..NumBlock : instnum(ord[m]) = NumBlock + 1 - m
  BY Places
<1> DEFINE m == NumBlock + 1 - instnum(b)
           l == NumBlock + 1 - instnum(s)
<1>3. /\ m \in 1..NumBlock /\ l \in 1..NumBlock /\ ord[m] = b /\ ord[l] = s
      /\ instnum(b) = NumBlock + 1 - m /\ instnum(s) = NumBlock + 1 - l
  BY <1>1, <1>2
<1> HIDE DEF m, l
<1>4. LeadsForward(b, s) <=> l < m
  BY <1>2, <1>3 DEF LeadsForward
<1>5. ASSUME l < m PROVE s \notin Dom[b]
  <2>1. l \in 1..m - 1
    BY <1>3, <1>5
  <2> QED
    BY <1>2, <1>3, <2>1 DEF TopoInv
<1>6. ASSUME s \notin Dom[b] PROVE l < m
  <2>1. PICK i \in 1..m - 1 : ord[i] = s
    BY <1>2, <1>3, <1>6 DEF TopoInv
  <2>2. i \in 1..NumBlock
    BY <1>2, <1>3, <2>1
  <2>3. i = l
    BY <1>2, <1>3, <2>1, <2>2
  <2> QED
    BY <1>3, <2>1, <2>3
<1> QED
  BY <1>4, <1>5, <1>6

\* dfsVisit leaves a block after all it leads to but dominators of it, and these after
\* it: what buildPDG takes for the next iteration is what comes in the next iteration
\* (DSWP_1.cpp:6-15, 264-269, 285-300).
THEOREM OrderAlwaysTopological == CSpec => []OrderIsTopological
<1>1. ControlInv /\ TopoInv => OrderIsTopological
  <2> SUFFICES ASSUME ControlInv, TopoInv, step = "done", Reducible(cfg)
               PROVE  \A b \in Block : \A s \in InLoop(b) : LeadsForward(b, s) <=> s \notin Dom[b]
    BY DEF OrderIsTopological, Dom
  <2>1. Placed
    BY PeeledPlaced DEF ControlInv, StepInv
  <2> QED
    BY <2>1, Topological
<1> QED
  BY <1>1, ControlAlways, TopoAlways, PTL

\* The dummy function is the loop unrolled into its first and its later iterations.
LEMMA PeeledIsUnrolled ==
  ASSUME Placed, TopoInv, Reducible(cfg)
  PROVE  ctrlfunc = Unrolled(cfg)
<1> DEFINE Place(b, h) == <<b, IF b = exit THEN 2 ELSE h>>
           U1 == {<<Place(e[1], 1), Place(e[2], IF e[2] \in Dom[e[1]] THEN 2 ELSE 1)>> : e \in EdgesOf(cfg)}
           U2 == {<<Place(e[1], 2), Place(e[2], 2)>> : e \in EdgesOf(cfg)}
<1>1. Unrolled(cfg) = U1 \cup U2
  BY DEF Unrolled, Dom
<1>2. ASSUME NEW b \in Block, NEW s \in cfg[b]
      PROVE  /\ Place(b, 1) = <<b, 1>> /\ Place(b, 2) = <<b, 2>>
             /\ Place(s, 2) = Copy(<<b, 2>>, s)
             /\ Place(s, IF s \in Dom[b] THEN 2 ELSE 1) = Copy(<<b, 1>>, s)
  <2>1. b # exit
    BY BlockFacts
  <2>2. s # exit => (LeadsForward(b, s) <=> s \notin Dom[b])
    BY Topological DEF InLoop
  <2>3. /\ Copy(<<b, 2>>, s) = <<s, 2>>
        /\ Copy(<<b, 1>>, s) = <<s, IF s # exit /\ LeadsForward(b, s) THEN 1 ELSE 2>>
    BY CopyHalves
  <2> QED
    BY <2>1, <2>2, <2>3
<1>3. \A e \in EdgesOf(cfg) : e[1] \in Block /\ e[2] \in cfg[e[1]]
  BY CfgFacts DEF Placed
<1>4. \A b \in Block : \A s \in cfg[b] : <<b, s>> \in EdgesOf(cfg)
  BY CfgFacts DEF Placed
<1>5. ASSUME NEW f \in ctrlfunc PROVE f \in U1 \cup U2
  <2>1. PICK b \in Block, h \in {1, 2} : f[1] = <<b, h>> /\ \E s \in cfg[b] : f[2] = Copy(<<b, h>>, s)
    BY PeeledEdge
  <2>2. PICK s \in cfg[b] : f[2] = Copy(<<b, h>>, s)
    BY <2>1
  <2>3. f = <<f[1], f[2]>>
    BY PeeledEdge
  <2> DEFINE e == <<b, s>>
  <2>4. e \in EdgesOf(cfg) /\ e[1] = b /\ e[2] = s
    BY <1>4
  <2> HIDE DEF e
  <2>5. /\ Place(b, 1) = <<b, 1>> /\ Place(b, 2) = <<b, 2>>
        /\ Place(s, 2) = Copy(<<b, 2>>, s)
        /\ Place(s, IF s \in Dom[b] THEN 2 ELSE 1) = Copy(<<b, 1>>, s)
    BY <1>2
  <2> HIDE DEF Place
  <2>6. CASE h = 1
    <3>1. f = <<Place(b, 1), Place(s, IF s \in Dom[b] THEN 2 ELSE 1)>>
      BY <2>1, <2>2, <2>3, <2>5, <2>6
    <3>2. f = <<Place(e[1], 1), Place(e[2], IF e[2] \in Dom[e[1]] THEN 2 ELSE 1)>>
      BY <3>1, <2>4
    <3> QED
      BY <2>4, <3>2
  <2>7. CASE h = 2
    <3>1. f = <<Place(b, 2), Place(s, 2)>>
      BY <2>1, <2>2, <2>3, <2>5, <2>7
    <3>2. f = <<Place(e[1], 2), Place(e[2], 2)>>
      BY <3>1, <2>4
    <3> QED
      BY <2>4, <3>2
  <2> QED
    BY <2>6, <2>7
<1>6. ASSUME NEW e \in EdgesOf(cfg)
      PROVE  /\ <<Place(e[1], 1), Place(e[2], IF e[2] \in Dom[e[1]] THEN 2 ELSE 1)>> \in ctrlfunc
             /\ <<Place(e[1], 2), Place(e[2], 2)>> \in ctrlfunc
  <2> DEFINE b == e[1]
             s == e[2]
  <2>1. b \in Block /\ s \in cfg[b] /\ 1 \in {1, 2} /\ 2 \in {1, 2}
    BY <1>3
  <2> HIDE DEF b, s
  <2>2. <<<<b, 1>>, Copy(<<b, 1>>, s)>> \in ctrlfunc /\ <<<<b, 2>>, Copy(<<b, 2>>, s)>> \in ctrlfunc
    BY <2>1, Copies
  <2>3. /\ Place(b, 1) = <<b, 1>> /\ Place(b, 2) = <<b, 2>>
        /\ Place(s, 2) = Copy(<<b, 2>>, s)
        /\ Place(s, IF s \in Dom[b] THEN 2 ELSE 1) = Copy(<<b, 1>>, s)
    BY <1>2, <2>1
  <2> HIDE DEF Place
  <2>4. /\ <<Place(b, 1), Place(s, IF s \in Dom[b] THEN 2 ELSE 1)>> \in ctrlfunc
        /\ <<Place(b, 2), Place(s, 2)>> \in ctrlfunc
    BY <2>2, <2>3
  <2> QED
    BY <2>4 DEF b, s
<1>7. U1 \cup U2 \subseteq ctrlfunc
  <2> HIDE DEF Place
  <2> QED
    BY <1>6
<1> HIDE DEF U1, U2
<1> QED
  BY <1>1, <1>5, <1>7

\* The control edges of a reducible loop are the control dependences of the loop unrolled
\* into its first and its later iterations: none is missed, none made up
\* (DSWP_1.cpp:232-497).
THEOREM ControlAlwaysExact == CSpec => []ControlExact
<1>1. ControlInv /\ TopoInv => ControlExact
  <2> SUFFICES ASSUME ControlInv, TopoInv, step = "done", Reducible(cfg)
               PROVE  Controls = ControlEdges(ControlDependences(cfg))
    BY DEF ControlExact
  <2>1. Placed
    BY PeeledPlaced DEF ControlInv, StepInv
  <2> DEFINE P == Postdominators(ctrlfunc, dummyexitblock)
             Dep == {e \in Block \X Block : Walked(e[1], e[2])}
  <2>2. ControlDependences(cfg) = DependencesIn(ctrlfunc, P)
    <3>1. ctrlfunc = Unrolled(cfg)
      BY <2>1, PeeledIsUnrolled
    <3>2. \A U : UNION {DependencesIn(U, Q) : Q \in {Postdominators(U, <<exit, 2>>)}}
                  = DependencesIn(U, Postdominators(U, <<exit, 2>>))
      OBVIOUS
    <3>3. ControlDependences(cfg) = DependencesIn(Unrolled(cfg), Postdominators(Unrolled(cfg), <<exit, 2>>))
      BY <3>2 DEF ControlDependences
    <3> QED
      BY <3>1, <3>3 DEF dummyexitblock
  <2>3. \A X, Y \in Block : (\E h, g \in {1, 2} : Decides(ctrlfunc, P, <<X, h>>, <<Y, g>>)) <=> Walked(X, Y)
    BY <2>1, PeeledDecided
  <2> HIDE DEF P
  <2>4. DependencesIn(ctrlfunc, P) = Dep
    BY <2>3 DEF DependencesIn
  <2>5. Controls = ControlEdges(Dep)
    BY WalksExact
  <2> QED
    BY <2>2, <2>4, <2>5
<1> QED
  BY <1>1, ControlAlways, TopoAlways, PTL
=============================================================================
