--------------------------- MODULE DataDependence ---------------------------
(***************************************************************************)
(* The register and memory dependences of a loop: the first half of        *)
(* DSWP::buildPDG (DSWP_1.cpp:18-227) and DSWP::addEdge (DSWP_0.cpp:180).  *)
(* The instructions are visited block by block.  Registers follow LLVM's   *)
(* use lists.  For an access to memory MemoryDependenceAnalysis is asked,  *)
(* which knows only the nearest access it can conflict with: in the block, *)
(* or else on every way back, around the loop too.  LLVM is external; what *)
(* it answers is defined by the places an access may touch.                *)
(***************************************************************************)
EXTENDS LoopCFG, SequencesExt

CONSTANTS
  Location,   \* places in memory
  Programs    \* the programs to look at

predecessor == -1   \* the block that enters the loop
outside == <<predecessor, 0>>   \* an instruction elsewhere in the function

parent(inst) == inst[1]
InstrsOf(p, Blocks) == UNION {{b} \X DOMAIN p.insts[b] : b \in Blocks}

\* "invoke" is a call that is no CallInst; "other" does not touch memory.  A pointer
\* that may lead to several places is an access to all of them.
Kind == {"load", "store", "call", "invoke", "other"}

\* A program: its control flow, the instructions of each block and of the predecessor,
\* and the use list of each instruction of the loop.
IsProgram(p) ==
  /\ p.cfg \in [Block -> SUBSET (Block \cup {exit})] /\ IsLoop(p.cfg)
  /\ DOMAIN p.insts = Block \cup {predecessor}
  /\ \A b \in DOMAIN p.insts : p.insts[b] \in Seq([kind : Kind, loc : SUBSET Location])
  /\ \A inst \in InstrsOf(p, DOMAIN p.insts) :
       (p.insts[parent(inst)][inst[2]].kind = "other") <=> (p.insts[parent(inst)][inst[2]].loc = {})
  /\ p.insts[header] # <<>>
  /\ DOMAIN p.users = InstrsOf(p, Block)
  /\ \A inst \in DOMAIN p.users : p.users[inst] \in Seq(InstrsOf(p, Block) \cup {outside})

ASSUME DataAssumption == IsFiniteSet(Location) /\ \A p \in Programs : IsProgram(p)

VARIABLES
  prog,       \* the program at hand
  phase,      \* "uses", "nonlocal", "done", or "error"
  k,          \* the instruction the loop over the blocks is at
  n,          \* the use of it
  res,        \* the non-local dependences still to be added
  pdg, rev,   \* instruction -> its edges, forwards and backwards
  allEdges    \* "edge table, all the dependency relationship"

graph == <<pdg, rev, allEdges>>
vars == <<prog, phase, k, n, res, graph>>

Instr == InstrsOf(prog, Block)
Order == FlattenSeq([b \in 1..NumBlock |-> [m \in DOMAIN prog.insts[b - 1] |-> <<b - 1, m>>]])
inst == Order[k]

kind(a) == prog.insts[parent(a)][a[2]].kind
loc(a) == prog.insts[parent(a)][a[2]].loc

Init ==
  /\ prog \in Programs
  /\ phase = "uses" /\ k = 1 /\ n = 1 /\ res = {}
  /\ pdg = [i \in Instr |-> <<>>] /\ rev = [i \in Instr |-> <<>>] /\ allEdges = <<>>
-----------------------------------------------------------------------------
(* addEdge *)

Edge(u, v, dtype) == [u |-> u, v |-> v, dtype |-> dtype]

\* A map without an entry reads as an empty vector.
At(map, x) == IF x \in DOMAIN map THEN map[x] ELSE <<>>
PushBack(map, x, edge) ==
  [y \in DOMAIN map \cup {x} |-> IF y = x THEN Append(At(map, x), edge) ELSE map[y]]

\* Mutant: no look whether the edge is there already.
addEdge_Always(u, v, dtype) ==
  /\ pdg' = PushBack(pdg, u, Edge(u, v, dtype))
  /\ allEdges' = Append(allEdges, Edge(u, v, dtype))
  /\ rev' = PushBack(rev, v, Edge(v, u, dtype))

addEdge(u, v, dtype) ==
  IF Edge(u, v, dtype) \in Range(At(pdg, u))
  THEN UNCHANGED graph
  ELSE /\ pdg' = PushBack(pdg, u, Edge(u, v, dtype))
       /\ allEdges' = Append(allEdges, Edge(u, v, dtype))
       /\ rev' = PushBack(rev, v, Edge(v, u, dtype))
-----------------------------------------------------------------------------
(* MemoryDependenceAnalysis *)

mayReadOrWriteMemory(a) == kind(a) # "other"

mustAlias(q, a) == loc(q) = loc(a) /\ Cardinality(loc(q)) = 1

\* Query q stops at access a.  A load goes past a load that need not be of the same
\* place.
Interferes(q, a) ==
  /\ loc(q) \cap loc(a) # {}
  /\ kind(q) = "load" /\ kind(a) = "load" => mustAlias(q, a)

\* The accesses q can stop at among the first m instructions of block b; the last one.
Stops(q, b, m) == {a \in {b} \X (1..m) : Interferes(q, a)}
Latest(S) == CHOOSE a \in S : \A x \in S : x[2] <= a[2]

LocalStops(q) == Stops(q, parent(q), q[2] - 1)
isNonLocal(q) == LocalStops(q) = {}

\* Def: the very place is read or written; else the dependence is a clobber.
isDef(q, a) == /\ {kind(q), kind(a)} \subseteq {"load", "store"}
               /\ mustAlias(q, a) \/ (kind(q) = "store" /\ kind(a) = "load")

\* On every way back from the block of q the first block with a stop, and that block
\* itself if the way leads round to it.
NonLocal(q) ==
  LET E == EdgesOf(prog.cfg) \cup {<<predecessor, header>>}
      All(b) == Stops(q, b, Len(prog.insts[b]))
      Through == {f \in E : All(f[1]) = {}}
  IN {Latest(All(f[1])) : f \in {g \in E \ Through : g[2] \in Reaching(Through, parent(q), exit)}}
-----------------------------------------------------------------------------
(* buildPDG *)

NextInst == /\ k' = k + 1 /\ n' = 1
            /\ phase' = IF k = Len(Order) THEN "done" ELSE "uses"

\* A use in the loop, one in the list at a time.
AddUse ==
  /\ phase = "uses" /\ n <= Len(prog.users[inst])
  /\ IF prog.users[inst][n] \in Instr
     THEN addEdge(inst, prog.users[inst][n], "REG")
     ELSE UNCHANGED graph
  /\ n' = n + 1
  /\ UNCHANGED <<prog, phase, k, res>>

UsesDone == phase = "uses" /\ n > Len(prog.users[inst])

NoMemory ==
  /\ UsesDone /\ ~mayReadOrWriteMemory(inst)
  /\ NextInst
  /\ UNCHANGED <<prog, res, graph>>

\* Mutant: write after read is no dependence.
DefType_NoAnti(q, a) ==
  CASE kind(q) = "load" /\ kind(a) = "store" -> "DTRUE"
    [] kind(q) = "store" /\ kind(a) = "store" -> "DOUT"
    [] OTHER -> "none"

\* "READ AFTER READ IS INSERT AFTER PDG BUILD": nothing does.
DefType(q, a) ==
  CASE kind(q) = "load" /\ kind(a) = "store" -> "DTRUE"
    [] kind(q) = "store" /\ kind(a) = "load" -> "DANTI"
    [] kind(q) = "store" /\ kind(a) = "store" -> "DOUT"
    [] OTHER -> "none"

LocalDependence ==
  /\ UsesDone /\ mayReadOrWriteMemory(inst) /\ ~isNonLocal(inst)
  /\ \E dep \in {Latest(LocalStops(inst))} :
       IF ~isDef(inst, dep) THEN addEdge(dep, inst, "DANTI")
       ELSE IF DefType(inst, dep) = "none" THEN UNCHANGED graph
       ELSE addEdge(dep, inst, DefType(inst, dep))
  /\ NextInst
  /\ UNCHANGED <<prog, res>>

AskNonLocal ==
  /\ UsesDone /\ mayReadOrWriteMemory(inst) /\ isNonLocal(inst)
  /\ IF kind(inst) = "invoke"
     THEN phase' = "error" /\ UNCHANGED res   \* "aaaah exploding"
     ELSE phase' = "nonlocal" /\ res' = NonLocal(inst)
  /\ UNCHANGED <<prog, k, n, graph>>

\* Mutant: dependences on what precedes the loop are added, too.
contains_All(dep) == TRUE

contains(dep) == dep \in Instr   \* L->contains(dep)

\* The answers come in any order.
AddNonLocal(dep) ==
  /\ phase = "nonlocal" /\ dep \in res
  /\ IF contains(dep) THEN addEdge(dep, inst, "DANTI") ELSE UNCHANGED graph
  /\ res' = res \ {dep}
  /\ UNCHANGED <<prog, phase, k, n>>

EndNonLocal ==
  /\ phase = "nonlocal" /\ res = {}
  /\ NextInst
  /\ UNCHANGED <<prog, res, graph>>

Data == \/ AddUse \/ NoMemory \/ LocalDependence \/ AskNonLocal
        \/ \E dep \in res : AddNonLocal(dep)
        \/ EndNonLocal

Next == Data \/ (phase \in {"done", "error"} /\ UNCHANGED vars)

Spec == Init /\ [][Next]_vars
-----------------------------------------------------------------------------
(* Properties *)

DType == {"REG", "DTRUE", "DANTI", "DOUT", "CONTROL"}
EdgeSet == [u : Instr, v : Instr, dtype : DType]

\* Type invariant of the graph under construction: edges join instructions of the loop
\* only, although LLVM answers with instructions of the whole function.
TypeOK ==
  /\ phase \in {"uses", "nonlocal", "done", "error"}
  /\ k \in Nat \ {0} /\ n \in Nat \ {0}
  /\ res \subseteq InstrsOf(prog, Block \cup {predecessor})
  /\ pdg \in [Instr -> Seq(EdgeSet)] /\ rev \in [Instr -> Seq(EdgeSet)]
  /\ allEdges \in Seq(EdgeSet)

\* The three tables tell of the same edges, each told once: findSCC reads pdg and rev,
\* insertSynchronization allEdges, and an edge told twice would be two channels
\* (DSWP_0.cpp:180-190).
TablesAgree ==
  /\ IsInjective(allEdges)
  /\ \A i \in DOMAIN pdg : IsInjective(pdg[i]) /\ \A edge \in Range(pdg[i]) : edge.u = i
  /\ \A i \in DOMAIN rev : IsInjective(rev[i]) /\ \A edge \in Range(rev[i]) : edge.u = i
  /\ Range(allEdges) = UNION {Range(pdg[i]) : i \in DOMAIN pdg}
  /\ Range(allEdges) = {Edge(edge.v, edge.u, edge.dtype)
                          : edge \in UNION {Range(rev[i]) : i \in DOMAIN rev}}

\* The accesses of the loop on a path, one after the other; and which of the earlier
\* ones the j-th has to wait for, by dependences with one another.
Trace(p) == FlattenSeq([m \in DOMAIN p |-> [l \in DOMAIN prog.insts[p[m]] |-> <<p[m], l, m>>]])
Of(event) == <<event[1], event[2]>>
Ordered(tr) ==
  LET To == [v \in Instr |-> {edge.u : edge \in {x \in Range(allEdges) : x.v = v}}]
      Before[j \in DOMAIN tr] ==
        LET D == {i \in 1..j - 1 : Of(tr[i]) \in To[Of(tr[j])]}
        IN D \cup UNION {Before[i] : i \in D}
  IN Before

\* The paths of at most m blocks from the header, whether they leave the loop or not.
PathsOf(m) ==
  LET From[l \in 0..m] ==
        [b \in Block \cup {exit} |->
           IF b = exit \/ l = 0 THEN {<<>>}
           ELSE UNION {{<<b>> \o p : p \in From[l - 1][s]} : s \in prog.cfg[b]}]
  IN From[m][header]

Conflict(a, b) == loc(a) \cap loc(b) # {} /\ {kind(a), kind(b)} # {"load"}

\* Between events i and j: the analysis goes past an access that may be to several
\* places, or the second of two loads in a row is not tied to the first.
Blurred(tr, i, j) ==
  LET Near == {m \in i..j : loc(tr[m]) \cap loc(tr[i]) \cap loc(tr[j]) # {}}
  IN \/ \E m \in Near : Cardinality(loc(tr[m])) > 1
     \/ \E l \in Near : \E m \in Near :
          /\ l < m /\ tr[l][3] = tr[m][3] /\ kind(tr[l]) = "load" /\ kind(tr[m]) = "load"

\* On trace tr two accesses that conflict are ordered, but where the analysis is blurred.
Chained(tr) ==
  \E Before \in {Ordered(tr)} :
    \A j \in DOMAIN tr : \A i \in 1..j - 1 :
      Conflict(tr[i], tr[j]) /\ ~Blurred(tr, i, j) => i \in Before[j]

\* Two accesses that conflict are ordered by dependences, on every path and round
\* the loop: the nearest one is asked for only, so that it takes a chain of them.  The
\* chain breaks only where pointers are not told apart or a place is read twice in
\* a row.
ConflictsOrdered ==
  phase = "done" => \A p \in PathsOf(2 * NumBlock) : \E tr \in {Trace(p)} : Chained(tr)

\* "edge table, all the dependency relationship" (DSWP.h:114).
AllOrdered ==
  phase = "done" =>
    \A p \in PathsOf(2 * NumBlock) : \E tr \in {Trace(p)} : \E Before \in {Ordered(tr)} :
      \A j \in DOMAIN tr : \A i \in 1..j - 1 : Conflict(tr[i], tr[j]) => i \in Before[j]
=============================================================================
