------------------------------ MODULE LoopSplit ------------------------------
(***************************************************************************)
(* The worker functions of a loop: DSWP::getLiveinfo (DSWP_4.cpp:505-565)  *)
(* lists what goes into the loop and what comes out of it,                 *)
(* DSWP::loopSplit (DSWP_4.cpp:194-484) copies the blocks that matter to a *)
(* thread, with the loads of live-ins and the stores of live-outs, and     *)
(* DSWP::insertSynchronization with DSWP::cleanup (DSWP_5.cpp:8-268) put a *)
(* produce and a consume into the copies for every dependence on an        *)
(* earlier thread.                                                         *)
(*                                                                         *)
(* A program is a loop after the passes before: its control flow, the      *)
(* instructions of its blocks, the dependence graph in the order of        *)
(* allEdges, the instructions used after the loop, and the thread each     *)
(* instruction is assigned to.  Instruction <<b, n>> is the n-th of block  *)
(* b; the last is the block's terminator.  <<predecessor, n>> is a value   *)
(* of outside the loop.  Types are left out.                               *)
(***************************************************************************)
EXTENDS LoopCFG, SequencesExt

CONSTANTS
  MAX_THREAD,   \* number of worker threads
  Programs      \* the programs to look at

predecessor == -1   \* the block that enters the loop
Thread == 0..MAX_THREAD - 1

parent(inst) == inst[1]
Instrs(p) == UNION {{b} \X (1..p.size[b]) : b \in Block}
isTerminator(p, inst) == inst[2] = p.size[parent(inst)]

\* Where a block can be entered from.
Entries(cfg) == EdgesOf(cfg) \cup {<<predecessor, header>>}

\* Phi nodes come first in their block and have a value for each way into it, which
\* they depend on.
PhisFit(p) ==
  \A phi \in DOMAIN p.phi :
    /\ phi \in Instrs(p) /\ ~isTerminator(p, phi)
    /\ {parent(phi)} \X (1..phi[2]) \subseteq DOMAIN p.phi
    /\ DOMAIN p.phi[phi] = {q \in Block \cup {predecessor} : <<q, parent(phi)>> \in Entries(p.cfg)}
    /\ \A u \in Range(p.phi[phi]) :
         \/ u \in {predecessor} \X Nat
         \/ \E f \in Range(p.allEdges) : f.u = u /\ f.v = phi /\ f.dtype = "REG"

\* The terminators are branches, which have no value; they and the phi nodes leave
\* memory alone; a value is computed before it is used, but for phi nodes.
EdgesFit(p) ==
  \A f \in Range(p.allEdges) :
    /\ f.dtype # "CONTROL" => ~isTerminator(p, f.u)
    /\ f.dtype = "MEM" => {f.u, f.v} \cap DOMAIN p.phi = {}
    /\ f.dtype = "REG" /\ parent(f.u) = parent(f.v) /\ f.v \notin DOMAIN p.phi => f.u[2] < f.v[2]

\* A program: size of the blocks, the incoming value of each phi node from each
\* predecessor, allEdges, and the instructions with a use after the loop; the exit has
\* no phi node, so that these are executed whichever way the loop is left.  A block
\* depends on the branches that decide about it, no instruction on a later thread,
\* and only the last threads are without work.
IsProgram(p) ==
  /\ p.cfg \in [Block -> SUBSET (Block \cup {exit})] /\ IsLoop(p.cfg)
  /\ p.size \in [Block -> Nat \ {0}]
  /\ PhisFit(p) /\ EdgesFit(p)
  /\ \A u \in p.usedAfter :
       /\ u \in Instrs(p) /\ ~isTerminator(p, u)
       /\ header \notin Reaching(EdgesOf(p.cfg), exit, parent(u)) \/ parent(u) = header
  /\ p.allEdges \in Seq([u : Instrs(p), v : Instrs(p), dtype : {"REG", "MEM", "CONTROL"}])
  /\ \E D \in {Postdominators(EdgesOf(p.cfg), exit)} : \A X, Y \in Block :
       Decides(EdgesOf(p.cfg), D, X, Y) => \A n \in 1..p.size[Y] :
         \E e \in Range(p.allEdges) :
           e.u = <<X, p.size[X]>> /\ e.v = <<Y, n>> /\ e.dtype = "CONTROL"
  /\ p.assigned \in [Instrs(p) -> Thread]
  /\ \A e \in Range(p.allEdges) : p.assigned[e.u] <= p.assigned[e.v]
  /\ \A v \in Instrs(p) : 0..p.assigned[v] \subseteq Range(p.assigned)

ASSUME SplitAssumption == MAX_THREAD \in Nat \ {0} /\ \A p \in Programs : IsProgram(p)

VARIABLES
  prog,      \* the program at hand
  phase,     \* "live", "relevant", "copy", "sync", "done", or a call of error():
             \* "no header", "nowhere"
  idom, postidom,     \* the dominator trees, as sets of dominators
  livein, liveout,    \* the values that go into the loop and come out of it
  i,         \* the thread whose function is being made
  relbb,     \* its relevant blocks
  todo,      \* those still to be copied
  code,      \* thread -> block -> what the copy of the block executes
  target,    \* thread -> terminator -> successor -> block of the new function,
             \* and phi node -> predecessor -> block of the new function
  instMap,   \* thread -> instructions with a clone
  placeEquivalents,   \* thread -> instruction -> the clone that stands for it
  stores,    \* thread -> the live-outs its new exit stores, by index
  operand,   \* thread -> clone and register of another thread -> the channel whose
             \* consume it reads
  k, vtr,    \* the edge and the thread insertSynchronization is at
  channels   \* the channels so far: edge and consuming thread

live == <<idom, postidom, livein, liveout>>
split == <<prog, phase, live, i, relbb, todo, code, target, instMap,
           placeEquivalents, stores, operand, k, vtr, channels>>

assigned == prog.assigned
allEdges == prog.allEdges
Instr == Instrs(prog)
Body(b) == [n \in 1..prog.size[b] |-> <<b, n>>]
Terminator(b) == <<b, prog.size[b]>>

\* The items of a sequence that are in S, in their order.
Keep(items, S) ==
  LET Kept[n \in 0..Len(items)] ==
        IF n = 0 THEN <<>>
        ELSE IF items[n] \in S THEN Append(Kept[n - 1], items[n]) ELSE Kept[n - 1]
  IN Kept[Len(items)]

\* Function f with the values of function g where that has any.
Over(g, f) == [x \in DOMAIN g \cup DOMAIN f |-> IF x \in DOMAIN g THEN g[x] ELSE f[x]]

\* The items of a copied block.
Clone(inst) == <<"clone", inst>>
Produce(c) == <<"produce", c>>
Consume(c) == <<"consume", c>>

Init ==
  /\ prog \in Programs
  /\ phase = "live"
  /\ livein = <<>> /\ liveout = <<>>
  /\ idom = Dominators(EdgesOf(prog.cfg) \cup {<<predecessor, header>>}, predecessor)
  /\ postidom = Postdominators(EdgesOf(prog.cfg), exit)
  /\ i = 0 /\ relbb = {} /\ todo = {}
  /\ code = [t \in Thread |-> <<>>]
  /\ target = [t \in Thread |-> <<>>]
  /\ instMap = [t \in Thread |-> {}]
  /\ placeEquivalents = [t \in Thread |-> <<>>]
  /\ stores = [t \in Thread |-> {}] /\ operand = [t \in Thread |-> <<>>]
  /\ k = 1 /\ vtr = 0 /\ channels = <<>>
-----------------------------------------------------------------------------
(* getLiveinfo *)

Instructions == FlattenSeq([n \in 1..NumBlock |-> Body(n - 1)])   \* block by block

\* What the loop computes and the code after it reads; what the loop reads and does
\* not compute, in any order.
GetLiveinfo ==
  /\ phase = "live"
  /\ phase' = "relevant"
  /\ livein' \in SetToSeqs((UNION {Range(prog.phi[p]) : p \in DOMAIN prog.phi}) \ Instr)
  /\ liveout' = Keep(Instructions, prog.usedAfter)
  /\ UNCHANGED <<prog, idom, postidom, i, relbb, todo, code, target, instMap,
                 placeEquivalents, stores, operand, k, vtr, channels>>
-----------------------------------------------------------------------------
(* loopSplit *)

\* The blocks of the thread's instructions and of what those depend on.
RelevantBlocks(t) ==
  LET own == {v \in Instr : assigned[v] = t}
      deps == {e.u : e \in {f \in Range(allEdges) : f.v \in own}}
  IN {parent(inst) : inst \in own \cup deps}

FindRelevant ==
  /\ phase = "relevant" /\ i < MAX_THREAD
  /\ relbb' = RelevantBlocks(i)
  /\ todo' = relbb'
  /\ phase' = CASE relbb' = {} -> "sync"   \* a do-nothing function, and return
                [] relbb' # {} /\ header \notin relbb' -> "no header"
                [] OTHER -> "copy"
  /\ UNCHANGED <<prog, live, i, code, target, instMap, placeEquivalents, stores, operand,
                 k, vtr, channels>>

\* Mutant: the farthest block instead of the nearest.
BBMap_Farthest(D, x) ==
  CHOOSE y \in D[x] \cap (relbb \cup {predecessor, exit}) :
    \A z \in D[x] \cap (relbb \cup {predecessor, exit}) : y \in D[z]

\* The nearest block up the tree of dominance relation D from x that has a copy.
\* The new entry and exit stand for the predecessor and the exit of the loop.
BBMap(D, x) ==
  CHOOSE y \in D[x] \cap (relbb \cup {predecessor, exit}) :
    \A z \in D[x] \cap (relbb \cup {predecessor, exit}) : z \in D[y]

\* Instructions of other threads are left out, terminators never are.
Copied(inst) == assigned[inst] = i \/ isTerminator(prog, inst)

\* Where an instruction left out would have gone: the next one that is copied.
NextClone(inst) ==
  CHOOSE c \in {u \in Range(Body(parent(inst))) : u[2] > inst[2] /\ Copied(u)} :
    \A u \in Range(Body(parent(inst))) : u[2] > inst[2] /\ Copied(u) => u[2] >= c[2]

\* One round of the loop over the relevant blocks.
CopyBlock(BB) ==
  LET cloned == Keep(Body(BB), {inst \in Range(Body(BB)) : Copied(inst)})
      T == Terminator(BB)
      phis == Range(cloned) \cap DOMAIN prog.phi
  IN
  /\ phase = "copy" /\ BB \in todo
  /\ todo' = todo \ {BB}
  /\ code' = [code EXCEPT ![i] = Over([b \in {BB} |-> [n \in 1..Len(cloned) |-> Clone(cloned[n])]], @)]
  /\ target' = [target EXCEPT ![i] =
       Over([x \in {T} \cup phis |->
               IF x = T THEN [s \in prog.cfg[BB] |-> BBMap(postidom, s)]
                        ELSE [q \in DOMAIN prog.phi[x] |-> BBMap(idom, q)]], @)]
  /\ instMap' = [instMap EXCEPT ![i] = @ \cup Range(cloned)]
  /\ placeEquivalents' = [placeEquivalents EXCEPT ![i] =
       Over([inst \in Range(Body(BB)) \ Range(cloned) |-> NextClone(inst)], @)]
  /\ UNCHANGED <<prog, phase, live, i, relbb, stores, operand, k, vtr, channels>>

\* Mutant: every worker but the first stores the live-outs.
Stored_NotFirst(u) == i > 0

\* "Store any liveout variables defined in this thread."
Stored(u) == assigned[u] = i

\* The rest of the round: loads of the live-ins in the new entry, stores of the
\* live-outs in the new exit.
NextThread ==
  /\ phase = "copy" /\ todo = {}
  /\ stores' = [stores EXCEPT ![i] = {j \in DOMAIN liveout : Stored(liveout[j])}]
  /\ i' = i + 1
  /\ phase' = IF i + 1 = MAX_THREAD THEN "sync" ELSE "relevant"
  /\ UNCHANGED <<prog, live, relbb, todo, code, target, instMap,
                 placeEquivalents, operand, k, vtr, channels>>
-----------------------------------------------------------------------------
(* insertSynchronization *)

e == allEdges[k]
utr == assigned[e.u]

\* Mutant: the thread right after the one of the source is left out.
Upwards_ButOne == vtr > utr + 1

\* Produces and consumes only go upwards in thread counts.
Upwards == vtr > utr

NeedsChannel == Upwards /\ e.u \in instMap[utr] /\ e.v \in instMap[vtr]

\* Mutant: the consume goes in front of the instruction that needs it.
insPos_AtUse == e.v

\* Where the consume goes: the place of u in the copy, or else its own clone.
insPos == IF e.u \in DOMAIN placeEquivalents[vtr] THEN placeEquivalents[vtr][e.u] ELSE e.u
HasPlace == e.u \in DOMAIN placeEquivalents[vtr] \/ e.u \in instMap[vtr]

IndexOf(items, inst) == CHOOSE n \in 1..Len(items) : items[n] = Clone(inst)

\* Mutant: insertProduce puts the call in front of u.
WithProduce_Before(items) == InsertAt(items, IndexOf(items, e.u), Produce(Len(channels) + 1))

\* insertProduce puts the call after u, behind a terminator if u is one.
WithProduce(items) == InsertAt(items, IndexOf(items, e.u) + 1, Produce(Len(channels) + 1))

\* Mutant: insertConsume puts the call after its place.
WithConsume_After(items) == InsertAt(items, IndexOf(items, insPos) + 1, Consume(Len(channels) + 1))

\* insertConsume puts the call in front of its place.
WithConsume(items) == InsertAt(items, IndexOf(items, insPos), Consume(Len(channels) + 1))

\* The registers v reads, of those the loop computes.
Registers(v) == {f.u : f \in {g \in Range(allEdges) : g.dtype = "REG" /\ g.v = v}}

isConditional(t, T) == Cardinality(Range(target[t][T])) > 1

\* The clones of thread t that need their operands: terminators only if they were
\* not made unconditional.
Executed(t) == {v \in instMap[t] : IF isTerminator(prog, v) THEN isConditional(t, v)
                                                            ELSE assigned[v] = t}

\* The clones of thread t that still read the u of the old loop.
Users(t, u) == {v \in Executed(t) : u \in Registers(v) \ instMap[t]
                                     /\ <<v, u>> \notin DOMAIN operand[t]}

\* insertConsume goes through the users of u and makes those of this function read the
\* consumed value; as a use that is replaced leaves the list it goes through, it stops
\* after the first.  In which order the list has them is left open.
Redirected(user) ==
  [operand EXCEPT ![vtr] = Over([x \in {<<user, e.u>>} |-> Len(channels) + 1], @)]

InsertChannel ==
  /\ phase = "sync" /\ k <= Len(allEdges) /\ vtr < MAX_THREAD
  /\ NeedsChannel /\ HasPlace
  /\ code' = [code EXCEPT ![utr][parent(e.u)] = WithProduce(@),
                          ![vtr][parent(insPos)] = WithConsume(@)]
  /\ channels' = Append(channels, [edge |-> e, to |-> vtr])
  /\ IF e.dtype = "REG" /\ Users(vtr, e.u) # {}
     THEN \E user \in Users(vtr, e.u) : operand' = Redirected(user)
     ELSE UNCHANGED operand
  /\ vtr' = vtr + 1
  /\ UNCHANGED <<prog, phase, live, i, relbb, todo, target, instMap,
                 placeEquivalents, stores, k>>

\* "can't insert nowhere"
CannotInsert ==
  /\ phase = "sync" /\ k <= Len(allEdges) /\ vtr < MAX_THREAD
  /\ NeedsChannel /\ ~HasPlace
  /\ phase' = "nowhere"
  /\ UNCHANGED <<prog, live, i, relbb, todo, code, target, instMap,
                 placeEquivalents, stores, operand, k, vtr, channels>>

SkipThread ==
  /\ phase = "sync" /\ k <= Len(allEdges)
  /\ vtr < MAX_THREAD => ~NeedsChannel
  /\ IF vtr < MAX_THREAD THEN vtr' = vtr + 1 /\ UNCHANGED k
                         ELSE vtr' = 0 /\ k' = k + 1
  /\ UNCHANGED <<prog, phase, live, i, relbb, todo, code, target,
                 instMap, placeEquivalents, stores, operand, channels>>
-----------------------------------------------------------------------------
(* cleanup *)

Phis == {Clone(p) : p \in DOMAIN prog.phi}

\* Mutant: what was inserted behind the terminator stays there.
TerminatorLast_Not(items, b) == items

\* What was inserted behind the terminator is moved in front of it, from the end.
TerminatorLast(items, b) ==
  LET n == IndexOf(items, Terminator(b))
  IN SubSeq(items, 1, n - 1) \o Reverse(SubSeq(items, n + 1, Len(items))) \o <<items[n]>>

PhisFirst(items) == Keep(items, Phis) \o Keep(items, Range(items) \ Phis)

Cleanup ==
  /\ phase = "sync" /\ k > Len(allEdges)
  /\ phase' = "done"
  /\ code' = [t \in Thread |-> [b \in DOMAIN code[t] |->
                PhisFirst(TerminatorLast(code[t][b], b))]]
  /\ UNCHANGED <<prog, live, i, relbb, todo, target, instMap,
                 placeEquivalents, stores, operand, k, vtr, channels>>

Split == \/ GetLiveinfo \/ FindRelevant
         \/ \E BB \in todo : CopyBlock(BB)
         \/ NextThread \/ InsertChannel \/ CannotInsert \/ SkipThread \/ Cleanup

Failed == phase \in {"no header", "nowhere"}   \* error() ends the compiler
Ended == (phase = "done" \/ Failed) /\ UNCHANGED split

Next == Split \/ Ended

Spec == Init /\ [][Next]_split
-----------------------------------------------------------------------------
(* Properties *)

Item == {Clone(inst) : inst \in Instr}
          \cup {"produce", "consume"} \X (1..Len(channels))
Copy == Block \cup {predecessor, exit}

\* Type invariant of loopSplit's state: a function holds copies of the loop's blocks
\* only, and these hold clones of its instructions and calls on existing channels.
TypeOK ==
  /\ prog.assigned \in [Instr -> Thread]
  /\ phase \in {"live", "relevant", "copy", "sync", "done", "no header", "nowhere"}
  /\ i \in 0..MAX_THREAD /\ relbb \subseteq Block /\ todo \subseteq relbb
  /\ \A t \in Thread :
       /\ DOMAIN code[t] \subseteq Block
       /\ \A b \in DOMAIN code[t] : Range(code[t][b]) \subseteq Item
       /\ \A p \in DOMAIN target[t] : p \in Instr /\ Range(target[t][p]) \subseteq Copy
       /\ instMap[t] \subseteq Instr
       /\ \A p \in DOMAIN placeEquivalents[t] : placeEquivalents[t][p] \in instMap[t]
       /\ stores[t] \subseteq DOMAIN liveout
       /\ \A o \in DOMAIN operand[t] : operand[t][o] \in DOMAIN channels
  /\ k \in 1..Len(allEdges) + 1 /\ vtr \in 0..MAX_THREAD
  /\ \A c \in DOMAIN channels : channels[c].edge \in Range(allEdges) /\ channels[c].to \in Thread

\* The copies a path through the loop from block x can come to first.
FirstMet(t, x) ==
  LET copies == DOMAIN code[t] \cup {exit}
      Skipped == {f \in EdgesOf(prog.cfg) : f[1] \notin copies}
  IN {y \in copies : x \in Reaching(Skipped, y, predecessor)}

\* A worker that is built goes through the copies in the order in which the loop
\* goes through the blocks: whichever way a branch went, every path from there
\* comes first to the block the retargeted branch leads to (DSWP_4.cpp:315-328).
FollowsPath ==
  phase = "done" =>
    \A t \in Thread : \A b \in DOMAIN code[t] : \A s \in prog.cfg[b] :
      FirstMet(t, s) = {target[t][Terminator(b)][s]}

\* Every operand of a clone is computed in the same worker or read from a channel, in
\* whichever order the channels redirect one user each (DSWP_5.cpp:142-160); an operand
\* that is neither becomes undef with the old loop (DSWP_5.cpp:276).  So a worker never
\* branches on a condition of a later thread either.
OperandsThere ==
  phase = "done" =>
    \A t \in Thread : \A v \in Executed(t) : \A u \in Registers(v) :
      u \in instMap[t] \/ <<v, u>> \in DOMAIN operand[t]

\* Every channel is produced once and consumed once per execution of the same
\* block, so that the two workers count alike (DSWP_5.cpp:34-36).
ChannelsBalanced ==
  phase = "done" =>
    \A c \in DOMAIN channels : \A t \in Thread : \A b \in DOMAIN code[t] :
      LET Times(item) == Cardinality({n \in DOMAIN code[t][b] : code[t][b][n] = item})
          here(thread) == IF t = thread /\ b = parent(channels[c].edge.u) THEN 1 ELSE 0
      IN /\ Times(Produce(c)) = here(assigned[channels[c].edge.u])
         /\ Times(Consume(c)) = here(channels[c].to)

\* The copies a path through the loop to block q can have come from last.
LastMet(t, q) ==
  LET copies == DOMAIN code[t] \cup {predecessor}
      Skipped == {f \in Entries(prog.cfg) : f[2] \notin copies}
  IN {c \in copies : q \in Reaching(Transposed(Skipped), c, exit)}

\* Whichever way led to q, the block it came from last gives phi node p the value of q.
Incoming(t, p, c) == {prog.phi[p][q] : q \in {o \in DOMAIN prog.phi[p] : target[t][p][o] = c}}
Repointed(t, p) ==
  \A q \in DOMAIN prog.phi[p] : \A c \in LastMet(t, q) : Incoming(t, p, c) = {prog.phi[p][q]}

\* "if we're branching from a block not in this thread, go to the previous dominator
\* of that block" (DSWP_4.cpp:358): the block that now branches here is that
\* dominator, so that every phi node has the value that comes from there.
PhisRepointed ==
  phase = "done" => \A t \in Thread : \A p \in DOMAIN prog.phi \cap instMap[t] : Repointed(t, p)
=============================================================================
