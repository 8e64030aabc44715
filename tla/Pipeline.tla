------------------------------ MODULE Pipeline ------------------------------
(***************************************************************************)
(* The workers LoopSplit makes, run against the loop they replace.         *)
(*                                                                         *)
(* The loop would take a certain path through its blocks.  Each worker is  *)
(* a thread of control that loads the live-ins, goes through its copies of *)
(* the blocks and stores its live-outs; the workers share the argument     *)
(* struct of the loop-replace block (DSWP::preLoopSplit) and the bounded   *)
(* queues of runtime/queue.c, a channel each.  A value is known by the     *)
(* execution of its instruction that computed it: 3 for the third.  A      *)
(* branch takes the way the loop took when it was executed as often; that  *)
(* it depends on the same values is what is checked.                       *)
(***************************************************************************)
EXTENDS LoopSplit

CONSTANTS
  QUEUE_MAXLEN,   \* capacity of a queue
  MaxPath         \* length of the longest path looked at, in blocks

ASSUME PipelineAssumption == QUEUE_MAXLEN \in Nat \ {0} /\ MaxPath \in Nat \ {0}

VARIABLES
  path,      \* the blocks the loop goes through
  at,        \* thread -> the block it is in; predecessor, exit: its new entry and exit
  returned,  \* the threads that have returned
  pc,        \* thread -> the next item of the block
  from,      \* thread -> the block it came from
  visits,    \* thread -> block -> how often it was entered
  held,      \* thread -> instruction or live-in -> which value is in the register
  received,  \* channel -> the value consumed last
  queue,     \* channel -> values on their way
  argstruct, \* the argument struct: the live-ins and the out struct
  loaded,    \* the live-outs as the loop-replace block loads them
  count,     \* instruction -> how often it was executed by its thread
  wrong      \* the instructions executed with operands that are not the loop's

control == <<at, returned, pc, from, visits>>
struct == <<argstruct, loaded>>
run == <<path, control, held, received, queue, struct, count, wrong>>
vars == <<split, run>>

PInit ==
  /\ Init
  /\ path = <<>>
  /\ at = [t \in Thread |-> predecessor]
  /\ pc = [t \in Thread |-> 1]
  /\ from = [t \in Thread |-> predecessor]
  /\ visits = [t \in Thread |-> [b \in Block |-> 0]]
  /\ returned = {}
  /\ held = [t \in Thread |-> <<>>]
  /\ received = <<>> /\ queue = <<>>
  /\ argstruct = [ins |-> <<>>, out |-> <<>>] /\ loaded = <<>>
  /\ count = [inst \in Instr |-> 0]
  /\ wrong = {}
-----------------------------------------------------------------------------
(* The loop *)

\* The paths of at most n blocks from each block to the exit.
Paths[n \in 0..MaxPath] ==
  [b \in Block \cup {exit} |->
     IF b = exit THEN {<<>>}
     ELSE IF n = 0 THEN {}
     ELSE UNION {{<<b>> \o p : p \in Paths[n - 1][s]} : s \in prog.cfg[b]}]

\* How often b is met up to the j-th block of the path, and where it is met for
\* the n-th time.
Met(b, j) == Cardinality({m \in 1..j : path[m] = b})
Place(b, n) == CHOOSE j \in DOMAIN path : path[j] = b /\ Met(b, j) = n

After(j) == IF j = Len(path) THEN exit ELSE path[j + 1]
Before(j) == IF j = 1 THEN predecessor ELSE path[j - 1]

\* What the loop has in register u after n blocks of the path.
Value(u, n) == IF parent(u) = predecessor THEN u[2] ELSE Met(parent(u), n)

\* The registers v reads in block j of the path, and the values in them: the latest
\* ones, for a phi node those at the end of the block before.
Reads(v, j) ==
  IF v \in DOMAIN prog.phi
  THEN LET u == prog.phi[v][Before(j)] IN {<<u, Value(u, j - 1)>>}
  ELSE {<<u, Value(u, j)>> : u \in Registers(v)}
-----------------------------------------------------------------------------
(* The loop-replace block *)

Unset == 0   \* "the output argument struct is left uninitialized"

\* Live-ins are stored in the argument struct, sync_init empties the queues and
\* sync_delegate starts the workers; one without blocks returns at once.
Launch(p) ==
  /\ phase = "done" /\ path = <<>>
  /\ path' = p
  /\ argstruct' = [ins |-> [n \in DOMAIN livein |-> Value(livein[n], 0)],
                   out |-> [n \in DOMAIN liveout |-> Unset]]
  /\ queue' = [c \in DOMAIN channels |-> <<>>]
  /\ received' = [c \in DOMAIN channels |-> Unset]
  /\ held' = [t \in Thread |-> [u \in Instr \cup Range(livein) |-> Unset]]
  /\ returned' = {t \in Thread : code[t] = <<>>}
  /\ UNCHANGED <<split, at, pc, from, visits, loaded, count, wrong>>

\* sync_join waits for all workers, then the live-outs are loaded.
JoinAndLoad ==
  /\ path # <<>> /\ returned = Thread /\ loaded = <<>>
  /\ loaded' = argstruct.out
  /\ UNCHANGED <<split, path, control, held, received, queue, argstruct, count, wrong>>
-----------------------------------------------------------------------------
(* The workers *)

\* The new entry: every live-in is loaded, whether the worker needs it or not.
Enter(t) ==
  /\ path # <<>> /\ at[t] = predecessor /\ t \notin returned
  /\ held' = [held EXCEPT ![t] =
       Over([u \in Range(livein) |-> argstruct.ins[CHOOSE n \in DOMAIN livein : livein[n] = u]], @)]
  /\ at' = [at EXCEPT ![t] = header]
  /\ visits' = [visits EXCEPT ![t][header] = 1]
  /\ UNCHANGED <<split, path, returned, pc, from, received, queue, struct, count, wrong>>

\* The new exit: the live-outs of the worker are stored and it returns.
Leave(t) ==
  /\ at[t] = exit /\ t \notin returned
  /\ argstruct' = [argstruct EXCEPT !.out =
       [n \in DOMAIN liveout |-> IF n \in stores[t] THEN held[t][liveout[n]] ELSE @[n]]]
  /\ returned' = returned \cup {t}
  /\ UNCHANGED <<split, path, at, pc, from, visits, held, received, queue, loaded, count,
                 wrong>>

Running(t) == path # <<>> /\ at[t] \in Block
item(t) == code[t][at[t]][pc[t]]
inst(t) == item(t)[2]
now(t) == visits[t][at[t]]   \* which execution of the block this is

\* Where the clone of v has its operand u from: a channel, a register of this worker
\* (or nowhere, undef).
Operand(t, v, u) == IF <<v, u>> \in DOMAIN operand[t] THEN received[operand[t][<<v, u>>]]
                                                      ELSE held[t][u]

\* What the clone of v reads: a phi node what the block it came from stands for,
\* if that is one value; nothing if v branches one way only.
ReadsHere(t, v) ==
  IF v \in DOMAIN prog.phi
  THEN {<<u, Operand(t, v, u)>> : u \in Incoming(t, v, from[t])}
  ELSE {<<u, Operand(t, v, u)>> : u \in Registers(v)}

\* The execution is one of the loop's and reads the loop's values.
Right(t, v) ==
  /\ now(t) <= Met(at[t], Len(path))
  /\ v \in Executed(t) => ReadsHere(t, v) = Reads(v, Place(at[t], now(t)))

Counted(t, S) == [v \in Instr |-> IF v \in S /\ assigned[v] = t THEN count[v] + 1 ELSE count[v]]
Judged(t, S) == wrong \cup {v \in S : ~Right(t, v)}

getFirstNonPHI(items) == CHOOSE n \in DOMAIN items : items[n] \notin Phis /\ \A m \in 1..n - 1 : items[m] \in Phis

\* The phi nodes of a block take their values at once.
ExecutePhis(t) ==
  /\ Running(t) /\ item(t) \in Phis
  /\ LET phis == {v \in DOMAIN prog.phi \cap instMap[t] : parent(v) = at[t]}
     IN /\ held' = [held EXCEPT ![t] = Over([v \in phis |-> now(t)], @)]
        /\ count' = Counted(t, phis) /\ wrong' = Judged(t, phis)
  /\ pc' = [pc EXCEPT ![t] = getFirstNonPHI(code[t][at[t]])]
  /\ UNCHANGED <<split, path, at, returned, from, visits, received, queue, struct>>

Execute(t) ==
  /\ Running(t) /\ item(t)[1] = "clone" /\ item(t) \notin Phis /\ ~isTerminator(prog, inst(t))
  /\ held' = [held EXCEPT ![t][inst(t)] = now(t)]
  /\ count' = Counted(t, {inst(t)}) /\ wrong' = Judged(t, {inst(t)})
  /\ pc' = [pc EXCEPT ![t] = @ + 1]
  /\ UNCHANGED <<split, path, at, returned, from, visits, received, queue, struct>>

\* Mutant: a full queue takes another value.
HasRoom_OneMore(c) == Len(queue[c]) <= QUEUE_MAXLEN

HasRoom(c) == Len(queue[c]) < QUEUE_MAXLEN

\* sync_produce blocks while the queue is full, sync_consume while it is empty.  A
\* register is sent, or else a dummy value.
SyncProduce(t) ==
  /\ Running(t) /\ item(t)[1] = "produce"
  /\ HasRoom(inst(t))
  /\ LET f == channels[inst(t)].edge
     IN queue' = [queue EXCEPT ![inst(t)] =
                    Append(@, IF f.dtype = "REG" THEN held[t][f.u] ELSE 0)]
  /\ pc' = [pc EXCEPT ![t] = @ + 1]
  /\ UNCHANGED <<split, path, at, returned, from, visits, held, received, struct, count,
                 wrong>>

SyncConsume(t) ==
  /\ Running(t) /\ item(t)[1] = "consume"
  /\ queue[inst(t)] # <<>>
  /\ received' = [received EXCEPT ![inst(t)] = Head(queue[inst(t)])]
  /\ queue' = [queue EXCEPT ![inst(t)] = Tail(@)]
  /\ pc' = [pc EXCEPT ![t] = @ + 1]
  /\ UNCHANGED <<split, path, at, returned, from, visits, held, struct, count, wrong>>

\* A worker that goes on when the loop has ended stops here: it has gone wrong.
Branch(t) ==
  /\ Running(t) /\ item(t)[1] = "clone" /\ isTerminator(prog, inst(t))
  /\ now(t) <= Met(at[t], Len(path))
  /\ count' = Counted(t, {inst(t)}) /\ wrong' = Judged(t, {inst(t)})
  /\ LET to == target[t][inst(t)][After(Place(at[t], now(t)))]
     IN /\ at' = [at EXCEPT ![t] = to]
        /\ visits' = IF to = exit THEN visits ELSE [visits EXCEPT ![t][to] = @ + 1]
  /\ from' = [from EXCEPT ![t] = at[t]]
  /\ pc' = [pc EXCEPT ![t] = 1]
  /\ UNCHANGED <<split, path, returned, held, received, queue, struct>>

Step(t) == \/ Enter(t) \/ Leave(t)
           \/ ExecutePhis(t) \/ Execute(t) \/ SyncProduce(t) \/ SyncConsume(t) \/ Branch(t)

Returned == Failed \/ loaded # <<>>   \* the code after the loop goes on

PNext == \/ Split /\ UNCHANGED run
         \/ \E p \in Paths[MaxPath][header] : Launch(p)
         \/ \E t \in Thread : Step(t)
         \/ JoinAndLoad
         \/ Returned /\ UNCHANGED vars

PSpec == PInit /\ [][PNext]_vars

\* The compiler and the program that calls the loop go on; the operating system
\* runs every thread.
PFairSpec == /\ PSpec
             /\ WF_vars(Split /\ UNCHANGED run)
             /\ WF_vars(\E p \in Paths[MaxPath][header] : Launch(p)) /\ WF_vars(JoinAndLoad)
             /\ \A t \in Thread : WF_vars(Step(t))
-----------------------------------------------------------------------------
(* Properties *)

\* Type invariant of the generated code as it runs: every thread stands in a copy of a
\* block, and no queue ever holds more than QUEUE_MAXLEN values, each of an execution.
PTypeOK ==
  /\ TypeOK
  /\ path \in Seq(Block)
  /\ at \in [Thread -> Copy] /\ returned \subseteq Thread /\ from \in [Thread -> Block \cup {predecessor}]
  /\ pc \in [Thread -> Nat \ {0}]
  /\ visits \in [Thread -> [Block -> 0..MaxPath + 1]]
  /\ \A t \in Thread : Range(held[t]) \subseteq Nat
  /\ Range(received) \subseteq Nat
  /\ \A c \in DOMAIN queue : Range(queue[c]) \subseteq Nat /\ Len(queue[c]) <= QUEUE_MAXLEN
  /\ count \in [Instr -> 0..MaxPath + 1]
  /\ wrong \subseteq Instr

\* Every instruction a worker executes reads the very values it reads in the loop,
\* no matter how far the workers are apart.  The exception are phi nodes that do not
\* have the values of the blocks that branch there (PhisRepointed).
SameValues == \A v \in wrong : v \in DOMAIN prog.phi /\ ~Repointed(assigned[v], v)

\* Memory is accessed in the loop's order wherever there is a dependence: when v
\* has been executed, so has every execution of u that comes before it in the loop,
\* though the threads share the memory and send each other nothing but tokens
\* (DSWP_5.cpp:86-90).
MemoryOrder ==
  path # <<>> =>
    \A f \in {g \in Range(allEdges) : g.dtype = "MEM"} : count[f.v] > 0 =>
      LET j == Place(parent(f.v), count[f.v])
      IN count[f.u] >= IF parent(f.u) # parent(f.v) \/ f.u[2] < f.v[2]
                       THEN Met(parent(f.u), j) ELSE Met(parent(f.u), j - 1)

\* When all workers have returned every instruction was executed as often as the
\* loop would have, and nothing is left in the queues.
AllDone ==
  returned = Thread => /\ \A v \in Instr : count[v] = Met(parent(v), Len(path))
                       /\ \A c \in DOMAIN queue : queue[c] = <<>>

\* "load the liveout variables from the out struct" (DSWP_4.cpp:152): each is there, and
\* it is the value the loop computed last, although another worker may have left the
\* loop long before the one that stores it.
LiveOutsLoaded ==
  loaded # <<>> =>
    \A n \in DOMAIN liveout : loaded[n] = Met(parent(liveout[n]), Len(path))

\* No worker waits for ever for a value or for room in a queue.
Completes == <>Returned
=============================================================================
