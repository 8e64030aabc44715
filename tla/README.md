# A verification of dswp-plus

dswp-plus is an LLVM loop pass (`DSWP*.cpp`) that turns a loop into a pipeline of
threads, *decoupled software pipelining*, and the small C runtime (`runtime/`) the
generated code is linked with. This directory holds TLA+ modules that model its
algorithms and its runtime, TLC configurations that check them on small
instances, and proofs, checked by TLAPS, that hold for every instance.

## The system

| component | source | state it keeps | operations |
|---|---|---|---|
| queue | `runtime/queue.c` | ring buffer `arr`, `head`, `tail`, `size`; a mutex; `empty_cvar`, `full_cvar` | `queue_init`, `queue_push`, `queue_pop` |
| simple_sync | `runtime/simple_sync.c` | `threads[NUM_THREADS]`, `data_queues[NUM_QUEUES]` | `sync_init`, `sync_delegate`, `sync_produce`, `sync_consume`, `sync_join` |
| driver | `DSWP_0.cpp`, `clear` in `DSWP_5.cpp` | the tables of the loop being transformed, `generated`, `loopCounter` | `doInitialization`, `runOnLoop`, `initialize`, `clear` |
| buildPDG | `DSWP_1.cpp`, `addEdge` in `DSWP_0.cpp` | `pdg`, `rev`, `allEdges` | register, memory and control dependences |
| findSCC | `DSWP_2.cpp` | `used`, `list`, `sccNum`, `sccId`, `InstInSCC`, the DAG | `dfs_forward`, `dfs_reverse` |
| threadPartition | `DSWP_3.cpp` | `sccLatency`, `assigned`, the priority queue, `part` | one greedy pass |
| liveness and dominators | `DSWP_4.cpp` | `livein`, `liveout`, `idom`, `postidom` | `getLiveinfo`, `getDominators` |
| preLoopSplit, loopSplit | `DSWP_4.cpp` | the replace block, `allFunc`, `instMap`, `placeEquivalents` | build the calling block and the workers |
| insertSynchronization, cleanup | `DSWP_5.cpp` | channels; the old loop | insert produces and consumes |

The pass is sequential. Each part reads the tables the part before it left:
`buildPDG` writes the dependence graph, `findSCC` condenses it to a DAG,
`threadPartition` cuts the DAG into `MAX_THREAD` stages, `loopSplit` makes one
worker function per stage, and `insertSynchronization` puts a produce and a
consume on a channel of their own for every dependence from a stage to a later
one. At run time the *loop-replace block* calls `sync_init`, starts a worker per
stage with `sync_delegate`, joins all with `sync_join` and loads the live-out values
from a struct the workers share; the workers talk through the queues only.

What makes each part correct, and what is hard about it:

* **queue**: elements come out once each and in order, nobody overtakes the ring,
  and nobody sleeps while there is work. Hard: every interleaving of producers
  and consumers at the mutex, spurious wakeups, elements stolen between a signal
  and the return of the wait, wrap-around.
* **simple_sync**: when live-outs are loaded all workers of the block have stored
  theirs; a region never sees values of an earlier one; nothing is joined twice.
  Hard: one global table of threads and one of queues, never cleared;
  `pthread_create` unchecked; nested regions.
* **driver**: no part reads what was found out about another loop, a worker function
  is the worker of one loop, exactly the loops that can be split are replaced. Hard:
  one object for the whole module, whose tables `clear` empties one by one on every
  way out; the pass appends functions with loops to the module it goes through; the
  dominator trees are those of the function before the pass.
* **data dependences** (part of `buildPDG`): two accesses that conflict stay in order,
  round the loop too; `pdg`, `rev` and `allEdges` tell the same. Hard: LLVM names only
  the nearest access, the others must follow by chains.
* **control dependences** (part of `buildPDG`): exactly the branches that decide about
  a block are found, those of later iterations included. Hard: the loop is peeled
  along an order of the blocks, and the dependences are read off a walk in the
  postdominator tree of the peeled loop.
* **findSCC**: components are exactly the classes of mutual dependence, numbered so
  that DAG edges go up; every dependence is in the DAG. Hard: state read in the
  middle of a recursion (`sccId` of an instruction that is still on the stack).
* **loopSplit and insertSynchronization**: a worker goes through its copies of the
  blocks in the order of the loop, has every value it needs, and consumes as often
  as another produces; all workers together compute what the loop computes. Hard:
  the copies of two workers differ, branches and phi nodes are led around the blocks
  left out along different trees, and produce and consume stand in two functions.
* **threadPartition**: dependences never lead to an earlier stage, every component
  is placed, stages are balanced, short stages come last. Hard: readiness is
  recomputed, not marked; the boundary cases of the balance test.

## Modules

| module | models | kind |
|---|---|---|
| `BoundedFifo` | what `queue.h` promises | abstract specification |
| `Queue` | `queue.c` with its mutex and condition variables | detailed specification |
| `QueueProofs` | | proofs about `Queue` |
| `SimpleSync` | `simple_sync.c` and the generated code that drives it | specification |
| `RegionsInSequence` | the programs whose regions run one after the other | assumptions on `SimpleSync`'s programs |
| `SimpleSyncProofs` | | proofs about `SimpleSync` |
| `LoopCFG` | loops as graphs, and what LLVM's dominator trees say of them | operators |
| `LoopCFGProofs` | | paths and postdominators of finite graphs |
| `Driver` | `DSWP_0.cpp:25-178`, `DSWP_4.cpp:9-102`, `486-502`, `DSWP_5.cpp:269-334` | specification |
| `DriverProofs` | | proofs about `Driver` |
| `DataDependence` | `DSWP_1.cpp:18-227`, `DSWP_0.cpp:181-190` | specification |
| `ControlDependence` | `DSWP_1.cpp:8-16`, `232-497` | specification, extends `DataDependence` |
| `BuildPDGProofs` | | proofs about `DataDependence` and `ControlDependence` |
| `FindSCC` | `DSWP_2.cpp` | specification |
| `FindSCCProofs` | | proofs about `FindSCC` |
| `ThreadPartition` | `DSWP_3.cpp` | specification |
| `ThreadPartitionProofs` | | proofs about `ThreadPartition` |
| `LoopSplit` | `DSWP_4.cpp:194-502`, `505-565`, `DSWP_5.cpp:8-293` | specification |
| `Pipeline` | the loop-replace block (`DSWP_4.cpp:88-191`), the workers made by `LoopSplit` and the queues, against the loop | specification, extends `LoopSplit` |
| `PipelineProofs` | | proofs about `LoopSplit` and `Pipeline` |
| `MC...` | constants for TLC | model checking |

The modules compose by what they assume and show: `Driver` runs the parts in order,
each one step that reads and fills tables, and the other modules say what is in them;
`SimpleSync` takes a queue to be
a FIFO with atomic operations, which `Queue` implements (`ImplementsFifo`);
`ThreadPartition` takes edges that lead to higher numbers, which `FindSCC` produces
(`DagForward`); the instances of `LoopSplit` are what these parts leave behind: control
dependences as `ControlExact` has them (`ControlDependences` of `LoopCFG`), stages that
respect dependences (`DependencesFlowForward`), only the last of which may be empty
(`ShortStagesTrail`). `Pipeline` runs the output of `LoopSplit` over FIFOs that
`BoundedFifo` promises; that it waits for all workers before it loads the live-outs is
what `JoinedBeforeLoad` of `SimpleSync` says.

### Queue

A thread's place in `queue_push` or `queue_pop` is `pc[t]`. Every pthread call is a
step, and inside the critical section the access to the slot, the update of the
indices and the signal are steps too. `pthread_cond_wait` is three: it releases
the mutex and blocks (`PushTest`, `PopTest` when the condition fails), it is woken
(by `AfterSignal` in a signal step, or by `SpuriousWakeup`), and it takes the mutex
again (`Relock`). A slot that was never written holds `Junk`. Elements are
`<<producer, number>>`: every element is told apart from every other, so that a
loss, a duplicate or a swap shows.

### SimpleSync

A thread of control runs a straight-line `Program` of operations: `main` runs
`ReplaceBlock`s, the sequence of calls that `preLoopSplit` generates, a worker produces,
consumes, stores its live-outs and returns. A worker may have a replace block in its
program, as in `Example/wc.c`, where the loop of `main` calls `counter` and that calls
`getword`, each with a loop of its own. `sync_join` and `sync_init` are loops and take
one step per slot. `pthread_create` may fail, and nobody looks; with `Dangling` the
failed call may have written to `threads[tid]`, as POSIX lets it, and joining that is
undefined. What a value is does not matter: it is `<<region, number>>`.
`RegionsInSequence` names the programs the proofs are about, and the runs `runtime` and
`runtime_nested` differ in just that: the main thread goes through its blocks one after
the other, workers have none, and a channel has one producer and one consumer.

### Driver

A table is the set of loops (function and number) it has entries of; the record
`Calls` says which tables each part reads, fills, and empties before it fills them. One
step is one call of `runOnLoop`. A run ends in `clear` (because `initialize` fails, there
is only one component, or the loop was replaced), or the compiler dies (`Fatal`). The
pass managers are external: functions in order, those
appended on the way too; of each its loops, the inner ones first. `getDominators` asks
for the tree node of every block of the function. LLVM has none for the blocks an
earlier run has made, as nothing tells it that the function has changed, so it dies in
a function with a loop replaced before. What a worker
function's own loops look like is left open (`WorkerLoops`).

### DataDependence

The loop over blocks and instructions is the counter `k`, that over the use list `n`.
`pdg`, `rev` and `allEdges` are three tables, as in the code, and `addEdge` writes all of
them. LLVM's MemoryDependenceAnalysis is external and defined by places: an access
has the set of places it may touch, a query stops at the nearest access it may
conflict with (`Interferes`), in the block or else on every way back, round the loop and
up to the block before it. That loads stop at loads of the same place, and go
past others, is LLVM's doing and the reason for two of the exceptions below.
`Ordered` gives, for one path through the loop, the events before each event by chains of
edges. It is compared with what conflicts on the path.

### ControlDependence

All of `buildPDG`: the steps of `DataDependence` come first (`Data`), and the walks add to
the tables they leave behind. `VisitRoot`, `VisitSucc` and `VisitReturn` are the calls,
iterations and returns of `dfsVisit`; the order of successors is left open. `Peel` builds
the dummy function (`dest` is the table of its branches) and asks for its postdominator
tree, `NextSucc` starts a walk, `AddControl` is one instruction of the block the walk is
at, `Climb` goes up the tree, `WalkEnds` is the end of the `while`, `NextDummy` goes to
the next dummy block. A set of successors is enough: a switch that names a block twice
walks from it twice, and `addEdge` adds nothing the second time.
The definitions the result is compared with (`Decides`, `Unrolled`) use paths and
dominators only, neither the order of the blocks nor a walk.

### FindSCC

The call stack of the two recursive functions is the variable `stack`; a frame has
its instruction and the edges its loop has yet to visit. One step is one iteration
of a loop or one return, so the state in which `dfs_reverse` reads `sccId[next]` of
an instruction still on the stack is a state of the model. The order of the edges
is left open.

### ThreadPartition

`Measure` adds the latency of one component, `Start` computes the share of a stage
and seeds the priority queue, `Schedule(top)` is one iteration of the `while` loop,
`NextThread` its end with an empty queue, `FillParts` the end of the function. Ties
in the priority queue are broken in every way. Latencies are any natural numbers;
`getLatency` is a table of constants. `int` overflow of sums of latencies (at most
50 each) is out of reach of any function LLVM compiles and not modelled.

### LoopSplit

A program is a loop, the number of instructions of each block, the incoming values of
phi nodes, `allEdges`, the instructions used after the loop, and `assigned`. `IsProgram`
says what LLVM and the parts before promise of it: phi nodes first in their block with a
value for each way in, values computed before they are used within a block, branches that
have no value, phi nodes that leave memory alone, dependences on the branches that decide about a block and on no later
thread, and no thread without work before one with work.
`GetLiveinfo` lists what goes in and what comes out. `FindRelevant` computes the
relevant blocks of a thread and takes the early return or the exit in `error()`;
`CopyBlock` is one round of the loop over them, with clones, retargeted branches and phi
predecessors (`target`) and `placeEquivalents`; `NextThread` notes which live-outs the
worker's exit stores. `InsertChannel`, `CannotInsert` and `SkipThread` are the outcomes
of an iteration of `insertSynchronization`; `Cleanup` moves produces in front of
terminators and phi nodes to the top. `code[t][b]` is the literal sequence of clones,
produces and consumes of a block, so the order the insertions lead to (produces of an
instruction reversed, those of a branch not) is that of the code. `insertConsume`
replaces uses while it goes through the list of uses. A use replaced leaves that list,
so one channel redirects one user (`operand`); every user has a channel of its own,
since every register dependence has, and `OperandsThere` says that this is enough in
whichever order the list is.

### Pipeline

When the split is done a path through the loop is chosen and the workers run it, one
item a step, in every interleaving, over queues of `QUEUE_MAXLEN` slots. A value is the
number of the execution that computed it; `wrong` collects the instructions that read
others than they read in the loop. The phi nodes of a block are one step (`ExecutePhis`),
as LLVM evaluates them at once. `Launch` and `JoinAndLoad` are the loop-replace block:
it fills the argument struct with the live-ins, starts the workers, and loads the
live-outs when all have returned. `Enter` loads the live-ins, `Leave` stores the
live-outs of the thread.

## Runs

| run | instance | shows |
|---|---|---|
| `queue` | 2 producers (3 and 2 pushes), 2 consumers (3 and 2 pops), ring of 2 | `RingConsistent`, `NoLostWakeup`, `ImplementsFifo`, `AllCallsReturn` |
| `runtime` | 3-stage pipeline on 3 channels, two regions after each other, failing `pthread_create` | `JoinedBeforeLoad`, `InitQuiet`, `StreamIntact`, `Completes` |
| `runtime_nested` | a worker with a replace block | `JoinedBeforeLoad` **violated** |
| `driver` | modules of 1 or 2 functions with up to 2 loops each, 2 workers a loop, with a loop of their own or none | `TablesOfThisLoop`, `OneLoopPerWorker`, `ReplacedOrDead`, `Terminates` |
| `memory` | a condition or an inner loop of 3 blocks, every choice of up to 4 accesses (loads, stores, calls, invokes) to 2 places, an access to either | `TablesAgree`, `ConflictsOrdered` |
| `memory_lost` | the same, up to 3 accesses | `AllOrdered` **violated** |
| `control` | all of `buildPDG` on every loop of 4 blocks in `MCLoops` (two-way branches, inner loops, several exits, irreducible ones) | `OrderIsTopological`, `ControlExact`, `CoversLoop`, `Terminates` |
| `split` | loops of 4 blocks, a phi node in the header or the last block, one further register or memory dependence, every legal assignment to 2 threads | `FollowsPath`, `OperandsThere`, `ChannelsBalanced` |
| `split_phi` | the same | `PhisRepointed` **violated** |
| `pipeline` | the if-else and the inner loop of these, live-ins and live-outs, paths of at most 7 blocks, queues of 1 slot | `SameValues`, `MemoryOrder`, `AllDone`, `LiveOutsLoaded`, `Completes` |
| `scc` | graphs on 4 instructions (any forward edge, the backward edges of `MCMayDepend`) | `FinishOrder`, `SccCorrect`, `DagForward`, `DagMatches`, `Terminates` |
| `partition` | every DAG on 4 components, latencies 0, 1, 3, three stages | `DependencesFlowForward`, `QueuedOnce`, `EveryComponentPlaced`, `ShortStagesTrail`, `LoadBalanced`, `Terminates` |

Why the bounds are enough. *queue*: the ring wraps twice, both kinds of threads block on
it at once, and two threads of a kind are what it takes to steal an element and to lose
a wakeup; the proofs cover every other size. *runtime*: three stages have a channel
between every pair, the second region sends more than a queue holds, and the first
leaves values behind when its consumer was not created. *driver*: two loops of a
function are what it takes to reach stale dominator trees and stale tables, a second
function what it takes to come back from a worker; `MaxFunction` of 8 is two source
functions and three loops replaced, and the first function can have one replaced only.
*memory*: paths go up to six blocks, twice round the loop; two places and an access to
either make kills, clobbers and accesses the analysis passes by; four accesses make a
chain of three edges. The proofs cover every program, and paths of any length. *control*: four
blocks make an inner loop, a condition in it, a condition inside a condition, and two
exits, and a block of two instructions makes a walk stop halfway;
`OrderIsTopological` and `ControlExact` are stated for reducible loops, the
others for all, and the proofs cover every loop. *split*: two threads is `MAX_THREAD`; the dependences that matter are
between two blocks, and every pair of blocks is enumerated. *pipeline*: seven blocks are
two iterations and a half, a queue of one slot makes a producer wait from the second
value on. *scc*: four instructions give components of one to four instructions, nested
cycles, and DAGs that are not chains; the proofs cover every graph. *partition*: with
three stages one is neither first nor last; 0, 1, 3 make equal, dominated and free
components and a share that divides evenly or not.

### Disagreements between code and comments

* `runtime_nested`: "join them back" (`DSWP_4.cpp:146`) fails when a worker reaches
  another replace block: `threads[]` is one table for the process, the inner block
  overwrites it, and the outer one joins the wrong threads and loads live-outs too
  early.

* `split_phi`: branches to blocks that are left out go to the next copied
  postdominator (`DSWP_4.cpp:319`), incoming blocks of phi nodes to the next copied
  dominator (`DSWP_4.cpp:358`), so that a block may branch to a phi node that has no
  value for it. The comment there asks whether this is right. Nor need the phi node be
  undefined: in the loop 0 -> {1, 2}, 1 -> {2, 3}, 2 -> 4, 3 -> 4, 4 -> {0, 5} with a phi
  node in block 4 and a worker with copies of 0, 1 and 4 only, block 2 is given the
  dominator 0 and block 3 the dominator 1, while the way 0, 1, 2, 4 arrives from 1: the
  phi node takes the value of block 3. `Repointed` asks for every way through the loop
  that the block it arrives from gives the phi node its value, and `SameValues` holds for
  everything else.
* `memory_lost`: "READ AFTER READ IS INSERT AFTER PDG BUILD" (`DSWP_1.cpp:149`), which
  nothing does. LLVM names the nearest access only, and for a load that may be the load
  before it. A store after two loads of its place in a row depends on the second; the
  first is tied to neither, so that it may run on a later stage than the store and
  read what the store wrote. `ConflictsOrdered` holds for everything that is not
  `Blurred` by this or by accesses to one of several places.

Three more have no run of their own:

* `DSWP_3.cpp:38` documents a value -1 for components in the queue. It is never
  stored. Harmless, since a component becomes ready only once (`QueuedOnce`, proved).
* `DSWP_2.cpp:76` takes every edge to an instruction already met for one between two
  components. An instruction of the component under construction has been met too and
  its `sccId` still reads 0, so component 0 gets an edge to a component that does not
  depend on it. `DagMatches` says that these are all the wrong edges there are. The
  schedule stays correct (`DagForward`), only less parallel.
* `error("this must be a error early in dependency analysis stage")` (`DSWP_4.cpp:261`)
  is reached with dependences that are right (phase `"no header"`). A stage with nothing
  but the body of a condition depends on the branch of the condition and not on the
  header, and relevance looks one dependence back. The pass then exits the compiler.
  The same reason leads to "can't insert nowhere" (`DSWP_5.cpp:111`, phase `"nowhere"`):
  the terminator of a copied block depends on a branch in a block that is not copied.
  In this case the error is a safeguard: `FollowsPath` would fail otherwise.

## Fairness

The passes are sequential: `WF_vars(Next)`, a running program goes on. For `Driver` it
is the pass managers too, which visit each function of the module once. The threads of
`Queue` and `SimpleSync` are scheduled by the operating system: weak fairness of each
thread's next step; so are the workers of `Pipeline`. The order in which a mutex is
granted is not assumed to be fair: a thread may be overtaken as long as others use the
queue, and since every thread makes a bounded number of calls weak fairness is enough.
Spurious wakeups are allowed, but not for ever. That `pthread_create` does not fail is
not assumed; `Completes` says what holds if it does.

## Proofs

`tlapm` checks every proof. Assumptions are those named in the modules
(`QueueAssumption`, `FindSCCAssumption`, `PartitionAssumption`, `DriverAssumption`,
`DataAssumption`, `ControlAssumption`, `SyncAssumption`, `LoopAssumption`, `SplitAssumption`,
`PipelineAssumption`): numbers are
natural, the sets of threads are finite and disjoint, there are finitely many places in
memory, programs and modules are well formed. `SequenceAssumption`, for the proofs about the runtime only, says that regions run
one after the other; the run `runtime_nested` shows what happens to them otherwise.

**Queue** (any number of threads, any ring, any number of calls). `IInv` adds to
`TypeOK`: who holds the mutex is in a locked location and vice versa
(`MutexInv`), the blocked threads are those on the condition variables
(`BlockedInv`), a thread past its test still finds what it tested (`CapacityInv`),
and the ring's contents with the slot in transfer (`TransferInv`). `RingConsistent` is not
inductive without them: it is broken by a push between a test and its update,
which only the mutex excludes. From `IInv` follow `TypeCorrect`, `RingCorrect`,
`MutexCorrect`. `WakeupCorrect` needs a counting invariant, `WakeupInv`: the elements in
the queue are at most the consumers awake and the signals still to come, if
anybody is blocked; the proof counts finite sets. `QueueImplementsFifo` shows that
initial states map to initial states, that the index update is the abstract push
or pop, and that every other step stutters.

**ThreadPartition** (any DAG, latencies, number of stages). `IInv`: what is queued is
ready and was not assigned (`QueueInv`), what is ready is queued (`ReadyInv`, the fact that
a component is looked at only when a parent is assigned does not lose any), what
is assigned is behind its parents (`AssignedInv`), the last stage is left only with
an empty queue (`EndInv`). `AllAssigned` is the argument that nothing is left: among
unassigned components the least one would be ready. From it follow
`TypeCorrect`, `FlowForward`, `QueuedAtMostOnce`, `AllPlaced`. `BInv` gives the balance: a
stage left short was left because nothing remained (`ShortInv`), the stage being
filled is below its share (`OpenInv`), a stage left full has a component that tipped
it (`LoadInv`); from it `ShortAreLast` and `Balanced`.

**FindSCC** (any graph on any number of instructions). `Reaches` says that every closed
set with the one instruction in it has the other, so that the argument names sets and
needs no induction over paths; that a set of places in the list has a last one
(`LastOf`) is well-foundedness of finite sets. `IInv` adds to `TypeOK`:
* `StackInv`: nothing is on the stack twice, and what is left to visit are its edges;
* `ForwardInv`: what `dfs_forward` has met is on the list or on the stack, where each
  depends on those below it;
* `ListInv`: at the time an instruction was put on the list, what depends on any instruction
  listed so far was on the list too, or on the stack and so has this one depend on it.
  `LastOfClass` follows: of what depends on the last listed of a class, the part that was
  on the list by then is closed, and so is all of it. That is `FinishOrder`;
* `NumberInv`: `sccId` and `InstInSCC` agree, and `sccId` is 0 until a call returns;
* `ClassInv`: components with a number below `sccNum` are complete classes, what the
  present component has is of the root's class, and all that is behind the root in the list is
  in complete ones. The last part is what `FinishOrder` needs to keep the search from
  running into another class not yet taken off (`DescendClass`); that nothing of the class is
  missing at the end (`ClassFull`) is again a closed set, what was not met;
* `DagInv`: every edge visited is `Known`, one component or an edge of the DAG to a higher
  number, and every edge of the DAG is `Founded`, on a dependence or on the 0 that `sccId` reads
  as on the stack. It speaks of the number an instruction will have when its call returns
  (`comp`), as `sccId` does not have it yet.

The theorems are `TypeCorrect`, `ListedLast`, `ClassesFound`, `DagAcyclic` and `DagFaithful`.

**DataDependence** (any program). What LLVM answers does not matter: `addEdge` keeps
`TableInv` for any arguments, which is `TablesAgree` by the ranges of the tables
(`ByTables`): each table is injective, files each edge under its end, and a triple is in
all three or in none. `DataInv` adds that the loop is at an instruction of the loop, and
that what is left to add was answered to a query of one. From them follow
`DataTablesAgree` and `DataTypeCorrect`.

`ChainsAlwaysKept` is about the order of accesses to memory, on any path, from any block
on and of any length; `ConflictsAlwaysOrdered` is the case the run checks. The invariant
`AskedInv` says of every instruction visited that the answer to its query has become
edges: to the last access before it in the block, unless the code drops it, or to the last
accesses in the blocks in front of it that are in the loop. That the visit is of all
instructions is `OrderHasAll`, and edges are never taken back (`AnswersStay`). The rest
is about the trace of a path, which lists all that happens in the order of time
(`TraceFacts`, `Between`). Between two accesses that are not `Blurred` it is known what is
done to their place (`Clear`). The last access to it before the second one is the one
LLVM stops at: nothing between interferes, be it in the same visit of a block or over any
number of blocks passed, which is the way back that `NonLocal` finds by `Reaching`
(`NearestLinked`). So it is a direct dependence, and the interval before it is clear too
(`ClearPart`), which gives the chain by induction on the place in the trace
(`ClearOrdered`). It has to be an induction over all pairs with a common place, not over
conflicts: between a load and a later store may be other loads, and they are in the chain.
`Before` of `Ordered` and the paths of `PathsOf` are recursive functions; that
they exist, and are what their equations say, is proved from `SetInduction` (`EarlierExist`,
`PathsExist`).

That a program has no empty header, and here no
empty block, is LLVM's: a block ends with its terminator (`ControlAssumption`).

**ControlDependence** (any loop of any number of blocks, any instructions). The theorems
about the tables hold for all of `buildPDG` too (`TablesAlwaysAgree`,
`ControlTypeCorrect`). The inductive invariant is `ControlInv` of
* `DfsInv` and `SearchInv`: a block is met, on the stack or left, once; the stack is a
  path from the header, and what leads from a block is met by the time it is left. As
  all blocks can be reached from the header the first call meets them all;
* `StepInv`: before the loop is peeled there are no control edges; then `pdt` is the
  postdominators of the dummy function, every control edge is `Sound`, one that some
  walk is to add, the edges of all branches already seen to are there (`EdgeDone`),
  and for the one at hand those below the node the walk is at (`Walking`). The walk ends
  where it should as postdominators are a chain, and the node is always above the
  successor it started from and not above its end (`ParentIs`, `CommonIs`).

`WalksExact` turns that into `Walked`: at the end a branch has control edges to just the
blocks that postdominate a successor of a copy of it and not the copy. Three facts about
graphs do the rest.
* `TopAcyclic`: the top halves of the dummy function have no cycle, whatever the order;
  the bottom halves are the loop again (`BottomIsLoop`). So postdominance below is that
  of the loop, and a dependence of the loop is one of the dummy function (`LoopDecided`):
  `LoopAlwaysCovered`. A branch that decides about its own next execution is one from the
  top half to the bottom half.
* `TopoInv`: a block comes before what dominates it in `ord`, as the dominators of a block
  on the stack are below it (`DomOnStack`), and in a reducible loop after what it leads
  to otherwise (`ReturnTopo`): a block still on the stack would close a cycle of edges
  that do not lead to a dominator. That is `OrderAlwaysTopological`.
* `PeeledIsUnrolled`: with that order the dummy function is `Unrolled`, and so the edges
  are the control dependences of that graph as they are defined: `ControlAlwaysExact`.

**Driver** (any module, any number of workers). `TablesOfThisLoop` is not inductive, it
says nothing of the tables a later call reads. `TableInv` adds that tables are empty
between loops, that during a run nothing is of another loop, and that all the calls made
before (`Earlier`) have filled theirs; that every table read was filled by an earlier call
is read off `Calls` (`ReadsFilled`). `OneLoopPerWorker` needs `CounterInv`: workers made so
far have smaller numbers than the loop at hand. `ReplacedOrDead` needs what is replaced
at any time (`ReplacedInv`: what is `Past`, in the source, and `Splittable`), which rests on
where the pass is (`PlaceInv`), what the tests so far have found out (`LoopInv`), and that
generated functions are told from the source's by name (`NameInv`); `DeathInv` keeps the
reason of a segfault. The theorems are `TypeCorrect`, `NoStaleTables`, `WorkersAreNew` and
`ReplacedRight`.

**SimpleSync** (any number of regions in sequence, stages, channels, live-outs and slots).
`JoinedBeforeLoad` is not inductive: it says nothing of the handles `sync_join` is going
through. `IInv` adds to `TypeOK`:
* `LoopInv`: the main thread is in the middle of a loop over slots only at the `sync_init` or
  the `sync_join` of a block, and inside its bounds;
* `ThreadInv`: a worker that was started was delegated before, and one that was not has done
  nothing; unless its thread was joined it is in `threads`, and the main thread has
  not passed the join, and in the join not its slot. This says that no region finds a
  worker of another one alive. It fails once a handle left behind by a failed creation is
  joined (`undef`), which the properties except;
* `StoredInv` and `LoadedInv`: a worker that has ended has stored its live-outs, and
  what was loaded is what all workers that were started had stored;
* `StreamInv`: in region `r` the queue of a channel holds the values of `r` from the one on
  that the consumer needs next, as `sync_init` has emptied it before either was started;
* `HandleInv`: if no creation has failed `threads[t]` is the region's own worker from its
  creation on, whatever earlier regions left there.

The theorems are `TypeCorrect`, `LoadsComplete`, `QuietAtInit`, `StreamsIntact` and
`JoinsOnce`; the last is that no handle is joined twice as long as `pthread_create`
succeeds, which no run has as a property.

**LoopCFG** (any finite graph). `Reaching` counts steps up to the number of nodes; that
this is enough is a pigeonhole (`WithinStable`: as long as a step adds a node there are at
least as many nodes as steps). So `Reaching` is the least set that every step back stays in
(`ReachLeast`, `ReachStep`), and everything else is argued with closed sets:
postdominance is transitive, antisymmetric where all nodes reach the root, and the
postdominators of a node are a chain. `NearestExists` and `NearestUnique` follow for any
set of blocks with the exit. A block that is left out and decides about no block of the
set has the same nearest postdominator in the set as each of its successors
(`NearestStays`), so that the nearest does not change along a path through blocks left out;
`FirstIsNearest` is that.

**LoopSplit** (any loop, any instructions, phi nodes, dependences, number of threads and
legal assignment). Assumed of a program (`IsProgram`) is what the parts before establish:
dependences lead to no earlier thread (`FlowForward`), and every instruction of a block depends on
the branches that decide about the block (`ControlExact`). `IInv` is of
* `PhaseInv`: the types, and that nothing is inserted while a worker is being built;
* `CopyInv`: a copied block has clones of just the thread's own instructions and the
  terminator, and for every other one a clone in the same block that stands for it;
* `TargetInv`: a branch leads to the nearest postdominator that is relevant, copied
  yet or not;
* `ItemInv`: a copied block lists its clones, and the produces and consumes of the channels
  whose source is in it, each once. `Lists` is kept by insertion, by moving the tail in
  front of the terminator and by moving the phi nodes (`ListsInsert`, `ListsReverse`,
  `ListsKeep`). `ChannelsBalanced` counts what is listed (`Balanced`);
* `ChannelInv`, `PlaceInv`: both ends of a channel have the block of its source, and so have both
  ends of a dependence that has been seen to, as the compiler would have stopped
  otherwise ("can't insert nowhere");
* `OperandInv`: a value has at most as many users without an operand in a worker as
  dependences on it yet to be seen to. Not every one takes a user off that it belongs to, as
  `insertConsume` redirects any one; it is a matter of number, and at the end both are
  zero (`Operands`). It holds at first as every user has a dependence of its own, and
  every dependence of a user gets a channel (`OperandNeeds`): the user's worker is
  not before the source's, also when the user is a branch of another thread, which is only
  executed if it decides about a block of this one (`BranchThread`).

`PathsFollowed` (`FollowsPath`) is from `TargetInv`, `FirstIsNearest` and `CopiesDecided`: at the
end a branch that decides about a copied block is copied too. If it is of this thread it
is relevant; if it is of an earlier one there is a dependence on it from the terminator
of the copied block, and by `PlaceInv` that one has a place here.

For the workers as they run more is kept of them while they are made (`SInv`):
* `OrderInv`: which item of a block comes before which. Clones keep the order of the
  block, a produce comes after the clone it sends and a consume before the clones of
  whatever comes after its source in the block; before `cleanup` a produce may be behind the
  terminator, after it the terminator is last and phi nodes are first;
* `LinkInv`: the channel an operand was redirected to carries just that register to just
  this worker, and every dependence seen to that needs one has a channel;
* `ValueInv`: live-ins are all the values from outside that phi nodes have, live-outs are
  stored by the worker that computes them, and a worker with blocks has the header;
* `ShapeInv`: phi nodes are repointed to blocks the worker has. That there is always one is
  `NearestExists` again, on the edges turned round (`EntriesReach`).
`SplitTypes` follows from these.

**Pipeline** (any program, any path of at most `MaxPath` blocks for any `MaxPath`, any
number of workers, any `QUEUE_MAXLEN`). The inductive invariant is `RunInv`, of `SInv` and
* `ControlInv`: every worker is on the path. In a block it stands at one definite place of
  the path (`Where`), it has been in each of its blocks as often as the path by then, and it
  came from the last of its blocks before. That the next place is again one of
  its blocks, the first after this one, is `NextCopy`, for which a branch to the nearest
  postdominator is followed along the path;
* `DataInv`: a register holds the number of the latest execution of its instruction
  (`HeldInv`), `count` is that number (`CountInv`), a queue holds what was sent and not yet
  received, in order (`QueueInv`), and the struct the live-outs of the workers that have
  returned (`StructInv`).

How often an item was got past, `Times(t, b, x)`, is the times its block was entered, less
one if the item is still ahead. All numbers are told in terms of it, and one lemma
per kind of step says what it adds to which (`Goes`, proved in `GoOn`, `GoPhis`, `GoEnter`,
`GoLeave`, `GoBranch`), so that the invariants about data are argued without looking at
where a worker is. The step that says most is an instruction that reads a channel:
by `OrderInv` its consume is behind it in the same execution of the block, by `QueueInv` it was
the n-th value received, so it was the n-th sent, and by `HeldInv` and the order in the
sender that is the n-th execution of the source (`NowFacts`, `RightClone`); for a phi node it is
the value of the block it came from, if that is one value (`RightPhi`). `MemoryKept` is
the same argument for a token: in one worker accesses are in the order of the clones, in two the
token was sent after the first and received before the second (`Behind`). When all have
returned all places are the end of the path, so every `Times` is the number of the path and
what was sent was received (`DoneAtEnd`). The theorems are `RunInductive`, `RunTypes`, `ValuesSame`,
`MemoryInOrder`, `LoopDone` and `OutsLoaded`; the exception in `SameValues` is the finding about
`PhisRepointed`.

`NoDeadlock` is what `Completes` rests on: as long as not all workers have returned, one
can go on (`NeverStuck`). Channels may skip stages, share a block or lie side by side in any
number, so this is no matter of one queue. A worker that waits for room waits for one
strictly behind it on the path (`WaitsForRoom`, from `QUEUE_MAXLEN > 0`), one that waits for a
value waits for an earlier thread that is not ahead of it (`WaitsForValue`), and all other
steps are always possible, a branch because the path goes on (`Waits`). So the least by place and
then by thread waits for nobody (`Lexicographic`, `SomeoneSteps`). `CanStep` spells out what the
actions ask for, as `ENABLED` is out of the prover's reach; TLC's deadlock check is the
same statement on the run. That a worker which can go on does (`Completes`) is liveness
and stays with the run.

Only model-checked: the liveness properties, which are out of the prover's reach,
and what does not hold (`JoinedBeforeLoad` with nested regions, `AllOrdered`, `PhisRepointed`).

## Not modelled

Debug output (`DSWP_DEBUG.cpp`, `runtime_debug.c`), string helpers and `error()` itself
(`Utils.cpp`), `raw_os_ostream.cpp`: no state. The analyses of LLVM (loops, dominators,
memory dependences): external, defined by what they promise. `checkEdge` and
`queue_destroy`: nothing calls them. `getLatency`: a table of numbers, and any number is
allowed. Casts of values to and from `i64` (`DSWP_5.cpp:45-84`, `117-140`): no property
tells values apart by their type. Phi nodes in the loop's exit: a program has none there
(`IsProgram`). The number of channels is not compared with `NUM_QUEUES`: whether a loop
has more is a matter of its size alone.
