----------------------------- MODULE SimpleSync -----------------------------
(***************************************************************************)
(* The runtime of runtime/simple_sync.c as the generated code drives it:   *)
(* the loop-replace block of DSWP::preLoopSplit sets up the queues, starts *)
(* one worker per pipeline stage, joins the workers and loads the live-out *)
(* values; a worker produces and consumes on numbered channels, stores its *)
(* live-out values and returns.                                            *)
(*                                                                         *)
(* A region is one execution of a loop-replace block.  A control is a      *)
(* thread of control, the main one or a worker <<region, tid>>, and runs a *)
(* straight-line Program of operations; a worker whose loop body calls a   *)
(* function with a transformed loop of its own has a whole loop-replace    *)
(* block in its program.  A queue is a bounded FIFO with atomic pushes and *)
(* pops, which module Queue shows of queue.c.                              *)
(***************************************************************************)
EXTENDS Integers, Sequences

CONSTANTS NUM_THREADS,    \* slots of threads[], one per stage
          NUM_QUEUES,     \* slots of data_queues[]
          QUEUE_MAXLEN,   \* capacity of a queue
          Region,         \* the executions of loop-replace blocks
          Main,           \* the thread of control of main()
          Program,        \* control -> sequence of operations
          CreateMayFail,  \* whether pthread_create may fail
          None,           \* the zero pthread_t; live-outs not loaded
          Dangling        \* a pthread_t that is no thread's

Tid == 0..NUM_THREADS - 1
Channel == 0..NUM_QUEUES - 1
Worker == Region \X Tid
Control == {Main} \cup Worker

Op == [op : {"produce", "consume"}, at : Channel]
      \cup [op : {"delegate", "load"}, at : Worker]
      \cup [op : {"init", "join", "store"}, at : {None}]

ASSUME SyncAssumption ==
  /\ NUM_THREADS \in Nat \ {0} /\ NUM_QUEUES \in Nat \ {0}
  /\ QUEUE_MAXLEN \in Nat \ {0}
  /\ Main \notin Worker /\ None \notin Worker
  /\ Dangling \notin Worker \cup {None}
  /\ Program \in [Control -> Seq(Op)]
  /\ CreateMayFail \in BOOLEAN

VARIABLES
  threads,      \* the table of simple_sync.c: slot -> worker, None or Dangling
  data_queues,  \* channel -> contents; an element is <<region, number>>
  pc,           \* control -> operations completed
  loop,         \* control -> the loop variable of sync_init and sync_join
  state,        \* worker -> "none", "run", "ended" or "joined"
  sent, got,    \* per worker and channel: values produced; consumed, in order
  out,          \* region -> the stages that stored their live-out values
  loaded,       \* region -> what of it the load found, or None
  failed,       \* pthread_create has failed
  undef         \* a handle without a thread, or one joined before, was joined:
                \* pthreads leaves undefined what happens then

vars == <<threads, data_queues, pc, loop, state, sent, got, out, loaded,
          failed, undef>>

Init ==
  /\ threads = [t \in Tid |-> None]
  /\ data_queues = [q \in Channel |-> <<>>]
  /\ pc = [c \in Control |-> 0]
  /\ loop = [c \in Control |-> 0]
  /\ state = [w \in Worker |-> "none"]
  /\ sent = [w \in Worker |-> [q \in Channel |-> 0]]
  /\ got = [w \in Worker |-> [q \in Channel |-> <<>>]]
  /\ out = [r \in Region |-> {}]
  /\ loaded = [r \in Region |-> None]
  /\ failed = FALSE /\ undef = FALSE

Running(c) == c = Main \/ (c \in Worker /\ state[c] = "run")

\* c is about to execute, or is inside, an operation of kind k.
At(c, k) == /\ ~undef /\ Running(c)
            /\ pc[c] < Len(Program[c]) /\ Program[c][pc[c] + 1].op = k

Arg(c) == Program[c][pc[c] + 1].at

Return(c) == pc' = [pc EXCEPT ![c] = @ + 1]
-----------------------------------------------------------------------------
(* simple_sync.c *)

HasRoom(q) == Len(data_queues[q]) < QUEUE_MAXLEN

sync_produce(w) ==
  /\ At(w, "produce") /\ HasRoom(Arg(w))
  /\ LET q == Arg(w)
     IN /\ data_queues' = [data_queues EXCEPT ![q] =
                             Append(@, <<w[1], sent[w][q] + 1>>)]
        /\ sent' = [sent EXCEPT ![w][q] = @ + 1]
  /\ Return(w)
  /\ UNCHANGED <<threads, loop, state, got, out, loaded, failed, undef>>

sync_consume(w) ==
  /\ At(w, "consume") /\ data_queues[Arg(w)] # <<>>
  /\ LET q == Arg(w)
     IN /\ got' = [got EXCEPT ![w][q] = Append(@, Head(data_queues[q]))]
        /\ data_queues' = [data_queues EXCEPT ![q] = Tail(@)]
  /\ Return(w)
  /\ UNCHANGED <<threads, loop, state, sent, out, loaded, failed, undef>>

\* The thread is created and its handle stored in the slot of its number.
sync_delegate(c) ==
  /\ At(c, "delegate")
  /\ threads' = [threads EXCEPT ![Arg(c)[2]] = Arg(c)]
  /\ state' = [state EXCEPT ![Arg(c)] = "run"]
  /\ Return(c)
  /\ UNCHANGED <<data_queues, loop, sent, got, out, loaded, failed, undef>>

\* pthread_create fails; nobody looks at its result.  The slot keeps what it
\* held or gets a handle without a thread, pthreads leaves it undefined.
sync_delegate_fails(c) ==
  /\ CreateMayFail
  /\ At(c, "delegate")
  /\ failed' = TRUE
  /\ threads' \in {threads, [threads EXCEPT ![Arg(c)[2]] = Dangling]}
  /\ Return(c)
  /\ UNCHANGED <<data_queues, loop, state, sent, got, out, loaded, undef>>

\* One iteration, or the end, of a loop from 0 to n - 1.
Iterate(c, n) ==
  IF loop[c] + 1 < n
  THEN loop' = [loop EXCEPT ![c] = @ + 1] /\ UNCHANGED pc
  ELSE loop' = [loop EXCEPT ![c] = 0] /\ Return(c)

\* Mutant: the loop leaves out the last slot.
JoinBound_LessOne == NUM_THREADS - 1

JoinBound == NUM_THREADS

\* pthread_join returns when the thread has ended.
Joinable(w) == state[w] \in {"ended", "joined"}

\* One iteration of sync_join.  A slot keeps its handle after the join.
sync_join(c) ==
  /\ At(c, "join")
  /\ LET w == threads[loop[c]]
     IN \/ /\ w = None
           /\ Iterate(c, JoinBound)
           /\ UNCHANGED <<state, undef>>
        \/ /\ w \in Worker /\ Joinable(w)
           /\ undef' = (state[w] = "joined")
           /\ state' = [state EXCEPT ![w] = "joined"]
           /\ Iterate(c, JoinBound)
        \/ /\ w = Dangling
           /\ undef' = TRUE
           /\ UNCHANGED <<pc, loop, state>>
  /\ UNCHANGED <<threads, data_queues, sent, got, out, loaded, failed>>

\* Mutant: sync_init leaves the queue as it is.
Reinit_Keep(q) == data_queues[q]

\* queue_init forgets what the queue holds.
Reinit(q) == <<>>

\* One iteration of sync_init.
sync_init(c) ==
  /\ At(c, "init")
  /\ data_queues' = [data_queues EXCEPT ![loop[c]] = Reinit(loop[c])]
  /\ Iterate(c, NUM_QUEUES)
  /\ UNCHANGED <<threads, state, sent, got, out, loaded, failed, undef>>
-----------------------------------------------------------------------------
(* The generated code *)

\* A worker stores the live-out values it defines.
Store(w) ==
  /\ At(w, "store")
  /\ out' = [out EXCEPT ![w[1]] = @ \cup {w[2]}]
  /\ Return(w)
  /\ UNCHANGED <<threads, data_queues, loop, state, sent, got, loaded, failed, undef>>

\* The end of a worker function.
End(w) ==
  /\ ~undef /\ state[w] = "run" /\ pc[w] = Len(Program[w])
  /\ state' = [state EXCEPT ![w] = "ended"]
  /\ UNCHANGED <<threads, data_queues, pc, loop, sent, got, out, loaded, failed, undef>>

\* The loop-replace block loads the live-out values of its region.
Load(c) ==
  /\ At(c, "load")
  /\ loaded' = [loaded EXCEPT ![Arg(c)[1]] = out[Arg(c)[1]]]
  /\ Return(c)
  /\ UNCHANGED <<threads, data_queues, loop, state, sent, got, out, failed, undef>>

Do(k) == [op |-> k, at |-> None]
DoOn(k, x) == [op |-> k, at |-> x]

Delegates(r) == [n \in 1..NUM_THREADS |-> DoOn("delegate", <<r, n - 1>>)]

\* Mutant: the workers are joined before the last of them is started.
ReplaceBlock_JoinEarly(r) ==
  <<Do("init")>> \o SubSeq(Delegates(r), 1, NUM_THREADS - 1)
  \o <<Do("join")>> \o SubSeq(Delegates(r), NUM_THREADS, NUM_THREADS)
  \o <<Do("join"), DoOn("load", <<r, 0>>)>>

\* The loop-replace block of preLoopSplit.
ReplaceBlock(r) ==
  <<Do("init")>> \o Delegates(r) \o <<Do("join"), DoOn("load", <<r, 0>>)>>
-----------------------------------------------------------------------------
Step(c) ==
  \/ c \in Worker /\ (sync_produce(c) \/ sync_consume(c) \/ Store(c) \/ End(c))
  \/ sync_delegate(c) \/ sync_join(c) \/ sync_init(c) \/ Load(c)

Next == \E c \in Control : Step(c) \/ sync_delegate_fails(c)

\* Every thread runs on while it can; nothing makes pthread_create fail.
Spec == Init /\ [][Next]_vars
FairSpec == Spec /\ \A c \in Control : WF_vars(Step(c))
-----------------------------------------------------------------------------
(* Properties *)

\* Type invariant of the thread table and the channels: an entry of threads is a
\* worker, nothing or the id of a thread never started, and no queue is overfull.
TypeOK ==
  /\ threads \in [Tid -> Worker \cup {None, Dangling}]
  /\ data_queues \in [Channel -> Seq(Region \X (Nat \ {0}))]
  /\ \A q \in Channel : Len(data_queues[q]) <= QUEUE_MAXLEN
  /\ pc \in [Control -> Nat] /\ \A c \in Control : pc[c] <= Len(Program[c])
  /\ loop \in [Control -> Nat]
  /\ state \in [Worker -> {"none", "run", "ended", "joined"}]
  /\ sent \in [Worker -> [Channel -> Nat]]
  /\ got \in [Worker -> [Channel -> Seq(Region \X (Nat \ {0}))]]
  /\ out \in [Region -> SUBSET Tid]
  /\ loaded \in [Region -> {None} \cup SUBSET Tid]
  /\ failed \in BOOLEAN /\ undef \in BOOLEAN

\* "join them back" (DSWP_4.cpp:146), then "load the liveout variables": when a
\* block loads the live-out values of its region, every worker it started has
\* stored its own.
JoinedBeforeLoad ==
  \A r \in Region : loaded[r] # None =>
    loaded[r] = {t \in Tid : state[<<r, t>>] # "none"}

\* sync_init resets mutexes, condition variables and contents of all queues, so
\* it must not run while a worker may be inside a queue.
InitQuiet ==
  \A c \in Control : At(c, "init") => \A w \in Worker : state[w] # "run"

\* What a stage consumes on a channel is what a stage of the same region put in
\* it, from the first value on and in order, whatever earlier regions left in
\* the queue (a region whose consumer was not created leaves its values there).
StreamIntact ==
  \A w \in Worker, q \in Channel : \A k \in DOMAIN got[w][q] :
    got[w][q][k] = <<w[1], k>>

\* Unless a thread could not be created the program runs to its end, and joins
\* no thread twice on the way although threads[] is never cleared.
Completes == <>(failed \/ pc[Main] = Len(Program[Main]))
=============================================================================
