-------------------------- MODULE ThreadPartition --------------------------
(***************************************************************************)
(* DSWP::threadPartition (DSWP_3.cpp): the strongly connected components   *)
(* of the program dependence graph are assigned to the MAX_THREAD stages   *)
(* of the pipeline, greedily, the slowest component that is ready first.   *)
(*                                                                         *)
(* The input is what findSCC leaves behind: components 0..sccNum-1 and     *)
(* the edges between them, which lead from lower to higher numbers (module *)
(* FindSCC shows that they do).  First the latencies of the components are *)
(* added up; one step adds the instructions of one component, which the    *)
(* code meets block by block (sums do not depend on the order).  Then one  *)
(* step is one iteration of the while loop, or one end of it.              *)
(***************************************************************************)
EXTENDS Integers, FiniteSets

CONSTANTS MAX_THREAD,   \* number of pipeline stages
          sccNum,       \* number of components
          Latencies     \* the latencies a component may have

ASSUME PartitionAssumption ==
  /\ MAX_THREAD \in Nat \ {0}
  /\ sccNum \in Nat \ {0}
  /\ Latencies \subseteq Nat

SCC == 0..sccNum - 1
Thread == 0..MAX_THREAD - 1

\* The edges findSCC can produce.
DagEdges == {e \in SCC \X SCC : e[1] < e[2]}

VARIABLES
  dag,           \* edges: scc_dependents and scc_parents
  sccLatency,    \* latency of each component
  measured,      \* components whose latency is known
  totalLatency,  \* their latency
  averLatency,   \* latency at which a stage is full
  assigned,      \* component -> stage, or -2
  estLatency,    \* latency of each stage so far
  Q,             \* the priority queue: how often each component is in it
  i,             \* the stage being filled
  part,          \* the components of each stage
  pc             \* "measure", "schedule", "done", or "error" after a call of error()

vars == <<dag, sccLatency, measured, totalLatency, averLatency, assigned,
          estLatency, Q, i, part, pc>>
input == <<dag, sccLatency, measured, totalLatency, averLatency>>

Parents(v) == {u \in SCC : <<u, v>> \in dag}
Dependents(u) == {v \in SCC : <<u, v>> \in dag}

\* Mutant: only the first component is a candidate at the start.
Seed_FirstOnly(s) == s = 0

\* The components that are candidates at the start.
Seed(s) == Parents(s) = {}

Init ==
  /\ dag \in SUBSET DagEdges
  /\ sccLatency = [s \in SCC |-> 0]
  /\ measured = 0 /\ totalLatency = 0 /\ averLatency = 0
  /\ assigned = [s \in SCC |-> -2]
  /\ estLatency = [t \in Thread |-> 0]
  /\ Q = [s \in SCC |-> 0]
  /\ i = 0
  /\ part = [t \in Thread |-> {}]
  /\ pc = "measure"

\* The next component's instructions have latency l together.
Measure(l) ==
  /\ pc = "measure" /\ measured < sccNum
  /\ sccLatency' = [sccLatency EXCEPT ![measured] = l]
  /\ totalLatency' = totalLatency + l
  /\ measured' = measured + 1
  /\ UNCHANGED <<dag, averLatency, assigned, estLatency, Q, i, part, pc>>

\* A stage's share, and the first candidates.
Start ==
  /\ pc = "measure" /\ measured = sccNum
  /\ averLatency' = totalLatency \div MAX_THREAD
  /\ Q' = [s \in SCC |-> IF Seed(s) THEN 1 ELSE 0]
  /\ pc' = "schedule"
  /\ UNCHANGED <<dag, sccLatency, measured, totalLatency, assigned, estLatency, i, part>>

QEmpty == \A s \in SCC : Q[s] = 0

\* What Q.top() may return: ties are broken arbitrarily.
IsTop(s) == Q[s] > 0 /\ \A r \in SCC : Q[r] > 0 => sccLatency[r] <= sccLatency[s]

\* Mutant: a dependent is queued as soon as one of its parents is assigned.
CanSchedule_AnyParent(v, now) == now[v] = -2 /\ \E u \in Parents(v) : now[u] >= 0

\* v is not assigned, and all its parents are, under the assignment now.
CanSchedule(v, now) == now[v] = -2 /\ \A u \in Parents(v) : now[u] >= 0

\* Mutant: the last stage, too, is left when it is full.
StageFull_LastToo(est) == est >= averLatency

\* Mutant: a stage that has just its share is not full yet.
StageFull_Strict(est) == est > averLatency /\ i # MAX_THREAD - 1

\* "we've filled up this thread, so move on"
StageFull(est) == est >= averLatency /\ i # MAX_THREAD - 1

\* The condition of the for loop over the stages.
MoreStages == i < MAX_THREAD

\* One iteration of the while loop with top as the component popped.
Schedule(top) ==
  /\ pc = "schedule" /\ MoreStages
  /\ IsTop(top)
  /\ assigned' = [assigned EXCEPT ![top] = i]
  /\ estLatency' = [estLatency EXCEPT ![i] = @ + sccLatency[top]]
  /\ Q' = [s \in SCC |->
             (IF s = top THEN Q[s] - 1 ELSE Q[s])
             + (IF s \in Dependents(top) /\ CanSchedule(s, assigned') THEN 1 ELSE 0)]
  /\ i' = IF StageFull(estLatency'[i]) THEN i + 1 ELSE i
  /\ UNCHANGED <<input, part, pc>>

\* The queue ran empty before the stage was full.
NextThread ==
  /\ pc = "schedule" /\ MoreStages
  /\ QEmpty
  /\ i' = i + 1
  /\ UNCHANGED <<input, assigned, estLatency, Q, part, pc>>

\* The part vectors are filled; a component out of range is a fatal error.
FillParts ==
  /\ pc = "schedule" /\ i = MAX_THREAD
  /\ IF \A s \in SCC : assigned[s] \in Thread
     THEN /\ part' = [t \in Thread |-> {s \in SCC : assigned[s] = t}]
          /\ pc' = "done"
     ELSE pc' = "error" /\ UNCHANGED part
  /\ UNCHANGED <<input, assigned, estLatency, Q, i>>

\* threadPartition has returned, or the process has exited.
Stopped == pc \in {"done", "error"} /\ UNCHANGED vars

Next == \/ (\E l \in Latencies : Measure(l)) \/ Start
        \/ (\E s \in SCC : Schedule(s)) \/ NextThread \/ FillParts
        \/ Stopped

Spec == Init /\ [][Next]_vars
FairSpec == Spec /\ WF_vars(Next)   \* sequential code keeps running
-----------------------------------------------------------------------------
(* Properties *)

\* Type invariant of threadPartition's state: no index of assigned, estLatency or
\* part leaves its array, and a component is unassigned (-2) or on a stage.
TypeOK ==
  /\ dag \subseteq DagEdges
  /\ sccLatency \in [SCC -> Nat]
  /\ measured \in 0..sccNum /\ totalLatency \in Nat /\ averLatency \in Nat
  /\ assigned \in [SCC -> {-2} \cup Thread]
  /\ estLatency \in [Thread -> Nat]
  /\ Q \in [SCC -> Nat]
  /\ i \in 0..MAX_THREAD
  /\ part \in [Thread -> SUBSET SCC]
  /\ pc \in {"measure", "schedule", "done", "error"}

\* Values flow down the pipeline only: a component is never on an earlier stage
\* than one it depends on.  insertSynchronization relies on it, it drops every
\* dependence that "goes the other way" (DSWP_5.cpp:18-19).
DependencesFlowForward ==
  \A e \in dag : assigned[e[2]] # -2 => /\ assigned[e[1]] # -2
                                        /\ assigned[e[1]] <= assigned[e[2]]

\* No component is queued twice or queued after it was assigned, although
\* nothing marks a component as queued (the value -1 of the comment in
\* DSWP_3.cpp:38 is never stored).
QueuedOnce == \A s \in SCC : Q[s] > 0 => Q[s] = 1 /\ assigned[s] = -2

\* When the code is done every component is on exactly one stage, so the call
\* of error() is unreachable and no instruction of the loop is dropped.
EveryComponentPlaced ==
  /\ pc # "error"
  /\ pc = "done" => \A s \in SCC : Cardinality({t \in Thread : s \in part[t]}) = 1

\* A stage that gets less than its share, or nothing, is followed by empty
\* stages only.  loopSplit relies on it: it returns, rather than continues with
\* the next stage, when it meets a stage with no code (DSWP_4.cpp:230-238).
ShortStagesTrail ==
  pc = "done" => \A t, u \in Thread :
                   /\ t < u
                   /\ part[t] = {} \/ estLatency[t] < averLatency
                   => part[u] = {}

\* A stage other than the last is at most one component over its share: some
\* component of it is such that the others, if any, are below the share.
LoadBalanced ==
  pc = "done" => \A t \in Thread \ {MAX_THREAD - 1} :
                   part[t] # {} => \E s \in part[t] :
                     \/ part[t] = {s}
                     \/ estLatency[t] - sccLatency[s] < averLatency

\* The partition ends, with all stages filled.
Terminates == <>(pc = "done")
=============================================================================
