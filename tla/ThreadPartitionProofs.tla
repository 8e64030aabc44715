------------------------ MODULE ThreadPartitionProofs ------------------------
(* Proofs about module ThreadPartition, for any number of stages, any DAG of  *)
(* components and any latencies.                                              *)
EXTENDS ThreadPartition, FiniteSetTheorems, WellFoundedInduction, TLAPS

-----------------------------------------------------------------------------
(* The inductive invariant *)

Assigned(s) == assigned[s] # -2

\* A component is in the queue once, and only while it is ready: not assigned,
\* and behind components that are.
QueueInv ==
  \A s \in SCC : Q[s] # 0 => /\ Q[s] = 1 /\ ~Assigned(s)
                             /\ \A u \in Parents(s) : Assigned(u)

\* Nothing is queued or assigned before the latencies are known.
MeasureInv == pc = "measure" => /\ i = 0 /\ QEmpty /\ \A s \in SCC : ~Assigned(s)

\* No ready component is forgotten, although a component is looked at only when
\* one of its parents is assigned.
ReadyInv ==
  pc # "measure" =>
  \A s \in SCC : ~Assigned(s) /\ (\A u \in Parents(s) : Assigned(u)) => Q[s] = 1

\* What is assigned is on a stage reached, behind everything it depends on.
AssignedInv ==
  \A s \in SCC : Assigned(s) =>
    /\ assigned[s] <= i
    /\ \A u \in Parents(s) : Assigned(u) /\ assigned[u] <= assigned[s]

\* The last stage is left only when nothing is queued.
EndInv == i = MAX_THREAD => QEmpty

\* The part vectors are what the assignment says.
PartInv ==
  /\ pc # "error"
  /\ pc = "done" => /\ i = MAX_THREAD
                    /\ part = [t \in Thread |-> {s \in SCC : assigned[s] = t}]

IInv == /\ TypeOK /\ MeasureInv /\ QueueInv /\ ReadyInv /\ AssignedInv
        /\ EndInv /\ PartInv
-----------------------------------------------------------------------------
(* Edges lead to higher numbers, so when nothing is ready nothing is left.   *)

LEMMA LeastElement ==
  ASSUME NEW S \in SUBSET Nat, S # {} PROVE \E m \in S : \A k \in S : m <= k
<1>1. PICK R : R = {ss \in Nat \X Nat : ss[1] < ss[2]}
  OBVIOUS
<1>2. IsWellFoundedOn(R, Nat)
  BY <1>1, NatLessThanWellFounded DEF OpToRel
<1>3. PICK m \in S : \A k \in S : <<k, m>> \notin R
  BY <1>2, WFMin
<1>4. ASSUME NEW k \in S PROVE m <= k
  <2>1. m \in Nat /\ k \in Nat /\ ~(k < m)
    BY <1>1, <1>3
  <2> QED
    BY <2>1
<1> QED
  BY <1>3, <1>4

LEMMA AllAssigned ==
  ASSUME TypeOK, ReadyInv, QEmpty, pc # "measure" PROVE \A s \in SCC : Assigned(s)
<1> DEFINE U == {s \in SCC : ~Assigned(s)}
<1> SUFFICES ASSUME U # {} PROVE FALSE
  OBVIOUS
<1>1. U \subseteq Nat
  BY DEF SCC
<1>2. PICK m \in U : \A k \in U : m <= k
  BY <1>1, LeastElement
<1>3. ASSUME NEW u \in Parents(m) PROVE Assigned(u)
  <2>1. u \in SCC /\ u < m
    BY <1>3 DEF Parents, TypeOK, DagEdges
  <2>2. u \in Nat /\ m \in Nat /\ ~(m <= u)
    BY <1>1, <2>1 DEF SCC
  <2> QED
    BY <1>2, <2>1, <2>2
<1>4. Q[m] = 1
  BY <1>2, <1>3 DEF ReadyInv
<1> QED
  BY <1>2, <1>4 DEF QEmpty
-----------------------------------------------------------------------------
(* The invariant is inductive *)

LEMMA InitIInv == Init => IInv
<1> SUFFICES ASSUME Init PROVE IInv
  OBVIOUS
<1> USE PartitionAssumption DEF Init
<1>1. TypeOK
  BY DEF TypeOK, Thread, SCC
<1>2. QueueInv /\ ReadyInv /\ MeasureInv
  BY DEF QueueInv, ReadyInv, MeasureInv, QEmpty, Assigned
<1>3. AssignedInv /\ EndInv /\ PartInv
  BY DEF AssignedInv, EndInv, PartInv, Assigned
<1> QED
  BY <1>1, <1>2, <1>3 DEF IInv
LEMMA MeasureIInv == ASSUME IInv, NEW l \in Latencies, Measure(l) PROVE IInv'
<1> USE PartitionAssumption DEF IInv, Measure
<1>1. TypeOK'
  <2>1. measured \in SCC /\ l \in Nat
    BY DEF TypeOK, SCC
  <2> QED
    BY <2>1 DEF TypeOK
<1>2. MeasureInv' /\ QueueInv' /\ ReadyInv'
  BY DEF MeasureInv, QueueInv, ReadyInv, QEmpty, Assigned, Parents
<1>3. AssignedInv' /\ EndInv' /\ PartInv'
  BY DEF AssignedInv, EndInv, PartInv, QEmpty, Assigned, Parents
<1> QED
  BY <1>1, <1>2, <1>3

LEMMA StartIInv == ASSUME IInv, Start PROVE IInv'
<1> USE PartitionAssumption DEF IInv, Start
<1>1. TypeOK'
  <2>1. totalLatency \div MAX_THREAD \in Nat
    BY SMTT(30) DEF TypeOK
  <2>2. Q' \in [SCC -> Nat]
    OBVIOUS
  <2> QED
    BY <2>1, <2>2 DEF TypeOK
<1>2. MeasureInv' /\ QueueInv' /\ ReadyInv'
  BY DEF MeasureInv, QueueInv, ReadyInv, QEmpty, Assigned, Parents, Seed
<1>3. AssignedInv' /\ EndInv' /\ PartInv'
  BY DEF MeasureInv, AssignedInv, EndInv, PartInv, Assigned, Parents
<1> QED
  BY <1>1, <1>2, <1>3

LEMMA ScheduleIInv ==
  ASSUME IInv, NEW top \in SCC, Schedule(top) PROVE IInv'
<1> USE PartitionAssumption DEF IInv
<1>1. /\ top \in SCC /\ i \in Thread /\ Q[top] = 1 /\ ~Assigned(top)
      /\ \A u \in Parents(top) : Assigned(u)
  BY DEF Schedule, MoreStages, IsTop, QueueInv, TypeOK, Thread
<1>2. /\ assigned' = [assigned EXCEPT ![top] = i]
      /\ estLatency' = [estLatency EXCEPT ![i] = @ + sccLatency[top]]
      /\ dag' = dag /\ sccLatency' = sccLatency /\ part' = part
      /\ pc = "schedule" /\ pc' = pc
      /\ measured' = measured /\ totalLatency' = totalLatency
      /\ averLatency' = averLatency
      /\ i' \in {i, i + 1} /\ (i' = i + 1 => i # MAX_THREAD - 1)
  BY DEF Schedule, input, StageFull
<1>3. /\ Assigned(top)' /\ assigned'[top] = i
      /\ \A s \in SCC : s # top => assigned'[s] = assigned[s] /\ (Assigned(s)' <=> Assigned(s))
      /\ \A s \in SCC : assigned'[s] >= 0 <=> Assigned(s)'
  BY <1>1, <1>2 DEF TypeOK, Assigned, Thread
<1>4. \A s \in SCC : Parents(s)' = Parents(s) /\ Parents(s) \subseteq SCC /\ s \notin Parents(s)
  BY <1>2 DEF Parents, TypeOK, DagEdges, SCC
<1>5. \A s \in SCC : s \in Dependents(top) <=> top \in Parents(s)
  BY DEF Dependents, Parents
<1>6. Q'[top] = 0
  <2>1. top \notin Dependents(top)
    BY <1>4, <1>5
  <2> QED
    BY <1>1, <2>1 DEF Schedule
<1>7. ASSUME NEW s \in SCC, s # top
      PROVE  Q'[s] = IF top \in Parents(s) /\ ~Assigned(s)
                        /\ \A u \in Parents(s) : Assigned(u)'
                     THEN 1 ELSE Q[s]
  <2>1. CanSchedule(s, assigned') <=> ~Assigned(s) /\ \A u \in Parents(s) : Assigned(u)'
    BY <1>3, <1>4, <1>7 DEF CanSchedule, Assigned
  <2>2. Q'[s] = Q[s] + (IF s \in Dependents(top) /\ CanSchedule(s, assigned') THEN 1 ELSE 0)
    BY <1>7 DEF Schedule
  <2>3. top \in Parents(s) => Q[s] = 0
    BY <1>1, <1>7 DEF QueueInv
  <2>4. Q[s] \in Nat
    BY DEF TypeOK
  <2> QED
    BY <1>5, <2>1, <2>2, <2>3, <2>4
<1>8. TypeOK'
  <2>1. sccLatency[top] \in Nat /\ estLatency[i] \in Nat
    BY <1>1 DEF TypeOK
  <2>2. estLatency' \in [Thread -> Nat] /\ assigned' \in [SCC -> {-2} \cup Thread]
    BY <1>1, <1>2, <2>1 DEF TypeOK
  <2>3. Q' \in [SCC -> Nat]
    <3>1. \A s \in SCC : Q'[s] \in Nat
      BY <1>6, <1>7 DEF TypeOK
    <3> QED
      BY <3>1 DEF Schedule
  <2>4. i' \in 0..MAX_THREAD
    BY <1>1, <1>2 DEF Thread
  <2> QED
    BY <1>2, <2>2, <2>3, <2>4 DEF TypeOK
<1>9. QueueInv'
  <2> SUFFICES ASSUME NEW s \in SCC, Q'[s] # 0
               PROVE  Q'[s] = 1 /\ ~Assigned(s)' /\ \A u \in Parents(s) : Assigned(u)'
    BY <1>4 DEF QueueInv
  <2>1. s # top
    BY <1>6
  <2>2. CASE Q[s] # 0
    BY <1>3, <1>4, <1>7, <2>1, <2>2 DEF QueueInv
  <2>3. CASE Q[s] = 0
    BY <1>3, <1>7, <2>1, <2>3
  <2> QED
    BY <2>2, <2>3
<1>10. ReadyInv'
  <2> SUFFICES ASSUME NEW s \in SCC, ~Assigned(s)', \A u \in Parents(s) : Assigned(u)'
               PROVE  Q'[s] = 1
    BY <1>4 DEF ReadyInv
  <2>0. pc # "measure"
    BY <1>2
  <2>1. s # top /\ ~Assigned(s)
    BY <1>3
  <2>2. CASE top \in Parents(s)
    BY <1>7, <2>1, <2>2
  <2>3. CASE top \notin Parents(s)
    <3>1. \A u \in Parents(s) : Assigned(u)
      BY <1>3, <1>4, <2>3
    <3> QED
      BY <1>7, <2>0, <2>1, <2>3, <3>1 DEF ReadyInv
  <2> QED
    BY <2>2, <2>3
<1>11. AssignedInv'
  <2> SUFFICES ASSUME NEW s \in SCC, Assigned(s)'
               PROVE  /\ assigned'[s] <= i'
                      /\ \A u \in Parents(s) : Assigned(u)' /\ assigned'[u] <= assigned'[s]
    BY <1>4 DEF AssignedInv
  <2>0. i \in Int /\ i <= i' /\ i' \in Int
    BY <1>1, <1>2 DEF Thread
  <2>1. CASE s = top
    <3>1. \A u \in Parents(top) : /\ u # top /\ u \in SCC /\ Assigned(u)
                                  /\ assigned[u] <= i
      BY <1>1, <1>4 DEF AssignedInv
    <3> QED
      BY <1>3, <2>0, <2>1, <3>1
  <2>2. CASE s # top
    <3>1. Assigned(s)
      BY <1>3, <2>2
    <3>2. assigned[s] <= i /\ assigned[s] \in Int
      BY <3>1 DEF AssignedInv, TypeOK, Thread
    <3>3. \A u \in Parents(s) : /\ u # top /\ u \in SCC /\ Assigned(u)
                                /\ assigned[u] <= assigned[s]
      BY <1>1, <1>4, <3>1 DEF AssignedInv
    <3> QED
      BY <1>3, <2>0, <2>2, <3>2, <3>3
  <2> QED
    BY <2>1, <2>2
<1>12. MeasureInv' /\ EndInv' /\ PartInv'
  BY <1>1, <1>2 DEF MeasureInv, EndInv, PartInv, Thread
<1> QED
  BY <1>8, <1>9, <1>10, <1>11, <1>12

LEMMA NextThreadIInv == ASSUME IInv, NextThread PROVE IInv'
<1> USE PartitionAssumption DEF IInv, NextThread, MoreStages, input
<1>1. TypeOK'
  BY DEF TypeOK
<1>2. QueueInv' /\ ReadyInv'
  BY DEF QueueInv, ReadyInv, Assigned, Parents
<1>3. AssignedInv'
  <2>1. \A s \in SCC : Assigned(s) => assigned[s] \in Int /\ assigned[s] <= i'
    BY DEF TypeOK, AssignedInv, Thread, Assigned
  <2> QED
    BY <2>1 DEF AssignedInv, Assigned, Parents
<1>4. MeasureInv' /\ EndInv' /\ PartInv'
  BY DEF MeasureInv, EndInv, PartInv, QEmpty
<1> QED
  BY <1>1, <1>2, <1>3, <1>4

LEMMA FillPartsIInv == ASSUME IInv, FillParts PROVE IInv'
<1> USE PartitionAssumption DEF IInv
<1>1. \A s \in SCC : assigned[s] \in Thread
  BY AllAssigned DEF EndInv, FillParts, TypeOK, Assigned
<1>2. /\ part' = [t \in Thread |-> {s \in SCC : assigned[s] = t}]
      /\ pc' = "done" /\ i = MAX_THREAD
      /\ UNCHANGED <<dag, sccLatency, measured, totalLatency, averLatency, assigned, estLatency, Q, i>>
  BY <1>1 DEF FillParts, input
<1>3. TypeOK'
  BY <1>2 DEF TypeOK
<1>4. QueueInv' /\ ReadyInv' /\ AssignedInv' /\ EndInv'
  <2>1. pc # "measure"
    BY DEF FillParts
  <2>2. QueueInv' /\ EndInv'
    BY <1>2 DEF QueueInv, EndInv, QEmpty, Assigned, Parents
  <2>3. ReadyInv'
    BY <1>2, <2>1 DEF ReadyInv, Assigned, Parents
  <2>4. AssignedInv'
    BY <1>2 DEF AssignedInv, Assigned, Parents
  <2> QED
    BY <2>2, <2>3, <2>4
<1>5. MeasureInv' /\ PartInv'
  BY <1>2 DEF MeasureInv, PartInv
<1> QED
  BY <1>3, <1>4, <1>5

LEMMA NextIInv == IInv /\ [Next]_vars => IInv'
<1> SUFFICES ASSUME IInv, [Next]_vars PROVE IInv'
  OBVIOUS
<1>1. CASE UNCHANGED vars
  BY <1>1 DEF IInv, TypeOK, MeasureInv, QueueInv, ReadyInv, AssignedInv, EndInv, PartInv,
              QEmpty, Assigned, Parents, vars
<1> QED
  BY <1>1, MeasureIInv, StartIInv, ScheduleIInv, NextThreadIInv, FillPartsIInv DEF Next, Stopped

THEOREM Invariance == Spec => []IInv
  BY InitIInv, NextIInv, PTL DEF Spec

\* Every variable of threadPartition keeps its type: in particular no index into
\* estLatency, assigned or part is out of bounds.
THEOREM TypeCorrect == Spec => []TypeOK
<1>1. IInv => TypeOK
  BY DEF IInv
<1> QED
  BY <1>1, Invariance, PTL

\* Whatever the DAG and the latencies, no component is put on an earlier stage
\* than a component it depends on.
THEOREM FlowForward == Spec => []DependencesFlowForward
<1>1. IInv => DependencesFlowForward
  BY DEF IInv, TypeOK, AssignedInv, Assigned, Parents, DependencesFlowForward, DagEdges
<1> QED
  BY <1>1, Invariance, PTL

\* The priority queue never holds a component twice, nor one that was assigned,
\* although the code marks nothing as queued.
THEOREM QueuedAtMostOnce == Spec => []QueuedOnce
<1>1. IInv => QueuedOnce
  BY DEF IInv, TypeOK, QueueInv, Assigned, QueuedOnce
<1> QED
  BY <1>1, Invariance, PTL

\* The error branch of threadPartition is dead code: the loop never ends with a
\* component unassigned, and each ends up in the part of exactly one stage.
THEOREM AllPlaced == Spec => []EveryComponentPlaced
<1>1. IInv => EveryComponentPlaced
  <2> SUFFICES ASSUME IInv PROVE EveryComponentPlaced
    OBVIOUS
  <2>1. ASSUME pc = "done", NEW s \in SCC
        PROVE  Cardinality({t \in Thread : s \in part[t]}) = 1
    <3>1. assigned[s] \in Thread
      BY <2>1, AllAssigned DEF IInv, PartInv, EndInv, TypeOK, Assigned
    <3>2. {t \in Thread : s \in part[t]} = {assigned[s]}
      BY <2>1, <3>1 DEF IInv, PartInv
    <3> QED
      BY <3>2, FS_Singleton
  <2> QED
    BY <2>1 DEF EveryComponentPlaced, IInv, PartInv
<1> QED
  BY <1>1, Invariance, PTL
-----------------------------------------------------------------------------
(* Load balance *)

Empty(t) == \A s \in SCC : assigned[s] # t

\* A stage that was left short, or empty, was left because nothing remained.
ShortInv ==
  \A t \in Thread \ {MAX_THREAD - 1} :
    t < i /\ (Empty(t) \/ estLatency[t] < averLatency) =>
      QEmpty /\ \A s \in SCC : assigned[s] <= t

\* The stage being filled is still below its share, or empty.
OpenInv ==
  pc = "schedule" /\ i < MAX_THREAD - 1 => Empty(i) \/ estLatency[i] < averLatency

\* Component s takes stage t over its share, if anything does.
Tips(s, t) ==
  /\ assigned[s] = t
  /\ \/ \A r \in SCC : assigned[r] = t => r = s
     \/ estLatency[t] - sccLatency[s] < averLatency

LoadInv ==
  \A t \in Thread \ {MAX_THREAD - 1} :
    t < i => Empty(t) \/ \E s \in SCC : Tips(s, t)

BInv == ShortInv /\ OpenInv /\ LoadInv

LEMMA InitBInv == Init => BInv
  BY PartitionAssumption DEF Init, BInv, ShortInv, OpenInv, LoadInv, Thread

LEMMA ScheduleBInv ==
  ASSUME IInv, BInv, NEW top \in SCC, Schedule(top) PROVE BInv'
<1> USE PartitionAssumption
<1>1. /\ i \in Thread /\ ~QEmpty /\ ~Assigned(top) /\ pc = "schedule" /\ pc' = pc
      /\ assigned' = [assigned EXCEPT ![top] = i]
      /\ estLatency' = [estLatency EXCEPT ![i] = @ + sccLatency[top]]
      /\ sccLatency' = sccLatency /\ averLatency' = averLatency
  BY DEF Schedule, MoreStages, IsTop, input, IInv, TypeOK, QueueInv, QEmpty, Thread
<1>2. i' = IF estLatency'[i] >= averLatency /\ i # MAX_THREAD - 1 THEN i + 1 ELSE i
  BY DEF Schedule, StageFull
<1>3. /\ i \in Nat /\ i' \in Nat /\ averLatency \in Nat
      /\ estLatency[i] \in Nat /\ sccLatency[top] \in Nat
      /\ estLatency'[i] = estLatency[i] + sccLatency[top]
      /\ \A t \in Thread : t # i => estLatency'[t] = estLatency[t]
  BY <1>1, <1>2 DEF IInv, TypeOK, Thread
<1>4. /\ assigned'[top] = i
      /\ \A s \in SCC : s # top => assigned'[s] = assigned[s]
  BY <1>1 DEF IInv, TypeOK
<1>5. \A t \in Thread : t # i => (Empty(t)' <=> Empty(t))
  BY <1>1, <1>4 DEF Empty, Assigned, IInv, TypeOK, Thread
<1>6. \A t \in Thread : t = i => ~Empty(t)'
  BY <1>4 DEF Empty
<1>7. ShortInv'
  <2> SUFFICES ASSUME NEW t \in Thread \ {MAX_THREAD - 1}, t < i',
                      Empty(t)' \/ estLatency'[t] < averLatency
               PROVE  FALSE
    BY <1>1 DEF ShortInv
  <2>1. CASE t = i
    BY <1>2, <1>3, <1>6, <2>1
  <2>2. CASE t # i
    <3>1. t < i
      BY <1>2, <1>3, <2>2 DEF Thread
    <3> QED
      BY <1>1, <1>3, <1>5, <2>2, <3>1 DEF BInv, ShortInv
  <2> QED
    BY <2>1, <2>2
<1>8. OpenInv'
  <2>1. CASE i' = i
    BY <1>1, <1>2, <1>3, <2>1 DEF OpenInv
  <2>2. CASE i' = i + 1
    <3>1. \A s \in SCC : assigned[s] # i + 1
      BY <1>3 DEF IInv, AssignedInv, Assigned
    <3>2. \A s \in SCC : assigned'[s] # i'
      BY <1>3, <1>4, <2>2, <3>1
    <3> QED
      BY <3>2 DEF OpenInv, Empty
  <2> QED
    BY <1>2, <2>1, <2>2
<1>9. LoadInv'
  <2> SUFFICES ASSUME NEW t \in Thread \ {MAX_THREAD - 1}, t < i', ~Empty(t)'
               PROVE  \E s \in SCC : Tips(s, t)'
    BY DEF LoadInv
  <2>1. CASE t = i
    <3>1. Empty(i) \/ estLatency[i] < averLatency
      BY <1>1, <2>1 DEF BInv, OpenInv, Thread
    <3>2. Tips(top, t)'
      <4>1. CASE Empty(i)
        BY <1>4, <2>1, <4>1 DEF Tips, Empty
      <4>2. CASE estLatency[i] < averLatency
        BY <1>1, <1>3, <1>4, <2>1, <4>2 DEF Tips
      <4> QED
        BY <3>1, <4>1, <4>2
    <3> QED
      BY <3>2
  <2>2. CASE t # i
    <3>1. t < i /\ ~Empty(t)
      BY <1>2, <1>3, <1>5, <2>2 DEF Thread
    <3>2. PICK s \in SCC : Tips(s, t)
      BY <3>1 DEF BInv, LoadInv
    <3>3. s # top /\ \A r \in SCC : assigned'[r] = t => r # top
      BY <1>1, <1>4, <2>2, <3>2 DEF Tips, Assigned, Thread
    <3>4. Tips(s, t)'
      BY <1>1, <1>3, <1>4, <2>2, <3>2, <3>3 DEF Tips
    <3> QED
      BY <3>4
  <2> QED
    BY <2>1, <2>2
<1> QED
  BY <1>7, <1>8, <1>9 DEF BInv

LEMMA NextThreadBInv == ASSUME IInv, BInv, NextThread PROVE BInv'
<1> USE PartitionAssumption
<1>1. /\ i \in Thread /\ i \in Nat /\ QEmpty /\ QEmpty' /\ i' = i + 1
      /\ pc = "schedule" /\ pc' = pc
      /\ UNCHANGED <<assigned, estLatency, sccLatency, averLatency, Q>>
  BY DEF NextThread, MoreStages, input, QEmpty, IInv, TypeOK, Thread
<1>2. \A s \in SCC : assigned[s] \in Int /\ assigned[s] <= i
  BY <1>1 DEF IInv, AssignedInv, Assigned, TypeOK, Thread
<1>3. ShortInv'
  <2> SUFFICES ASSUME NEW t \in Thread \ {MAX_THREAD - 1}, t < i',
                      Empty(t) \/ estLatency[t] < averLatency
               PROVE  \A s \in SCC : assigned[s] <= t
    BY <1>1 DEF ShortInv, Empty
  <2>1. t = i \/ t < i
    BY <1>1 DEF Thread
  <2> QED
    BY <1>2, <2>1 DEF BInv, ShortInv
<1>4. OpenInv'
  <2>1. \A s \in SCC : assigned'[s] # i'
    BY <1>1, <1>2
  <2> QED
    BY <2>1 DEF OpenInv, Empty
<1>5. LoadInv'
  <2> SUFFICES ASSUME NEW t \in Thread \ {MAX_THREAD - 1}, t < i', ~Empty(t)
               PROVE  \E s \in SCC : Tips(s, t)
    BY <1>1 DEF LoadInv, Empty, Tips
  <2>1. CASE t < i
    BY <2>1 DEF BInv, LoadInv
  <2>2. CASE t = i
    <3>1. estLatency[i] < averLatency
      BY <1>1, <2>2 DEF BInv, OpenInv, Thread
    <3>2. PICK s \in SCC : assigned[s] = i
      BY <2>2 DEF Empty
    <3>3. estLatency[i] \in Nat /\ averLatency \in Nat /\ sccLatency[s] \in Nat
      BY <1>1 DEF IInv, TypeOK
    <3> QED
      BY <2>2, <3>1, <3>2, <3>3 DEF Tips
  <2> QED
    BY <1>1, <2>1, <2>2 DEF Thread
<1> QED
  BY <1>3, <1>4, <1>5 DEF BInv

LEMMA NextBInv == IInv /\ BInv /\ [Next]_vars => BInv'
<1> SUFFICES ASSUME IInv, BInv, [Next]_vars PROVE BInv'
  OBVIOUS
<1>1. ASSUME NEW l \in Latencies, Measure(l) PROVE BInv'
  BY <1>1, PartitionAssumption DEF Measure, IInv, MeasureInv, BInv, ShortInv, OpenInv,
     LoadInv, Thread
<1>2. CASE Start
  BY <1>2, PartitionAssumption DEF Start, IInv, MeasureInv, BInv, ShortInv, OpenInv,
     LoadInv, Thread, Assigned, Empty, TypeOK
<1>3. CASE FillParts
  BY <1>3 DEF FillParts, input, BInv, ShortInv, OpenInv, LoadInv, QEmpty, Empty, Tips
<1>4. CASE UNCHANGED vars
  BY <1>4 DEF vars, BInv, ShortInv, OpenInv, LoadInv, QEmpty, Empty, Tips
<1> QED
  BY <1>1, <1>2, <1>3, <1>4, ScheduleBInv, NextThreadBInv DEF Next, Stopped

THEOREM Balance == Spec => []BInv
  BY Invariance, InitBInv, NextBInv, PTL DEF Spec

\* Stages that get less than their share are followed by empty ones only: no
\* stage is left short or empty while there is work for a later one.
THEOREM ShortAreLast == Spec => []ShortStagesTrail
<1>1. IInv /\ BInv => ShortStagesTrail
  <2> SUFFICES ASSUME IInv, BInv, pc = "done",
                      NEW t \in Thread, NEW u \in Thread, t < u,
                      part[t] = {} \/ estLatency[t] < averLatency
               PROVE  part[u] = {}
    BY DEF ShortStagesTrail
  <2>1. /\ i = MAX_THREAD /\ t < i /\ t # MAX_THREAD - 1
        /\ part[t] = {s \in SCC : assigned[s] = t}
        /\ part[u] = {s \in SCC : assigned[s] = u}
    BY PartitionAssumption DEF IInv, PartInv, Thread
  <2>2. \A s \in SCC : assigned[s] <= t
    BY <2>1 DEF BInv, ShortInv, Empty
  <2> QED
    BY <2>1, <2>2 DEF Thread
<1> QED
  BY <1>1, Invariance, Balance, PTL

\* No stage but the last is over its share by a whole component or more.
THEOREM Balanced == Spec => []LoadBalanced
<1>1. IInv /\ BInv => LoadBalanced
  <2> SUFFICES ASSUME IInv, BInv, pc = "done",
                      NEW t \in Thread \ {MAX_THREAD - 1}, part[t] # {}
               PROVE  \E s \in part[t] : \/ part[t] = {s}
                                         \/ estLatency[t] - sccLatency[s] < averLatency
    BY DEF LoadBalanced
  <2>1. t < i /\ part[t] = {s \in SCC : assigned[s] = t}
    BY PartitionAssumption DEF IInv, PartInv, Thread
  <2>2. PICK s \in SCC : Tips(s, t)
    BY <2>1 DEF BInv, LoadInv, Empty
  <2> QED
    BY <2>1, <2>2 DEF Tips
<1> QED
  BY <1>1, Invariance, Balance, PTL
==============================================================================
