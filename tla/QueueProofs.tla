---------------------------- MODULE QueueProofs ----------------------------
(* Proofs about module Queue, for any number of producers and consumers, any *)
(* capacity, and any number of calls.                                        *)
EXTENDS Queue, FiniteSetTheorems, SequenceTheorems, TLAPS

-----------------------------------------------------------------------------
(* The inductive invariant *)

\* The mutex is held by the thread, if any, that is in the critical section.
MutexInv == \A t \in Threads : pc[t] \in Locked <=> mutex = t

\* Blocked threads are on a condition variable, and only they.
BlockedInv == \A t \in Threads : pc[t] = "blocked" <=> t \in empty_cvar \cup full_cvar

\* What the while conditions established still holds when it is used.
CapacityInv ==
  /\ \A p \in Producers : pc[p] \in {"access", "update"} => size < QUEUE_MAXLEN
  /\ \A c \in Consumers : pc[c] \in {"access", "update"} => size > 0

\* The slot that is about to become live is written, the one that is about to
\* be given up was read.
TransferInv ==
  /\ \A p \in Producers : pc[p] = "update" => arr[tail] = Elt(p)
  /\ \A c \in Consumers : pc[c] = "update" => ret_val[c] = arr[head]
  /\ \A c \in Consumers : pc[c] \in {"signal", "unlock"} => ret_val[c] \in Elem

IInv == /\ TypeOK /\ MutexInv /\ BlockedInv /\ CapacityInv
        /\ TransferInv /\ RingConsistent
-----------------------------------------------------------------------------
(* Arithmetic of the ring *)

LEMMA SuccType == ASSUME NEW s \in Slots PROVE Succ(s) \in Slots
  BY QueueAssumption, SMTT(30) DEF Slots, Succ

LEMMA SlotMod == ASSUME NEW h \in Slots PROVE (h + 0) % QUEUE_MAXLEN = h
  BY QueueAssumption, SMTT(30) DEF Slots

LEMMA SlotType == ASSUME NEW h \in Slots, NEW k \in Nat
                  PROVE (h + k) % QUEUE_MAXLEN \in Slots
  BY QueueAssumption, SMTT(30) DEF Slots

\* Adding at the back keeps the indices in step.
LEMMA SuccTail == ASSUME NEW h \in Slots, NEW n \in 0..QUEUE_MAXLEN,
                         NEW s \in Slots, s = (h + n) % QUEUE_MAXLEN
                  PROVE Succ(s) = (h + (n + 1)) % QUEUE_MAXLEN
  BY QueueAssumption, SMTT(30) DEF Slots, Succ

\* Slot k after the successor of h is slot k + 1 after h.
LEMMA SuccHead == ASSUME NEW h \in Slots, NEW k \in 0..QUEUE_MAXLEN
                  PROVE (Succ(h) + k) % QUEUE_MAXLEN = (h + (k + 1)) % QUEUE_MAXLEN
  BY QueueAssumption, SMTT(30) DEF Slots, Succ

\* The free slot at the back is none of the live ones.
LEMMA TailFree == ASSUME NEW h \in Slots, NEW n \in 0..QUEUE_MAXLEN - 1,
                         NEW k \in 0..n - 1
                  PROVE (h + k) % QUEUE_MAXLEN # (h + n) % QUEUE_MAXLEN
  BY QueueAssumption, SMTT(30) DEF Slots

LEMMA EltType == ASSUME TypeOK, NEW p \in Producers PROVE Elt(p) \in Elem
  BY DEF TypeOK, Elt, Elem, Threads
-----------------------------------------------------------------------------
(* The invariant is inductive *)

LEMMA InitIInv == Init => IInv
<1> SUFFICES ASSUME Init PROVE IInv
  OBVIOUS
<1> USE QueueAssumption DEF Init, queue_init
<1>1. TypeOK
  BY DEF TypeOK, Slots, Locations, Threads
<1>2. MutexInv /\ BlockedInv /\ CapacityInv /\ TransferInv
  BY DEF MutexInv, BlockedInv, CapacityInv, TransferInv, Locked, Threads
<1>3. RingConsistent
  BY SlotType, SMTT(30) DEF RingConsistent
<1> QED
  BY <1>1, <1>2, <1>3 DEF IInv

LEMMA EnterIInv == ASSUME IInv, NEW t \in Threads, Enter(t) PROVE IInv'
<1> USE DEF IInv, Enter, Goto, data, client
<1>1. TypeOK'
  BY DEF TypeOK, Locations
<1>2. MutexInv' /\ BlockedInv'
  BY DEF TypeOK, MutexInv, BlockedInv, Locked
<1>3. CapacityInv' /\ TransferInv'
  BY DEF TypeOK, CapacityInv, TransferInv, Threads, Elt
<1>4. RingConsistent'
  BY DEF RingConsistent
<1> QED
  BY <1>1, <1>2, <1>3, <1>4

LEMMA LockIInv == ASSUME IInv, NEW t \in Threads, Lock(t) PROVE IInv'
<1> USE DEF IInv, Lock, Goto, Acquire, data, client
<1>1. TypeOK'
  BY DEF TypeOK, Locations, Locked
<1>2. MutexInv' /\ BlockedInv'
  BY QueueAssumption DEF TypeOK, MutexInv, BlockedInv, Locked
<1>3. CapacityInv' /\ TransferInv'
  BY DEF TypeOK, CapacityInv, TransferInv, Threads, Elt
<1>4. RingConsistent'
  BY DEF RingConsistent
<1> QED
  BY <1>1, <1>2, <1>3, <1>4

LEMMA RelockIInv == ASSUME IInv, NEW t \in Threads, Relock(t) PROVE IInv'
<1> USE DEF IInv, Relock, AfterWait, Goto, Acquire, data, client
<1>1. TypeOK'
  BY DEF TypeOK, Locations, Locked
<1>2. MutexInv' /\ BlockedInv'
  BY QueueAssumption DEF TypeOK, MutexInv, BlockedInv, Locked
<1>3. CapacityInv' /\ TransferInv'
  BY DEF TypeOK, CapacityInv, TransferInv, Threads, Elt
<1>4. RingConsistent'
  BY DEF RingConsistent
<1> QED
  BY <1>1, <1>2, <1>3, <1>4

LEMMA SpuriousIInv == ASSUME IInv, NEW t \in Threads, SpuriousWakeup(t) PROVE IInv'
<1> USE DEF IInv, SpuriousWakeup, Goto, data, client
<1>1. TypeOK'
  BY DEF TypeOK, Locations
<1>2. MutexInv' /\ BlockedInv'
  BY DEF TypeOK, MutexInv, BlockedInv, Locked
<1>3. CapacityInv' /\ TransferInv'
  BY DEF TypeOK, CapacityInv, TransferInv, Threads, Elt
<1>4. RingConsistent'
  BY DEF RingConsistent
<1> QED
  BY <1>1, <1>2, <1>3, <1>4
LEMMA PushTestIInv == ASSUME IInv, NEW p \in Producers, PushTest(p) PROVE IInv'
<1> USE DEF IInv, PushTest, Goto, data, client, IsFull, Release
<1>1. TypeOK'
  BY DEF TypeOK, Locations, Locked, Threads
<1>2. MutexInv'
  BY QueueAssumption DEF TypeOK, MutexInv, Locked, Threads
<1>2a. BlockedInv'
  BY QueueAssumption DEF TypeOK, BlockedInv, Threads
<1>3. CapacityInv' /\ TransferInv'
  BY QueueAssumption DEF TypeOK, MutexInv, CapacityInv, TransferInv, Threads, Locked, Elt
<1>4. RingConsistent'
  BY DEF RingConsistent
<1> QED
  BY <1>1, <1>2, <1>2a, <1>3, <1>4

LEMMA PushAccessIInv == ASSUME IInv, NEW p \in Producers, PushAccess(p) PROVE IInv'
<1> USE DEF IInv, PushAccess, Goto, data, client
<1>1. TypeOK'
  BY EltType DEF TypeOK, Locations, Locked, Threads
<1>2. MutexInv' /\ BlockedInv'
  BY QueueAssumption DEF TypeOK, MutexInv, BlockedInv, Locked, Threads
<1>3. CapacityInv' /\ TransferInv'
  BY QueueAssumption DEF TypeOK, MutexInv, CapacityInv, TransferInv, Threads, Locked, Elt
<1>4. RingConsistent'
  <2>1. tail = (head + size) % QUEUE_MAXLEN
    BY DEF RingConsistent
  <2>2. head \in Slots /\ size \in 0..QUEUE_MAXLEN - 1
    BY QueueAssumption DEF TypeOK, CapacityInv
  <2>3. ASSUME NEW k \in 0..size - 1
        PROVE arr'[(head + k) % QUEUE_MAXLEN] \in Elem
    <3>1. (head + k) % QUEUE_MAXLEN \in Slots /\ (head + k) % QUEUE_MAXLEN # tail
      BY <2>1, <2>2, SlotType, TailFree
    <3> QED
      BY <3>1 DEF TypeOK, RingConsistent
  <2> QED
    BY <2>1, <2>3 DEF RingConsistent
<1> QED
  BY <1>1, <1>2, <1>3, <1>4

LEMMA PushUpdateIInv == ASSUME IInv, NEW p \in Producers, PushUpdate(p) PROVE IInv'
<1> USE DEF IInv, PushUpdate, Goto, data, client
<1>0. p \in Threads /\ size \in 0..QUEUE_MAXLEN - 1 /\ size + 1 \in 0..QUEUE_MAXLEN
  BY QueueAssumption DEF TypeOK, CapacityInv, Threads
<1>1. TypeOK'
  BY <1>0, SuccType DEF TypeOK, Locations, Locked
<1>2. MutexInv' /\ BlockedInv'
  BY QueueAssumption DEF TypeOK, MutexInv, BlockedInv, Locked, Threads
<1>3. CapacityInv' /\ TransferInv'
  BY QueueAssumption DEF TypeOK, MutexInv, CapacityInv, TransferInv, Threads, Locked, Elt
<1>4. RingConsistent'
  <2>1. tail = (head + size) % QUEUE_MAXLEN /\ head \in Slots /\ tail \in Slots
    BY DEF RingConsistent, TypeOK
  <2>2. tail' = (head + size') % QUEUE_MAXLEN
    <3>1. size \in 0..QUEUE_MAXLEN /\ tail' = Succ(tail) /\ size' = size + 1
      BY DEF TypeOK
    <3> QED
      BY <2>1, <3>1, SuccTail
  <2>3. ASSUME NEW k \in 0..size' - 1
        PROVE arr[(head + k) % QUEUE_MAXLEN] \in Elem
    <3>1. CASE k = size
      BY <2>1, <3>1, EltType DEF TransferInv
    <3>2. CASE k # size
      BY <1>0, <2>3, <3>2 DEF RingConsistent
    <3> QED
      BY <3>1, <3>2
  <2> QED
    BY <2>2, <2>3 DEF RingConsistent
<1> QED
  BY <1>1, <1>2, <1>3, <1>4

LEMMA PushSignalIInv == ASSUME IInv, NEW p \in Producers, PushSignal(p) PROVE IInv'
<1> USE DEF IInv, PushSignal, Goto, data, client, AfterSignal
<1>1. TypeOK'
  BY DEF TypeOK, Locations, Locked, Threads
<1>2. MutexInv' /\ BlockedInv'
  BY QueueAssumption DEF TypeOK, MutexInv, BlockedInv, Locked, Threads
<1>3. CapacityInv' /\ TransferInv'
  BY QueueAssumption DEF TypeOK, MutexInv, CapacityInv, TransferInv, Threads, Locked, Elt
<1>4. RingConsistent'
  BY DEF RingConsistent
<1> QED
  BY <1>1, <1>2, <1>3, <1>4

LEMMA PushUnlockIInv == ASSUME IInv, NEW p \in Producers, PushUnlock(p) PROVE IInv'
<1> USE DEF IInv, PushUnlock, Goto, data, client, Release
<1>1. TypeOK'
  BY DEF TypeOK, Locations, Locked, Threads
<1>2. MutexInv' /\ BlockedInv'
  BY QueueAssumption DEF TypeOK, MutexInv, BlockedInv, Locked, Threads
<1>3. CapacityInv' /\ TransferInv'
  BY QueueAssumption DEF TypeOK, MutexInv, CapacityInv, TransferInv, Threads, Locked, Elt
<1>4. RingConsistent'
  BY DEF RingConsistent
<1> QED
  BY <1>1, <1>2, <1>3, <1>4

LEMMA PopTestIInv == ASSUME IInv, NEW c \in Consumers, PopTest(c) PROVE IInv'
<1> USE DEF IInv, PopTest, Goto, data, client, Release
<1>1. TypeOK'
  BY DEF TypeOK, Locations, Locked, Threads
<1>2. MutexInv'
  BY QueueAssumption DEF TypeOK, MutexInv, Locked, Threads
<1>2a. BlockedInv'
  BY QueueAssumption DEF TypeOK, BlockedInv, Threads
<1>3. CapacityInv' /\ TransferInv'
  BY QueueAssumption DEF TypeOK, MutexInv, CapacityInv, TransferInv, Threads, Locked, Elt
<1>4. RingConsistent'
  BY DEF RingConsistent
<1> QED
  BY <1>1, <1>2, <1>2a, <1>3, <1>4

LEMMA PopAccessIInv == ASSUME IInv, NEW c \in Consumers, PopAccess(c) PROVE IInv'
<1> USE DEF IInv, PopAccess, Goto, data, client
<1>1. TypeOK'
  BY DEF TypeOK, Locations, Locked, Threads
<1>2. MutexInv' /\ BlockedInv'
  BY QueueAssumption DEF TypeOK, MutexInv, BlockedInv, Locked, Threads
<1>3. CapacityInv' /\ TransferInv'
  BY QueueAssumption DEF TypeOK, MutexInv, CapacityInv, TransferInv, Threads, Locked, Elt
<1>4. RingConsistent'
  BY DEF RingConsistent
<1> QED
  BY <1>1, <1>2, <1>3, <1>4

\* The slot at the head of a queue that is not empty was written.
LEMMA HeadWritten == ASSUME TypeOK, RingConsistent, size > 0 PROVE arr[head] \in Elem
<1>1. 0 \in 0..size - 1 /\ head \in Nat
  BY QueueAssumption DEF TypeOK, Slots
<1>2. (head + 0) % QUEUE_MAXLEN = head
  BY SlotMod DEF TypeOK
<1> QED
  BY <1>1, <1>2 DEF RingConsistent

LEMMA PopUpdateIInv == ASSUME IInv, NEW c \in Consumers, PopUpdate(c) PROVE IInv'
<1> USE DEF IInv, PopUpdate, Goto, data, client
<1>0. c \in Threads /\ size \in 1..QUEUE_MAXLEN /\ size - 1 \in 0..QUEUE_MAXLEN
  BY QueueAssumption DEF TypeOK, CapacityInv, Threads
<1>1. TypeOK'
  BY <1>0, SuccType DEF TypeOK, Locations, Locked
<1>2. MutexInv' /\ BlockedInv'
  BY QueueAssumption DEF TypeOK, MutexInv, BlockedInv, Locked, Threads
<1>3. CapacityInv'
  BY <1>0, QueueAssumption DEF TypeOK, MutexInv, CapacityInv, Threads, Locked
<1>4. TransferInv'
  <2>1. ret_val[c] \in Elem
    BY <1>0, HeadWritten DEF TransferInv
  <2>2. \A d \in Consumers : pc'[d] # "update"
    BY DEF TypeOK, MutexInv, Threads, Locked
  <2> QED
    BY <2>1, <2>2, QueueAssumption DEF TypeOK, TransferInv, Threads, Elt
<1>5. RingConsistent'
  <2>1. tail = (head + size) % QUEUE_MAXLEN
    BY DEF RingConsistent
  <2>2. (head' + size') % QUEUE_MAXLEN = (head + size) % QUEUE_MAXLEN
    BY <1>0, SuccHead DEF TypeOK
  <2>3. ASSUME NEW k \in 0..size' - 1
        PROVE arr[(head' + k) % QUEUE_MAXLEN] \in Elem
    <3>1. k \in 0..QUEUE_MAXLEN /\ k + 1 \in 0..size - 1
      BY <1>0, <2>3, QueueAssumption
    <3>2. (head' + k) % QUEUE_MAXLEN = (head + (k + 1)) % QUEUE_MAXLEN
      BY <3>1, SuccHead DEF TypeOK
    <3> QED
      BY <3>1, <3>2 DEF RingConsistent
  <2> QED
    BY <2>1, <2>2, <2>3 DEF RingConsistent
<1> QED
  BY <1>1, <1>2, <1>3, <1>4, <1>5

LEMMA PopSignalIInv == ASSUME IInv, NEW c \in Consumers, PopSignal(c) PROVE IInv'
<1> USE DEF IInv, PopSignal, Goto, data, client, AfterSignal
<1>1. TypeOK'
  BY DEF TypeOK, Locations, Locked, Threads
<1>2. MutexInv' /\ BlockedInv'
  BY QueueAssumption DEF TypeOK, MutexInv, BlockedInv, Locked, Threads
<1>3. CapacityInv' /\ TransferInv'
  BY QueueAssumption DEF TypeOK, MutexInv, CapacityInv, TransferInv, Threads, Locked, Elt
<1>4. RingConsistent'
  BY DEF RingConsistent
<1> QED
  BY <1>1, <1>2, <1>3, <1>4

LEMMA PopUnlockIInv == ASSUME IInv, NEW c \in Consumers, PopUnlock(c) PROVE IInv'
<1> USE DEF IInv, PopUnlock, Goto, data, client, Release
<1>1. TypeOK'
  BY DEF TypeOK, TransferInv, Locations, Locked, Threads
<1>2. MutexInv' /\ BlockedInv'
  BY QueueAssumption DEF TypeOK, MutexInv, BlockedInv, Locked, Threads
<1>3. CapacityInv' /\ TransferInv'
  BY QueueAssumption DEF TypeOK, MutexInv, CapacityInv, TransferInv, Threads, Locked, Elt
<1>4. RingConsistent'
  BY DEF RingConsistent
<1> QED
  BY <1>1, <1>2, <1>3, <1>4
LEMMA NextIInv == IInv /\ [Next]_vars => IInv'
<1> SUFFICES ASSUME IInv, [Next]_vars PROVE IInv'
  OBVIOUS
<1>1. ASSUME NEW t \in Threads, Step(t) PROVE IInv'
  <2>1. CASE Enter(t) \/ Lock(t) \/ Relock(t)
    BY <2>1, EnterIInv, LockIInv, RelockIInv
  <2>2. CASE t \in Producers /\ queue_push(t)
    BY <2>2, PushTestIInv, PushAccessIInv, PushUpdateIInv, PushSignalIInv,
       PushUnlockIInv DEF queue_push
  <2>3. CASE t \in Consumers /\ queue_pop(t)
    BY <2>3, PopTestIInv, PopAccessIInv, PopUpdateIInv, PopSignalIInv,
       PopUnlockIInv DEF queue_pop
  <2> QED
    BY <1>1, <2>1, <2>2, <2>3 DEF Step
<1>2. ASSUME NEW t \in Threads, SpuriousWakeup(t) PROVE IInv'
  BY <1>2, SpuriousIInv
<1>3. CASE UNCHANGED vars
  BY <1>3 DEF IInv, TypeOK, MutexInv, BlockedInv, CapacityInv, TransferInv,
              RingConsistent, Elt, vars
<1> QED
  BY <1>1, <1>2, <1>3 DEF Next, Finished

THEOREM Invariance == Spec => []IInv
<1> QED
  BY InitIInv, NextIInv, PTL DEF Spec

\* Every variable of the queue, of its mutex and condition variables and of its
\* users keeps its type; in particular queue_pop only ever returns elements that
\* were pushed, and size stays between 0 and QUEUE_MAXLEN.
THEOREM TypeCorrect == Spec => []TypeOK
<1>1. IInv => TypeOK
  BY DEF IInv
<1> QED
  BY <1>1, Invariance, PTL

\* The indices of the ring buffer agree and its live slots are written, at every
\* step of every call and not only when the mutex is free.
THEOREM RingCorrect == Spec => []RingConsistent
<1>1. IInv => RingConsistent
  BY DEF IInv
<1> QED
  BY <1>1, Invariance, PTL

\* At most one thread is between taking and releasing the mutex, so the fields
\* of queue_t are never accessed by two threads at once.
MutualExclusion ==
  \A t, u \in Threads : pc[t] \in Locked /\ pc[u] \in Locked => t = u

THEOREM MutexCorrect == Spec => []MutualExclusion
<1>1. IInv => MutualExclusion
  BY DEF IInv, MutexInv, MutualExclusion
<1> QED
  BY <1>1, Invariance, PTL
-----------------------------------------------------------------------------
(* No wakeup is lost.  The property is not inductive: what is preserved is a *)
(* count.  While somebody waits for elements, each element in the queue has  *)
(* a consumer on its way to it or a producer about to signal it.             *)

WakeupInv ==
  /\ empty_cvar # {} =>
       size <= Cardinality(Popping) + Cardinality(PushSignalling)
  /\ full_cvar # {} =>
       QUEUE_MAXLEN - size <= Cardinality(Pushing) + Cardinality(PopSignalling)

LEMMA FiniteSides ==
  /\ IsFiniteSet(Popping) /\ IsFiniteSet(PopSignalling)
  /\ IsFiniteSet(Pushing) /\ IsFiniteSet(PushSignalling)
<1>1. /\ Popping \subseteq Consumers /\ PopSignalling \subseteq Consumers
      /\ Pushing \subseteq Producers /\ PushSignalling \subseteq Producers
  BY DEF Popping, PopSignalling, Pushing, PushSignalling
<1> QED
  BY <1>1, QueueAssumption, FS_Subset

LEMMA FiniteSidesNext ==
  /\ IsFiniteSet(Popping') /\ IsFiniteSet(PopSignalling')
  /\ IsFiniteSet(Pushing') /\ IsFiniteSet(PushSignalling')
<1>1. /\ Popping' \subseteq Consumers /\ PopSignalling' \subseteq Consumers
      /\ Pushing' \subseteq Producers /\ PushSignalling' \subseteq Producers
  BY DEF Popping, PopSignalling, Pushing, PushSignalling
<1> QED
  BY <1>1, QueueAssumption, FS_Subset

\* A step that leaves size alone, blocks nobody and takes nobody out of the
\* sets that are counted preserves the invariant.
LEMMA WakeupMono ==
  ASSUME IInv, WakeupInv, size' = size,
         empty_cvar' \subseteq empty_cvar, full_cvar' \subseteq full_cvar,
         Popping \subseteq Popping', PushSignalling \subseteq PushSignalling',
         Pushing \subseteq Pushing', PopSignalling \subseteq PopSignalling'
  PROVE  WakeupInv'
<1>1. /\ Cardinality(Popping) <= Cardinality(Popping')
      /\ Cardinality(PushSignalling) <= Cardinality(PushSignalling')
      /\ Cardinality(Pushing) <= Cardinality(Pushing')
      /\ Cardinality(PopSignalling) <= Cardinality(PopSignalling')
  BY FiniteSidesNext, FS_Subset
<1>2. /\ Cardinality(Popping) \in Nat /\ Cardinality(Popping') \in Nat
      /\ Cardinality(PushSignalling) \in Nat /\ Cardinality(PushSignalling') \in Nat
      /\ Cardinality(Pushing) \in Nat /\ Cardinality(Pushing') \in Nat
      /\ Cardinality(PopSignalling) \in Nat /\ Cardinality(PopSignalling') \in Nat
  BY FiniteSides, FiniteSidesNext, FS_CardinalityType
<1>3. size \in Nat /\ QUEUE_MAXLEN \in Nat
  BY QueueAssumption DEF IInv, TypeOK
<1>4. empty_cvar' # {} => empty_cvar # {}
  OBVIOUS
<1>5. full_cvar' # {} => full_cvar # {}
  OBVIOUS
<1> QED
  BY <1>1, <1>2, <1>3, <1>4, <1>5 DEF WakeupInv
LEMMA CommonWakeup ==
  ASSUME IInv, WakeupInv, NEW t \in Threads,
         Enter(t) \/ Lock(t) \/ Relock(t) \/ SpuriousWakeup(t)
  PROVE  WakeupInv'
<1>1. /\ size' = size
      /\ empty_cvar' \subseteq empty_cvar /\ full_cvar' \subseteq full_cvar
      /\ \A u \in Threads : u # t => pc'[u] = pc[u]
      /\ pc[t] \in {"out", "lock", "relock", "blocked"}
      /\ pc'[t] \in {"lock", "relock", "test"}
  BY DEF Enter, Lock, Relock, SpuriousWakeup, AfterWait, Goto, Acquire, data,
         client, IInv, TypeOK, BlockedInv
<1>2. /\ Popping \subseteq Popping' /\ PushSignalling \subseteq PushSignalling'
      /\ Pushing \subseteq Pushing' /\ PopSignalling \subseteq PopSignalling'
  BY <1>1 DEF Popping, PushSignalling, Pushing, PopSignalling, Threads
<1> QED
  BY <1>1, <1>2, WakeupMono

LEMMA PushQuietWakeup ==
  ASSUME IInv, WakeupInv, NEW p \in Producers,
         PushAccess(p) \/ PushUnlock(p)
  PROVE  WakeupInv'
<1>1. /\ size' = size /\ empty_cvar' = empty_cvar /\ full_cvar' = full_cvar
      /\ \A u \in Threads : u # p => pc'[u] = pc[u]
      /\ \/ pc[p] = "access" /\ pc'[p] = "update"
         \/ pc[p] = "unlock" /\ pc'[p] = "out"
  BY DEF PushAccess, PushUnlock, Goto, data, client, Threads, IInv, TypeOK
<1>2. /\ Popping \subseteq Popping' /\ PushSignalling \subseteq PushSignalling'
      /\ Pushing \subseteq Pushing' /\ PopSignalling \subseteq PopSignalling'
  BY <1>1 DEF Popping, PushSignalling, Pushing, PopSignalling, Threads
<1> QED
  BY <1>1, <1>2, WakeupMono

LEMMA PopQuietWakeup ==
  ASSUME IInv, WakeupInv, NEW c \in Consumers,
         PopAccess(c) \/ PopUnlock(c)
  PROVE  WakeupInv'
<1>1. /\ size' = size /\ empty_cvar' = empty_cvar /\ full_cvar' = full_cvar
      /\ \A u \in Threads : u # c => pc'[u] = pc[u]
      /\ \/ pc[c] = "access" /\ pc'[c] = "update"
         \/ pc[c] = "unlock" /\ pc'[c] = "out"
  BY DEF PopAccess, PopUnlock, Goto, data, client, Threads, IInv, TypeOK
<1>2. /\ Popping \subseteq Popping' /\ PushSignalling \subseteq PushSignalling'
      /\ Pushing \subseteq Pushing' /\ PopSignalling \subseteq PopSignalling'
  BY <1>1 DEF Popping, PushSignalling, Pushing, PopSignalling, Threads
<1> QED
  BY <1>1, <1>2, WakeupMono

LEMMA PushTestWakeup ==
  ASSUME IInv, WakeupInv, NEW p \in Producers, PushTest(p) PROVE WakeupInv'
<1>1. CASE IsFull
  <2>1. /\ size' = size /\ empty_cvar' = empty_cvar
        /\ \A u \in Threads : u # p => pc'[u] = pc[u]
        /\ pc[p] = "test" /\ pc'[p] = "blocked"
    BY <1>1 DEF PushTest, IsFull, Goto, data, client, Threads, IInv, TypeOK
  <2>2. Popping' = Popping /\ PushSignalling' = PushSignalling
    BY <2>1, QueueAssumption DEF Popping, PushSignalling, Threads
  <2>3. /\ Cardinality(Pushing') \in Nat /\ Cardinality(PopSignalling') \in Nat
        /\ QUEUE_MAXLEN \in Nat
    BY FiniteSidesNext, FS_CardinalityType, QueueAssumption
  <2> QED
    BY <1>1, <2>1, <2>2, <2>3 DEF WakeupInv, IsFull, IInv, TypeOK
<1>2. CASE ~(IsFull)
  <2>1. /\ size' = size /\ empty_cvar' = empty_cvar /\ full_cvar' = full_cvar
        /\ \A u \in Threads : u # p => pc'[u] = pc[u]
        /\ pc[p] = "test" /\ pc'[p] = "access"
    BY <1>2 DEF PushTest, Goto, data, client, Threads, IInv, TypeOK
  <2>2. /\ Popping \subseteq Popping' /\ PushSignalling \subseteq PushSignalling'
        /\ Pushing \subseteq Pushing' /\ PopSignalling \subseteq PopSignalling'
    BY <2>1 DEF Popping, PushSignalling, Pushing, PopSignalling, Threads
  <2> QED
    BY <2>1, <2>2, WakeupMono
<1> QED
  BY <1>1, <1>2

LEMMA PopTestWakeup ==
  ASSUME IInv, WakeupInv, NEW c \in Consumers, PopTest(c) PROVE WakeupInv'
<1>1. CASE size = 0
  <2>1. /\ size' = size /\ full_cvar' = full_cvar
        /\ \A u \in Threads : u # c => pc'[u] = pc[u]
        /\ pc[c] = "test" /\ pc'[c] = "blocked"
    BY <1>1 DEF PopTest, IsFull, Goto, data, client, Threads, IInv, TypeOK
  <2>2. Pushing' = Pushing /\ PopSignalling' = PopSignalling
    BY <2>1, QueueAssumption DEF Pushing, PopSignalling, Threads
  <2>3. /\ Cardinality(Popping') \in Nat /\ Cardinality(PushSignalling') \in Nat
        /\ QUEUE_MAXLEN \in Nat
    BY FiniteSidesNext, FS_CardinalityType, QueueAssumption
  <2> QED
    BY <1>1, <2>1, <2>2, <2>3 DEF WakeupInv, IsFull, IInv, TypeOK
<1>2. CASE ~(size = 0)
  <2>1. /\ size' = size /\ empty_cvar' = empty_cvar /\ full_cvar' = full_cvar
        /\ \A u \in Threads : u # c => pc'[u] = pc[u]
        /\ pc[c] = "test" /\ pc'[c] = "access"
    BY <1>2 DEF PopTest, Goto, data, client, Threads, IInv, TypeOK
  <2>2. /\ Popping \subseteq Popping' /\ PushSignalling \subseteq PushSignalling'
        /\ Pushing \subseteq Pushing' /\ PopSignalling \subseteq PopSignalling'
    BY <2>1 DEF Popping, PushSignalling, Pushing, PopSignalling, Threads
  <2> QED
    BY <2>1, <2>2, WakeupMono
<1> QED
  BY <1>1, <1>2

LEMMA PushUpdateWakeup ==
  ASSUME IInv, WakeupInv, NEW p \in Producers, PushUpdate(p) PROVE WakeupInv'
<1>1. /\ size' = size + 1 /\ empty_cvar' = empty_cvar /\ full_cvar' = full_cvar
      /\ \A u \in Threads : u # p => pc'[u] = pc[u]
      /\ pc[p] = "update" /\ pc'[p] = "signal"
  BY DEF PushUpdate, Goto, data, client, Threads, IInv, TypeOK
<1>2. Pushing' = Pushing \ {p} /\ p \in Pushing
  BY <1>1 DEF Pushing, Threads
<1>3. PushSignalling' = PushSignalling \cup {p} /\ p \notin PushSignalling
  BY <1>1 DEF PushSignalling, Threads
<1>4. Popping' = Popping /\ PopSignalling' = PopSignalling
  BY <1>1, QueueAssumption DEF Popping, PopSignalling, Threads
<1>5. Cardinality(Pushing') = Cardinality(Pushing) - 1
  BY <1>2, FiniteSides, FS_RemoveElement
<1>6. Cardinality(PushSignalling') = Cardinality(PushSignalling) + 1
  BY <1>3, FiniteSides, FS_AddElement
<1>7. /\ Cardinality(Popping) \in Nat /\ Cardinality(PushSignalling) \in Nat
      /\ Cardinality(Pushing) \in Nat /\ Cardinality(PopSignalling) \in Nat
  BY FiniteSides, FS_CardinalityType
<1>8. size \in Nat /\ QUEUE_MAXLEN \in Nat
  BY QueueAssumption DEF IInv, TypeOK
<1> QED
  BY <1>1, <1>4, <1>5, <1>6, <1>7, <1>8 DEF WakeupInv

LEMMA PopUpdateWakeup ==
  ASSUME IInv, WakeupInv, NEW c \in Consumers, PopUpdate(c) PROVE WakeupInv'
<1>1. /\ size' = size - 1 /\ empty_cvar' = empty_cvar /\ full_cvar' = full_cvar
      /\ \A u \in Threads : u # c => pc'[u] = pc[u]
      /\ pc[c] = "update" /\ pc'[c] = "signal"
  BY DEF PopUpdate, Goto, data, client, Threads, IInv, TypeOK
<1>2. Popping' = Popping \ {c} /\ c \in Popping
  BY <1>1 DEF Popping, Threads
<1>3. PopSignalling' = PopSignalling \cup {c} /\ c \notin PopSignalling
  BY <1>1 DEF PopSignalling, Threads
<1>4. Pushing' = Pushing /\ PushSignalling' = PushSignalling
  BY <1>1, QueueAssumption DEF Pushing, PushSignalling, Threads
<1>5. Cardinality(Popping') = Cardinality(Popping) - 1
  BY <1>2, FiniteSides, FS_RemoveElement
<1>6. Cardinality(PopSignalling') = Cardinality(PopSignalling) + 1
  BY <1>3, FiniteSides, FS_AddElement
<1>7. /\ Cardinality(Popping) \in Nat /\ Cardinality(PushSignalling) \in Nat
      /\ Cardinality(Pushing) \in Nat /\ Cardinality(PopSignalling) \in Nat
  BY FiniteSides, FS_CardinalityType
<1>8. size \in Nat /\ QUEUE_MAXLEN \in Nat
  BY QueueAssumption DEF IInv, TypeOK
<1> QED
  BY <1>1, <1>4, <1>5, <1>6, <1>7, <1>8 DEF WakeupInv

LEMMA PushSignalWakeup ==
  ASSUME IInv, WakeupInv, NEW p \in Producers, PushSignal(p) PROVE WakeupInv'
<1>1. /\ size' = size /\ full_cvar' = full_cvar
      /\ pc[p] = "signal" /\ pc'[p] = "unlock"
      /\ \A u \in Threads : pc'[u] = IF u = p THEN "unlock"
                                    ELSE IF u \in empty_cvar \ empty_cvar' THEN "relock"
                                    ELSE pc[u]
  BY DEF PushSignal, Goto, data, client, Threads
<1>2. CASE empty_cvar = {}
  <2>1. empty_cvar' = {}
    BY <1>2 DEF PushSignal, AfterSignal
  <2>2. Pushing \subseteq Pushing' /\ PopSignalling \subseteq PopSignalling'
    BY <1>1, <1>2, QueueAssumption DEF Pushing, PopSignalling, Threads
  <2>3. /\ Cardinality(Pushing) <= Cardinality(Pushing')
        /\ Cardinality(PopSignalling) <= Cardinality(PopSignalling')
    BY <2>2, FiniteSidesNext, FS_Subset
  <2>4. /\ Cardinality(Pushing) \in Nat /\ Cardinality(Pushing') \in Nat
        /\ Cardinality(PopSignalling) \in Nat /\ Cardinality(PopSignalling') \in Nat
        /\ size \in Nat /\ QUEUE_MAXLEN \in Nat
    BY FiniteSides, FiniteSidesNext, FS_CardinalityType, QueueAssumption DEF IInv, TypeOK
  <2> QED
    BY <1>1, <2>1, <2>3, <2>4 DEF WakeupInv
<1>3. CASE empty_cvar # {}
  <2>1. PICK w \in empty_cvar : empty_cvar' = empty_cvar \ {w}
    BY <1>3 DEF PushSignal, AfterSignal
  <2>2. w \in Threads /\ w # p /\ pc[w] = "blocked" /\ pc'[w] = "relock"
    BY <1>1, <2>1 DEF IInv, TypeOK, BlockedInv, Threads
  <2>3. \A u \in Threads : u # p /\ u # w => pc'[u] = pc[u]
    BY <1>1, <2>1
  <2>4. PushSignalling' = PushSignalling \ {p} /\ p \in PushSignalling
    BY <1>1, <2>2, <2>3 DEF PushSignalling, Threads
  <2>5. Popping' = Popping \cup {w} /\ w \notin Popping
    <3>1. w \in Consumers /\ p \notin Consumers
      BY <2>1, QueueAssumption DEF IInv, TypeOK
    <3>2. \A u \in Consumers : u # w => pc'[u] = pc[u]
      BY <2>3, <3>1 DEF Threads
    <3> QED
      BY <2>2, <3>1, <3>2 DEF Popping
  <2>6. Pushing' = Pushing /\ PopSignalling' = PopSignalling
    <3>1. w \notin Producers /\ p \notin Consumers
      BY <2>1, QueueAssumption DEF IInv, TypeOK
    <3>2. \A u \in Producers : u # p => pc'[u] = pc[u]
      BY <2>3, <3>1 DEF Threads
    <3>3. \A u \in Consumers : pc[u] = "signal" <=> pc'[u] = "signal"
      BY <2>2, <2>3, <3>1 DEF Threads
    <3> QED
      BY <1>1, <3>2, <3>3 DEF Pushing, PopSignalling
  <2>7. Cardinality(PushSignalling') = Cardinality(PushSignalling) - 1
    BY <2>4, FiniteSides, FS_RemoveElement
  <2>8. Cardinality(Popping') = Cardinality(Popping) + 1
    BY <2>5, FiniteSides, FS_AddElement
  <2>9. /\ Cardinality(PushSignalling) \in Nat /\ Cardinality(Popping) \in Nat
        /\ size \in Nat /\ QUEUE_MAXLEN \in Nat
    BY FiniteSides, FS_CardinalityType, QueueAssumption DEF IInv, TypeOK
  <2> QED
    BY <1>1, <1>3, <2>6, <2>7, <2>8, <2>9 DEF WakeupInv
<1> QED
  BY <1>2, <1>3

LEMMA PopSignalWakeup ==
  ASSUME IInv, WakeupInv, NEW c \in Consumers, PopSignal(c) PROVE WakeupInv'
<1>1. /\ size' = size /\ empty_cvar' = empty_cvar
      /\ pc[c] = "signal" /\ pc'[c] = "unlock"
      /\ \A u \in Threads : pc'[u] = IF u = c THEN "unlock"
                                    ELSE IF u \in full_cvar \ full_cvar' THEN "relock"
                                    ELSE pc[u]
  BY DEF PopSignal, Goto, data, client, Threads
<1>2. CASE full_cvar = {}
  <2>1. full_cvar' = {}
    BY <1>2 DEF PopSignal, AfterSignal
  <2>2. Popping \subseteq Popping' /\ PushSignalling \subseteq PushSignalling'
    BY <1>1, <1>2, QueueAssumption DEF Popping, PushSignalling, Threads
  <2>3. /\ Cardinality(Popping) <= Cardinality(Popping')
        /\ Cardinality(PushSignalling) <= Cardinality(PushSignalling')
    BY <2>2, FiniteSidesNext, FS_Subset
  <2>4. /\ Cardinality(Popping) \in Nat /\ Cardinality(Popping') \in Nat
        /\ Cardinality(PushSignalling) \in Nat /\ Cardinality(PushSignalling') \in Nat
        /\ size \in Nat /\ QUEUE_MAXLEN \in Nat
    BY FiniteSides, FiniteSidesNext, FS_CardinalityType, QueueAssumption DEF IInv, TypeOK
  <2> QED
    BY <1>1, <2>1, <2>3, <2>4 DEF WakeupInv
<1>3. CASE full_cvar # {}
  <2>1. PICK w \in full_cvar : full_cvar' = full_cvar \ {w}
    BY <1>3 DEF PopSignal, AfterSignal
  <2>2. w \in Threads /\ w # c /\ pc[w] = "blocked" /\ pc'[w] = "relock"
    BY <1>1, <2>1 DEF IInv, TypeOK, BlockedInv, Threads
  <2>3. \A u \in Threads : u # c /\ u # w => pc'[u] = pc[u]
    BY <1>1, <2>1
  <2>4. PopSignalling' = PopSignalling \ {c} /\ c \in PopSignalling
    BY <1>1, <2>2, <2>3 DEF PopSignalling, Threads
  <2>5. Pushing' = Pushing \cup {w} /\ w \notin Pushing
    <3>1. w \in Producers /\ c \notin Producers
      BY <2>1, QueueAssumption DEF IInv, TypeOK
    <3>2. \A u \in Producers : u # w => pc'[u] = pc[u]
      BY <2>3, <3>1 DEF Threads
    <3> QED
      BY <2>2, <3>1, <3>2 DEF Pushing
  <2>6. Popping' = Popping /\ PushSignalling' = PushSignalling
    <3>1. w \notin Consumers /\ c \notin Producers
      BY <2>1, QueueAssumption DEF IInv, TypeOK
    <3>2. \A u \in Consumers : u # c => pc'[u] = pc[u]
      BY <2>3, <3>1 DEF Threads
    <3>3. \A u \in Producers : pc[u] = "signal" <=> pc'[u] = "signal"
      BY <2>2, <2>3, <3>1 DEF Threads
    <3> QED
      BY <1>1, <3>2, <3>3 DEF Popping, PushSignalling
  <2>7. Cardinality(PopSignalling') = Cardinality(PopSignalling) - 1
    BY <2>4, FiniteSides, FS_RemoveElement
  <2>8. Cardinality(Pushing') = Cardinality(Pushing) + 1
    BY <2>5, FiniteSides, FS_AddElement
  <2>9. /\ Cardinality(PopSignalling) \in Nat /\ Cardinality(Pushing) \in Nat
        /\ size \in Nat /\ QUEUE_MAXLEN \in Nat
    BY FiniteSides, FS_CardinalityType, QueueAssumption DEF IInv, TypeOK
  <2> QED
    BY <1>1, <1>3, <2>6, <2>7, <2>8, <2>9 DEF WakeupInv
<1> QED
  BY <1>2, <1>3
LEMMA InitWakeup == Init => WakeupInv
  BY DEF Init, queue_init, WakeupInv

LEMMA NextWakeup == IInv /\ WakeupInv /\ [Next]_vars => WakeupInv'
<1> SUFFICES ASSUME IInv, WakeupInv, [Next]_vars PROVE WakeupInv'
  OBVIOUS
<1>1. ASSUME NEW t \in Threads, Step(t) PROVE WakeupInv'
  <2>1. CASE Enter(t) \/ Lock(t) \/ Relock(t)
    BY <2>1, CommonWakeup
  <2>2. CASE t \in Producers /\ queue_push(t)
    BY <2>2, PushTestWakeup, PushQuietWakeup, PushUpdateWakeup, PushSignalWakeup
       DEF queue_push
  <2>3. CASE t \in Consumers /\ queue_pop(t)
    BY <2>3, PopTestWakeup, PopQuietWakeup, PopUpdateWakeup, PopSignalWakeup
       DEF queue_pop
  <2> QED
    BY <1>1, <2>1, <2>2, <2>3 DEF Step
<1>2. ASSUME NEW t \in Threads, SpuriousWakeup(t) PROVE WakeupInv'
  BY <1>2, CommonWakeup
<1>3. CASE UNCHANGED vars
  BY <1>3, WakeupMono DEF vars, Popping, PushSignalling, Pushing, PopSignalling
<1> QED
  BY <1>1, <1>2, <1>3 DEF Next, Finished

LEMMA WakeupInvImplies == IInv /\ WakeupInv => NoLostWakeup
<1> SUFFICES ASSUME IInv, WakeupInv PROVE NoLostWakeup
  OBVIOUS
<1>1. ASSUME empty_cvar # {}, size > 0 PROVE Popping \cup PushSignalling # {}
  <2> SUFFICES ASSUME Popping = {}, PushSignalling = {} PROVE FALSE
    OBVIOUS
  <2> QED
    BY <1>1, FS_EmptySet DEF WakeupInv, IInv, TypeOK
<1>2. ASSUME full_cvar # {}, size < QUEUE_MAXLEN PROVE Pushing \cup PopSignalling # {}
  <2> SUFFICES ASSUME Pushing = {}, PopSignalling = {} PROVE FALSE
    OBVIOUS
  <2> QED
    BY <1>2, FS_EmptySet, QueueAssumption DEF WakeupInv, IInv, TypeOK
<1> QED
  BY <1>1, <1>2 DEF NoLostWakeup

\* While a thread is blocked on a condition variable of the queue although what
\* it waits for is there, another one is awake that will take it or pass the
\* signal on: with any number of threads queue_push and queue_pop lose no wakeup.
THEOREM WakeupCorrect == Spec => []NoLostWakeup
  BY InitIInv, NextIInv, InitWakeup, NextWakeup, WakeupInvImplies, PTL DEF Spec
-----------------------------------------------------------------------------
(* queue.c implements a bounded FIFO queue.                                 *)

\* A thread inside a call is entitled to it, and keeps what its pops return.
CallsInv ==
  /\ \A t \in Threads : pc[t] # "out" => calls[t] < Calls(t)
  /\ \A c \in Consumers : Len(got[c]) = calls[c]

LEMMA InitCalls == Init => CallsInv
  BY QueueAssumption DEF Init, CallsInv, Calls, Threads

LEMMA NextCalls == IInv /\ CallsInv /\ [Next]_vars => CallsInv'
<1> SUFFICES ASSUME IInv, CallsInv, [Next]_vars PROVE CallsInv'
  OBVIOUS
<1> USE DEF CallsInv, IInv, TypeOK, Goto, data, client
<1>1. ASSUME NEW t \in Threads, Enter(t) \/ Lock(t) \/ Relock(t) PROVE CallsInv'
  BY <1>1 DEF Enter, Lock, Relock, Calls, AfterWait
<1>2. ASSUME NEW t \in Threads, SpuriousWakeup(t) PROVE CallsInv'
  BY <1>2 DEF SpuriousWakeup, BlockedInv, Calls
<1>3. ASSUME NEW p \in Producers, queue_push(p) PROVE CallsInv'
  <2>1. CASE PushTest(p)
    BY <2>1 DEF PushTest, Calls, Threads
  <2>2. CASE PushAccess(p)
    BY <2>2 DEF PushAccess, Calls, Threads
  <2>3. CASE PushUpdate(p)
    BY <2>3 DEF PushUpdate, Calls, Threads
  <2>4. CASE PushSignal(p)
    <3>1. \A t \in Threads : pc'[t] # "out" => pc[t] # "out"
      BY <2>4 DEF PushSignal, AfterSignal, BlockedInv, Threads
    <3> QED
      BY <2>4, <3>1 DEF PushSignal, Calls
  <2>5. CASE PushUnlock(p)
    BY <2>5, QueueAssumption DEF PushUnlock, Calls, Threads
  <2> QED
    BY <1>3, <2>1, <2>2, <2>3, <2>4, <2>5 DEF queue_push
<1>4. ASSUME NEW c \in Consumers, queue_pop(c) PROVE CallsInv'
  <2>1. CASE PopTest(c)
    BY <2>1 DEF PopTest, Calls, Threads
  <2>2. CASE PopAccess(c)
    BY <2>2 DEF PopAccess, Calls, Threads
  <2>3. CASE PopUpdate(c)
    BY <2>3 DEF PopUpdate, Calls, Threads
  <2>4. CASE PopSignal(c)
    <3>1. \A t \in Threads : pc'[t] # "out" => pc[t] # "out"
      BY <2>4 DEF PopSignal, AfterSignal, BlockedInv, Threads
    <3> QED
      BY <2>4, <3>1 DEF PopSignal, Calls
  <2>5. CASE PopUnlock(c)
    <3>1. ret_val[c] \in Elem
      BY <2>5 DEF PopUnlock, TransferInv
    <3> QED
      BY <2>5, <3>1, QueueAssumption DEF PopUnlock, Calls, Threads
  <2> QED
    BY <1>4, <2>1, <2>2, <2>3, <2>4, <2>5 DEF queue_pop
<1>5. CASE UNCHANGED vars
  BY <1>5 DEF vars, Calls
<1> QED
  BY <1>1, <1>2, <1>3, <1>4, <1>5 DEF Next, Step, Finished

LEMMA AppendAsFunction ==
  ASSUME NEW S, NEW s \in Seq(S), NEW e \in S
  PROVE  Append(s, e) = [k \in 1..Len(s) + 1 |-> IF k = Len(s) + 1 THEN e ELSE s[k]]
<1> DEFINE t == [k \in 1..Len(s) + 1 |-> IF k = Len(s) + 1 THEN e ELSE s[k]]
<1>1. Len(s) \in Nat
  OBVIOUS
<1>2. t \in [1..Len(s) + 1 -> S]
  BY <1>1
<1>3. t \in Seq(S) /\ Len(t) = Len(s) + 1
  BY <1>1, <1>2
<1>4. Append(s, e) \in Seq(S) /\ Len(Append(s, e)) = Len(s) + 1
  OBVIOUS
<1>5. \A k \in 1..Len(s) + 1 : Append(s, e)[k] = t[k]
  BY <1>1
<1> QED
  BY <1>3, <1>4, <1>5, SeqEqual

LEMMA TailAsFunction ==
  ASSUME NEW S, NEW s \in Seq(S), s # <<>>
  PROVE  Tail(s) = [k \in 1..Len(s) - 1 |-> s[k + 1]]
<1> DEFINE t == [k \in 1..Len(s) - 1 |-> s[k + 1]]
<1>1. Len(s) \in Nat \ {0}
  BY EmptySeq
<1>2. t \in [1..Len(s) - 1 -> S] /\ Len(s) - 1 \in Nat
  BY <1>1
<1>3. t \in Seq(S) /\ Len(t) = Len(s) - 1
  BY <1>1, <1>2
<1>4. /\ Tail(s) \in Seq(S) /\ Len(Tail(s)) = Len(s) - 1
      /\ \A k \in 1..Len(s) - 1 : Tail(s)[k] = t[k]
  BY HeadTailProperties
<1> QED
  BY <1>3, <1>4, SeqEqual

\* The queue as a sequence is made of elements and has size as its length.
LEMMA ContentsType ==
  ASSUME IInv PROVE Contents \in Seq(Elem) /\ Len(Contents) = size
<1>1. size \in Nat
  BY DEF IInv, TypeOK
<1>2. \A k \in 1..size : arr[(head + k - 1) % QUEUE_MAXLEN] \in Elem
  <2> SUFFICES ASSUME NEW k \in 1..size
               PROVE  arr[(head + k - 1) % QUEUE_MAXLEN] \in Elem
    OBVIOUS
  <2>1. k - 1 \in 0..size - 1 /\ head + (k - 1) = head + k - 1
    BY <1>1, QueueAssumption DEF IInv, TypeOK, Slots
  <2> QED
    BY <2>1 DEF IInv, RingConsistent
<1>3. Contents \in [1..size -> Elem]
  BY <1>2 DEF Contents
<1> QED
  BY <1>1, <1>3

\* Nothing happens to the queue as a sequence while head, size and the live
\* slots stay.
LEMMA ContentsSame ==
  ASSUME IInv, head' = head, size' = size,
         arr' = arr \/ \E v : size < QUEUE_MAXLEN /\ arr' = [arr EXCEPT ![tail] = v]
  PROVE  Contents' = Contents
<1>1. CASE arr' = arr
  BY <1>1 DEF Contents
<1>2. CASE size < QUEUE_MAXLEN /\ \E v : arr' = [arr EXCEPT ![tail] = v]
  <2>1. PICK v : arr' = [arr EXCEPT ![tail] = v]
    BY <1>2
  <2>2. ASSUME NEW k \in 1..size
        PROVE  arr'[(head + k - 1) % QUEUE_MAXLEN] = arr[(head + k - 1) % QUEUE_MAXLEN]
    <3>1. /\ k - 1 \in 0..size - 1 /\ k - 1 \in Nat /\ head + (k - 1) = head + k - 1
          /\ size \in 0..QUEUE_MAXLEN - 1 /\ head \in Slots
      BY <1>2, QueueAssumption DEF IInv, TypeOK, Slots
    <3>2. (head + (k - 1)) % QUEUE_MAXLEN # tail
      BY <3>1, TailFree DEF IInv, RingConsistent
    <3>3. (head + (k - 1)) % QUEUE_MAXLEN \in Slots
      BY <3>1, SlotType
    <3> QED
      BY <2>1, <3>1, <3>2, <3>3 DEF IInv, TypeOK
  <2> QED
    BY <2>2 DEF Contents
<1> QED
  BY <1>1, <1>2
\* Only these three change what counts as sent and as received.
LEMMA SentGotSame ==
  ASSUME IInv, calls' = calls, got' = got,
         \A t \in Threads : Committed(t)' <=> Committed(t),
         \A c \in Consumers : Committed(c) => ret_val'[c] = ret_val[c]
  PROVE  SentSoFar' = SentSoFar /\ GotSoFar' = GotSoFar
  BY DEF SentSoFar, GotSoFar, Threads

LEMMA RefineInit == Init => Fifo!Init
<1> SUFFICES ASSUME Init PROVE Fifo!Init
  OBVIOUS
<1> USE QueueAssumption DEF Init, queue_init
<1>1. Contents = <<>>
  BY DEF Contents
<1>2. SentSoFar = [p \in Producers |-> 0] /\ GotSoFar = [c \in Consumers |-> <<>>]
  BY DEF SentSoFar, GotSoFar, Committed, Threads
<1> QED
  BY <1>1, <1>2 DEF Fifo!Init

LEMMA RefinePush ==
  ASSUME IInv, CallsInv, NEW p \in Producers, PushUpdate(p) PROVE Fifo!Push(p)
<1> USE DEF IInv, PushUpdate, Goto, data, client
<1>1. /\ p \in Threads /\ pc[p] = "update" /\ pc'[p] = "signal"
      /\ \A t \in Threads : t # p => pc'[t] = pc[t]
      /\ calls' = calls /\ got' = got /\ ret_val' = ret_val
      /\ arr' = arr /\ head' = head /\ size' = size + 1
  BY DEF TypeOK, Threads
<1>2. size \in 0..QUEUE_MAXLEN - 1 /\ head \in Slots
  BY QueueAssumption DEF CapacityInv, TypeOK
<1>3. SentSoFar[p] = calls[p] /\ calls[p] < Pushes[p]
  BY <1>1 DEF SentSoFar, Committed, CallsInv, Calls
<1>4. SentSoFar' = [SentSoFar EXCEPT ![p] = @ + 1]
  BY <1>1 DEF SentSoFar, Committed, Threads
<1>5. GotSoFar' = GotSoFar
  BY <1>1, QueueAssumption DEF GotSoFar, Committed, Threads
<1>6. Contents' = Append(Contents, <<p, SentSoFar[p] + 1>>)
  <2>1. Contents \in Seq(Elem) /\ Len(Contents) = size
    BY ContentsType
  <2>2. arr[(head + size) % QUEUE_MAXLEN] = Elt(p)
    BY <1>1 DEF TransferInv, RingConsistent
  <2>3. Elt(p) = <<p, SentSoFar[p] + 1>>
    BY <1>3 DEF Elt
  <2>4. Contents' = [k \in 1..size + 1 |-> arr[(head + k - 1) % QUEUE_MAXLEN]]
    BY <1>1 DEF Contents
  <2>5. Append(Contents, Elt(p))
          = [k \in 1..size + 1 |-> IF k = size + 1 THEN Elt(p) ELSE Contents[k]]
    BY <2>1, EltType, AppendAsFunction
  <2>6. ASSUME NEW k \in 1..size + 1
        PROVE  arr[(head + k - 1) % QUEUE_MAXLEN]
                 = IF k = size + 1 THEN Elt(p) ELSE Contents[k]
    <3>1. CASE k = size + 1
      <4>1. head + k - 1 = head + size
        BY <1>2, <3>1, QueueAssumption DEF Slots
      <4> QED
        BY <2>2, <3>1, <4>1
    <3>2. CASE k # size + 1
      BY <1>2, <3>2 DEF Contents
    <3> QED
      BY <3>1, <3>2
  <2> QED
    BY <2>3, <2>4, <2>5, <2>6
<1>7. Len(Contents) < QUEUE_MAXLEN
  BY <1>2, ContentsType, QueueAssumption
<1> QED
  BY <1>3, <1>4, <1>5, <1>6, <1>7 DEF Fifo!Push

LEMMA RefinePop ==
  ASSUME IInv, CallsInv, NEW c \in Consumers, PopUpdate(c) PROVE Fifo!Pop(c)
<1> USE DEF IInv, PopUpdate, Goto, data, client
<1>1. /\ c \in Threads /\ pc[c] = "update" /\ pc'[c] = "signal"
      /\ \A t \in Threads : t # c => pc'[t] = pc[t]
      /\ calls' = calls /\ got' = got /\ ret_val' = ret_val
      /\ arr' = arr /\ head' = Succ(head) /\ size' = size - 1
  BY DEF TypeOK, Threads
<1>2. size \in 1..QUEUE_MAXLEN /\ head \in Slots
  BY QueueAssumption DEF CapacityInv, TypeOK
<1>3. Contents \in Seq(Elem) /\ Len(Contents) = size
  BY ContentsType
<1>4. Contents # <<>> /\ Head(Contents) = arr[head]
  <2>1. head + 1 - 1 = head + 0
    BY <1>2, QueueAssumption DEF Slots
  <2> QED
    BY <1>2, <1>3, <2>1, SlotMod DEF Contents
<1>5. SentSoFar' = SentSoFar
  BY <1>1, QueueAssumption DEF SentSoFar, Committed, Threads
<1>6. GotSoFar[c] = got[c] /\ Len(got[c]) < Pops[c]
  BY <1>1, QueueAssumption DEF GotSoFar, Committed, CallsInv, Calls
<1>7. GotSoFar' = [GotSoFar EXCEPT ![c] = Append(@, Head(Contents))]
  <2>1. ret_val[c] = Head(Contents)
    BY <1>1, <1>4 DEF TransferInv
  <2> QED
    BY <1>1, <2>1 DEF GotSoFar, Committed, Threads
<1>8. Contents' = Tail(Contents)
  <2>1. Tail(Contents) = [k \in 1..size - 1 |-> Contents[k + 1]]
    BY <1>3, <1>4, TailAsFunction
  <2>2. ASSUME NEW k \in 1..size - 1
        PROVE  arr'[(head' + k - 1) % QUEUE_MAXLEN] = Contents[k + 1]
    <3>1. /\ k - 1 \in 0..QUEUE_MAXLEN /\ k + 1 \in 1..size
          /\ Succ(head) + k - 1 = Succ(head) + (k - 1)
          /\ head + (k + 1) - 1 = head + ((k - 1) + 1)
      BY <1>2, SuccType, QueueAssumption DEF Slots
    <3>2. (Succ(head) + (k - 1)) % QUEUE_MAXLEN = (head + ((k - 1) + 1)) % QUEUE_MAXLEN
      BY <1>2, <3>1, SuccHead
    <3> QED
      BY <1>1, <3>1, <3>2 DEF Contents
  <2>3. Contents' = [k \in 1..size - 1 |-> arr'[(head' + k - 1) % QUEUE_MAXLEN]]
    BY <1>1 DEF Contents
  <2> QED
    BY <2>1, <2>2, <2>3
<1> QED
  BY <1>4, <1>5, <1>6, <1>7, <1>8 DEF Fifo!Pop
LEMMA RefineStep ==
  IInv /\ IInv' /\ CallsInv /\ [Next]_vars => [Fifo!Next]_Fifo!vars
<1> SUFFICES ASSUME IInv, IInv', CallsInv, [Next]_vars
             PROVE  [Fifo!Next]_Fifo!vars
  OBVIOUS
<1> DEFINE Same == Contents' = Contents /\ SentSoFar' = SentSoFar /\ GotSoFar' = GotSoFar
<1>1. ASSUME NEW t \in Threads,
             Enter(t) \/ Lock(t) \/ Relock(t) \/ SpuriousWakeup(t)
      PROVE  Same
  <2>1. /\ calls' = calls /\ got' = got /\ ret_val' = ret_val
        /\ arr' = arr /\ head' = head /\ size' = size
        /\ \A u \in Threads : Committed(u)' <=> Committed(u)
    BY <1>1 DEF Enter, Lock, Relock, SpuriousWakeup, AfterWait, Goto, data, client,
       Committed, IInv, TypeOK, BlockedInv
  <2> QED
    BY <2>1, ContentsSame, SentGotSame
<1>2. ASSUME NEW p \in Producers, queue_push(p), ~PushUpdate(p) PROVE Same
  <2> USE DEF IInv, TypeOK, Goto, data, client, Committed, Threads
  <2>1. CASE PushTest(p)
    BY <2>1, ContentsSame, SentGotSame DEF PushTest
  <2>2. CASE PushAccess(p)
    <3>1. size < QUEUE_MAXLEN
      BY <2>2 DEF PushAccess, CapacityInv
    <3>2. \A t \in Threads : Committed(t)' <=> Committed(t)
      BY <2>2 DEF PushAccess
    <3> QED
      BY <2>2, <3>1, <3>2, ContentsSame, SentGotSame DEF PushAccess
  <2>3. CASE PushSignal(p)
    <3>1. \A t \in Threads : Committed(t)' <=> Committed(t)
      BY <2>3 DEF PushSignal, AfterSignal, BlockedInv
    <3> QED
      BY <2>3, <3>1, ContentsSame, SentGotSame DEF PushSignal
  <2>4. CASE PushUnlock(p)
    <3>1. Contents' = Contents
      BY <2>4, ContentsSame DEF PushUnlock
    <3>2. SentSoFar' = SentSoFar
      BY <2>4 DEF PushUnlock, SentSoFar
    <3>3. GotSoFar' = GotSoFar
      BY <2>4, QueueAssumption DEF PushUnlock, GotSoFar
    <3> QED
      BY <3>1, <3>2, <3>3
  <2> QED
    BY <1>2, <2>1, <2>2, <2>3, <2>4 DEF queue_push
<1>3. ASSUME NEW c \in Consumers, queue_pop(c), ~PopUpdate(c) PROVE Same
  <2> USE DEF IInv, TypeOK, Goto, data, client, Committed, Threads
  <2>1. CASE PopTest(c)
    BY <2>1, ContentsSame, SentGotSame DEF PopTest
  <2>2. CASE PopAccess(c)
    <3>1. \A d \in Consumers : Committed(d) => ret_val'[d] = ret_val[d]
      BY <2>2 DEF PopAccess
    <3>2. \A t \in Threads : Committed(t)' <=> Committed(t)
      BY <2>2 DEF PopAccess
    <3> QED
      BY <2>2, <3>1, <3>2, ContentsSame, SentGotSame DEF PopAccess
  <2>3. CASE PopSignal(c)
    <3>1. \A t \in Threads : Committed(t)' <=> Committed(t)
      BY <2>3 DEF PopSignal, AfterSignal, BlockedInv
    <3> QED
      BY <2>3, <3>1, ContentsSame, SentGotSame DEF PopSignal
  <2>4. CASE PopUnlock(c)
    <3>1. Contents' = Contents
      BY <2>4, ContentsSame DEF PopUnlock
    <3>2. SentSoFar' = SentSoFar
      BY <2>4, QueueAssumption DEF PopUnlock, SentSoFar
    <3>3. GotSoFar' = GotSoFar
      BY <2>4 DEF PopUnlock, GotSoFar
    <3> QED
      BY <3>1, <3>2, <3>3
  <2> QED
    BY <1>3, <2>1, <2>2, <2>3, <2>4 DEF queue_pop
<1>4. CASE UNCHANGED vars
  BY <1>4 DEF vars, Contents, SentSoFar, GotSoFar, Committed, Fifo!vars
<1>5. Same => UNCHANGED Fifo!vars
  BY DEF Fifo!vars
<1>6. ASSUME NEW t \in Threads, Step(t) PROVE [Fifo!Next]_Fifo!vars
  <2>1. CASE Enter(t) \/ Lock(t) \/ Relock(t)
    BY <1>1, <1>5, <2>1
  <2>2. CASE t \in Producers /\ queue_push(t)
    BY <1>2, <1>5, <2>2, RefinePush DEF Fifo!Next
  <2>3. CASE t \in Consumers /\ queue_pop(t)
    BY <1>3, <1>5, <2>3, RefinePop DEF Fifo!Next
  <2> QED
    BY <1>6, <2>1, <2>2, <2>3 DEF Step
<1> QED
  BY <1>1, <1>4, <1>5, <1>6 DEF Next, Finished

\* queue.c is a thread-safe FIFO queue: seen from the contents of the ring and
\* from what was handed in and out, its interleaved steps are atomic pushes at
\* the back of a queue with a free slot and atomic pops at the front of one with
\* an element.
THEOREM QueueImplementsFifo == Spec => ImplementsFifo
<1>1. Spec => []CallsInv
  BY Invariance, InitCalls, NextCalls, PTL DEF Spec
<1> QED
  BY <1>1, Invariance, RefineInit, RefineStep, PTL DEF Spec, ImplementsFifo, Fifo!Spec
=============================================================================
