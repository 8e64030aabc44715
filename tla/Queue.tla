------------------------------- MODULE Queue -------------------------------
(***************************************************************************)
(* One queue_t of runtime/queue.c and the threads that call queue_push and *)
(* queue_pop on it, at the granularity at which they can interleave: every *)
(* pthread call is a step, and inside the critical section reading or      *)
(* writing the ring buffer and updating its indices are separate steps.    *)
(*                                                                         *)
(* The pthread primitives are external and modelled from how the code uses *)
(* them: a mutex has one owner; pthread_cond_wait releases the mutex and   *)
(* blocks in one step, and has to take the mutex again before it returns;  *)
(* pthread_cond_signal wakes a blocked thread if there is one; a blocked   *)
(* thread may also wake for no reason.                                     *)
(***************************************************************************)
EXTENDS Integers, Sequences, FiniteSets

CONSTANTS Producers,      \* threads that call queue_push
          Consumers,      \* threads that call queue_pop
          QUEUE_MAXLEN,   \* slots of the ring buffer
          Pushes,         \* how many pushes each producer makes
          Pops,           \* how many pops each consumer makes
          NoThread,       \* the mutex is free
          Junk            \* content of a slot that was never written

Threads == Producers \cup Consumers

Elem == Producers \X (Nat \ {0})

ASSUME QueueAssumption ==
  /\ QUEUE_MAXLEN \in Nat \ {0}
  /\ IsFiniteSet(Producers) /\ IsFiniteSet(Consumers)
  /\ Producers \cap Consumers = {}
  /\ NoThread \notin Threads
  /\ Junk \notin Elem
  /\ Pushes \in [Producers -> Nat]
  /\ Pops \in [Consumers -> Nat]

VARIABLES
  arr, head, tail, size,     \* the data of queue_t
  mutex,                     \* the owner of queue_t.mutex, or NoThread
  empty_cvar, full_cvar,     \* the threads blocked on each condition variable
  pc,                        \* where each thread is in its call
  calls,                     \* completed calls of each thread
  ret_val,                   \* the local of queue_pop
  got                        \* what queue_pop has returned to each consumer

vars == <<arr, head, tail, size, mutex, empty_cvar, full_cvar, pc, calls,
          ret_val, got>>

Slots == 0..QUEUE_MAXLEN - 1

\* The statements between taking and releasing the mutex.
Locked == {"test", "access", "update", "signal", "unlock"}
Locations == {"out", "lock", "blocked", "relock"} \cup Locked

Calls(t) == IF t \in Producers THEN Pushes[t] ELSE Pops[t]

Elt(p) == <<p, calls[p] + 1>>   \* the elem of p's current queue_push

\* queue_init on malloc'ed memory: the slots hold anything.
queue_init ==
  /\ arr = [s \in Slots |-> Junk]
  /\ head = 0 /\ tail = 0 /\ size = 0
  /\ mutex = NoThread
  /\ empty_cvar = {} /\ full_cvar = {}

Init ==
  /\ queue_init
  /\ pc = [t \in Threads |-> "out"]
  /\ calls = [t \in Threads |-> 0]
  /\ ret_val = [c \in Consumers |-> Junk]
  /\ got = [c \in Consumers |-> <<>>]

Goto(t, l) == pc' = [pc EXCEPT ![t] = l]

data == <<arr, head, tail, size>>
client == <<calls, ret_val, got>>
-----------------------------------------------------------------------------
(* pthread primitives *)

Acquire(t) == mutex = NoThread /\ mutex' = t

Release == mutex' = NoThread

\* What a signal leaves blocked: one thread fewer, any of them.
AfterSignal(cvar) == IF cvar = {} THEN {cvar} ELSE {cvar \ {t} : t \in cvar}

\* A thread blocked on a condition variable wakes without a signal.
SpuriousWakeup(t) ==
  /\ t \in empty_cvar \cup full_cvar
  /\ empty_cvar' = empty_cvar \ {t}
  /\ full_cvar' = full_cvar \ {t}
  /\ Goto(t, "relock")
  /\ UNCHANGED <<data, mutex, client>>
-----------------------------------------------------------------------------
(* queue_push and queue_pop *)

Enter(t) ==
  /\ pc[t] = "out" /\ calls[t] < Calls(t)
  /\ Goto(t, "lock")
  /\ UNCHANGED <<data, mutex, empty_cvar, full_cvar, client>>

Lock(t) ==
  /\ pc[t] = "lock"
  /\ Acquire(t)
  /\ Goto(t, "test")
  /\ UNCHANGED <<data, empty_cvar, full_cvar, client>>

\* Mutant: `if` for `while`, the condition is not tested again.
AfterWait_If == "access"

\* Where a thread goes on when pthread_cond_wait returns: the while condition.
AfterWait == "test"

\* pthread_cond_wait takes the mutex again and returns.
Relock(t) ==
  /\ pc[t] = "relock"
  /\ Acquire(t)
  /\ Goto(t, AfterWait)
  /\ UNCHANGED <<data, empty_cvar, full_cvar, client>>

\* Mutant: off by one, the queue counts as full one element too late.
IsFull_Late == size > QUEUE_MAXLEN

IsFull == size = QUEUE_MAXLEN

PushTest(p) ==
  /\ pc[p] = "test"
  /\ IF IsFull
     THEN /\ full_cvar' = full_cvar \cup {p}
          /\ Release
          /\ Goto(p, "blocked")
     ELSE /\ Goto(p, "access")
          /\ UNCHANGED <<full_cvar, mutex>>
  /\ UNCHANGED <<data, empty_cvar, client>>

PushAccess(p) ==
  /\ pc[p] = "access"
  /\ arr' = [arr EXCEPT ![tail] = Elt(p)]
  /\ Goto(p, "update")
  /\ UNCHANGED <<head, tail, size, mutex, empty_cvar, full_cvar, client>>

\* Mutant: the index is advanced without wrapping at the last slot.
Succ_NoWrap(i) == IF i = QUEUE_MAXLEN - 1 THEN i ELSE i + 1

\* The slot after i.
Succ(i) == (i + 1) % QUEUE_MAXLEN

PushUpdate(p) ==
  /\ pc[p] = "update"
  /\ tail' = Succ(tail)
  /\ size' = size + 1
  /\ Goto(p, "signal")
  /\ UNCHANGED <<arr, head, mutex, empty_cvar, full_cvar, client>>

\* Mutant: signal only when the queue has just become non-empty.
PushSignal_FirstOnly(p) ==
  /\ pc[p] = "signal"
  /\ empty_cvar' \in IF size = 1 THEN AfterSignal(empty_cvar) ELSE {empty_cvar}
  /\ pc' = [t \in Threads |-> IF t = p THEN "unlock"
                              ELSE IF t \in empty_cvar \ empty_cvar' THEN "relock"
                              ELSE pc[t]]
  /\ UNCHANGED <<data, mutex, full_cvar, client>>

PushSignal(p) ==
  /\ pc[p] = "signal"
  /\ empty_cvar' \in AfterSignal(empty_cvar)
  /\ pc' = [t \in Threads |-> IF t = p THEN "unlock"
                              ELSE IF t \in empty_cvar \ empty_cvar' THEN "relock"
                              ELSE pc[t]]
  /\ UNCHANGED <<data, mutex, full_cvar, client>>

PushUnlock(p) ==
  /\ pc[p] = "unlock"
  /\ Release
  /\ calls' = [calls EXCEPT ![p] = @ + 1]
  /\ Goto(p, "out")
  /\ UNCHANGED <<data, empty_cvar, full_cvar, ret_val, got>>

PopTest(c) ==
  /\ pc[c] = "test"
  /\ IF size = 0
     THEN /\ empty_cvar' = empty_cvar \cup {c}
          /\ Release
          /\ Goto(c, "blocked")
     ELSE /\ Goto(c, "access")
          /\ UNCHANGED <<empty_cvar, mutex>>
  /\ UNCHANGED <<data, full_cvar, client>>

PopAccess(c) ==
  /\ pc[c] = "access"
  /\ ret_val' = [ret_val EXCEPT ![c] = arr[head]]
  /\ Goto(c, "update")
  /\ UNCHANGED <<data, mutex, empty_cvar, full_cvar, calls, got>>

PopUpdate(c) ==
  /\ pc[c] = "update"
  /\ head' = Succ(head)
  /\ size' = size - 1
  /\ Goto(c, "signal")
  /\ UNCHANGED <<arr, tail, mutex, empty_cvar, full_cvar, client>>

\* Mutant: pop signals the wrong condition variable.
PopSignal_EmptyCvar(c) ==
  /\ pc[c] = "signal"
  /\ empty_cvar' \in AfterSignal(empty_cvar)
  /\ pc' = [t \in Threads |-> IF t = c THEN "unlock"
                              ELSE IF t \in empty_cvar \ empty_cvar' THEN "relock"
                              ELSE pc[t]]
  /\ UNCHANGED <<data, mutex, full_cvar, client>>

PopSignal(c) ==
  /\ pc[c] = "signal"
  /\ full_cvar' \in AfterSignal(full_cvar)
  /\ pc' = [t \in Threads |-> IF t = c THEN "unlock"
                              ELSE IF t \in full_cvar \ full_cvar' THEN "relock"
                              ELSE pc[t]]
  /\ UNCHANGED <<data, mutex, empty_cvar, client>>

PopUnlock(c) ==
  /\ pc[c] = "unlock"
  /\ Release
  /\ calls' = [calls EXCEPT ![c] = @ + 1]
  /\ got' = [got EXCEPT ![c] = Append(@, ret_val[c])]
  /\ Goto(c, "out")
  /\ UNCHANGED <<data, empty_cvar, full_cvar, ret_val>>
-----------------------------------------------------------------------------
queue_push(p) == \/ PushTest(p) \/ PushAccess(p) \/ PushUpdate(p)
                 \/ PushSignal(p) \/ PushUnlock(p)

queue_pop(c) == \/ PopTest(c) \/ PopAccess(c) \/ PopUpdate(c)
                \/ PopSignal(c) \/ PopUnlock(c)

\* What a running thread does next, if nothing keeps it from doing it.
Step(t) == \/ Enter(t) \/ Lock(t) \/ Relock(t)
           \/ t \in Producers /\ queue_push(t)
           \/ t \in Consumers /\ queue_pop(t)

AllReturned == \A t \in Threads : pc[t] = "out" /\ calls[t] = Calls(t)

\* All calls have returned: the only state in which the program may stop.
Finished == AllReturned /\ UNCHANGED vars

Next == \/ \E t \in Threads : Step(t) \/ SpuriousWakeup(t)
        \/ Finished

\* A thread that can take a step takes one, in the end, and spurious wakeups
\* are not for ever.  The order in which the mutex is granted is left open: a
\* thread may be overtaken as long as others use the queue.
Fairness == /\ \A t \in Threads : WF_vars(Step(t))
            /\ <>[][\A t \in Threads : ~SpuriousWakeup(t)]_vars

Spec == Init /\ [][Next]_vars
FairSpec == Spec /\ Fairness
-----------------------------------------------------------------------------
(* Properties *)

\* Type invariant of queue_t and its callers: no index leaves the ring and size never
\* exceeds QUEUE_MAXLEN, whichever thread queue_push and queue_pop let run next.
TypeOK ==
  /\ arr \in [Slots -> Elem \cup {Junk}]
  /\ head \in Slots /\ tail \in Slots /\ size \in 0..QUEUE_MAXLEN
  /\ mutex \in Threads \cup {NoThread}
  /\ empty_cvar \subseteq Consumers /\ full_cvar \subseteq Producers
  /\ pc \in [Threads -> Locations]
  /\ calls \in [Threads -> Nat]
  /\ ret_val \in [Consumers -> Elem \cup {Junk}]
  /\ got \in [Consumers -> Seq(Elem)]

\* The three indices of queue_t agree at every step, and the slots they call
\* live were written: queue_pop never returns what queue_init left in arr.
RingConsistent ==
  /\ tail = (head + size) % QUEUE_MAXLEN
  /\ \A i \in 0..size - 1 : arr[(head + i) % QUEUE_MAXLEN] \in Elem

\* Consumers that are inside queue_pop, awake, and have yet to take an element;
\* producers that have added an element and have yet to signal it.  Together
\* they are what can still serve the elements that are in the queue.
Popping == {c \in Consumers : pc[c] \in {"lock", "relock", "test", "access", "update"}}
PushSignalling == {p \in Producers : pc[p] = "signal"}

\* The same for free slots.
Pushing == {p \in Producers : pc[p] \in {"lock", "relock", "test", "access", "update"}}
PopSignalling == {c \in Consumers : pc[c] = "signal"}

\* No wakeup is lost: while a consumer is blocked on empty_cvar and the queue
\* holds an element, somebody who will take it or signal it is awake; likewise
\* while a producer is blocked on full_cvar and a slot is free.  It takes the
\* two condition variables of queue_t, a signal on every push and pop (not only
\* on the first element), and the re-tests after every wait.
NoLostWakeup ==
  /\ empty_cvar # {} /\ size > 0 => Popping \cup PushSignalling # {}
  /\ full_cvar # {} /\ size < QUEUE_MAXLEN => Pushing \cup PopSignalling # {}

\* Every call returns when the pushes and pops of the program balance: nobody
\* stays blocked for ever, whatever the order in which the mutex is granted
\* ("a thread-safe FIFO queue", and the joins of runtime/tests/test.c).
AllCallsReturn == <>AllReturned
-----------------------------------------------------------------------------
(* Refinement of BoundedFifo: a push or a pop takes effect when it updates  *)
(* the indices.                                                             *)

Committed(t) == pc[t] \in {"signal", "unlock"}

Contents == [i \in 1..size |-> arr[(head + i - 1) % QUEUE_MAXLEN]]

SentSoFar == [p \in Producers |-> IF Committed(p) THEN calls[p] + 1 ELSE calls[p]]

GotSoFar == [c \in Consumers |-> IF Committed(c) THEN Append(got[c], ret_val[c])
                                  ELSE got[c]]

Fifo == INSTANCE BoundedFifo WITH buf <- Contents, sent <- SentSoFar, got <- GotSoFar

\* queue.c implements a bounded FIFO queue whose pushes and pops are atomic
\* (runtime/queue.h): elements come out once each, in the order they went in.
ImplementsFifo == Fifo!Spec
=============================================================================
