---------------------------- MODULE BoundedFifo ----------------------------
(***************************************************************************)
(* What runtime/queue.h promises: "a thread-safe FIFO queue", in which a   *)
(* push takes effect at one instant at the back and blocks while the queue *)
(* is full, and a pop takes effect at one instant at the front and blocks  *)
(* while it is empty.  Module Queue, which models queue.c at the level of  *)
(* its mutex and condition variables, is shown to implement this module.   *)
(*                                                                         *)
(* Producer p pushes the elements <<p, 1>>, <<p, 2>>, ... and consumer c   *)
(* keeps what it pops, as the producers and consumers of                   *)
(* runtime/tests/test.c do; an element stands for an unsigned long long    *)
(* payload and is told apart by who pushed it and when.                    *)
(***************************************************************************)
EXTENDS Integers, Sequences

CONSTANTS Producers,      \* threads that call queue_push
          Consumers,      \* threads that call queue_pop
          QUEUE_MAXLEN,   \* capacity of the queue
          Pushes,         \* how many pushes each producer makes
          Pops            \* how many pops each consumer makes

VARIABLES buf,    \* the elements in the queue, oldest first
          sent,   \* number of pushes of each producer that took effect
          got     \* what each consumer has popped, in order

vars == <<buf, sent, got>>

Elem == Producers \X (Nat \ {0})

Init ==
  /\ buf = <<>>
  /\ sent = [p \in Producers |-> 0]
  /\ got = [c \in Consumers |-> <<>>]

\* "Pushes the specified element onto the end of the queue.  Blocks if the
\* queue is full." (runtime/queue.h)
Push(p) ==
  /\ sent[p] < Pushes[p]
  /\ Len(buf) < QUEUE_MAXLEN
  /\ buf' = Append(buf, <<p, sent[p] + 1>>)
  /\ sent' = [sent EXCEPT ![p] = @ + 1]
  /\ UNCHANGED got

\* "Pops the next element off the head of the queue.  Blocks if the queue is
\* empty." (runtime/queue.h)
Pop(c) ==
  /\ Len(got[c]) < Pops[c]
  /\ buf # <<>>
  /\ got' = [got EXCEPT ![c] = Append(@, Head(buf))]
  /\ buf' = Tail(buf)
  /\ UNCHANGED sent

Next == \/ \E p \in Producers : Push(p)
        \/ \E c \in Consumers : Pop(c)

Spec == Init /\ [][Next]_vars
=============================================================================
