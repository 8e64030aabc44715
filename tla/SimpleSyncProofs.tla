-------------------------- MODULE SimpleSyncProofs --------------------------
(* Proofs about module SimpleSync: for any number of stages, channels and     *)
(* regions, as long as the regions come one after the other.                  *)
EXTENDS RegionsInSequence, SequenceTheorems, TLAPS

\* What main does next: operation number n + 1 of region r's block.
InBlock(r, n) == pc[Main] = Start[r] + n

\* Operations 1 to NUM_THREADS + 3 of a block: init, the delegates, join, load.
JoinOp == NUM_THREADS + 1

\* A worker's thread is not joined yet.
Live == {w \in Worker : state[w] \in {"run", "ended"}}
Started == {w \in Worker : state[w] # "none"}

\* The loop variable of main is in range, and 0 outside the two loops.
LoopInv ==
  /\ \A r \in Region : InBlock(r, 0) => loop[Main] < NUM_QUEUES
  /\ \A r \in Region : InBlock(r, JoinOp) => loop[Main] < NUM_THREADS
  /\ (\A r \in Region : ~InBlock(r, 0) /\ ~InBlock(r, JoinOp)) => loop[Main] = 0

\* A worker that has been started was delegated before; unless its thread was joined it
\* is in the table, main has not passed the join, and in the join not its slot.
ThreadInv ==
  /\ \A w \in Started : pc[Main] >= Start[w[1]] + w[2] + 2
  /\ ~undef => \A w \in Live :
       /\ pc[Main] <= Start[w[1]] + JoinOp /\ threads[w[2]] = w
       /\ InBlock(w[1], JoinOp) => loop[Main] <= w[2]
  /\ \A w \in Worker \ Started : pc[w] = 0 /\ \A q \in Channel : sent[w][q] = 0 /\ got[w][q] = <<>>

\* A worker that is past its store has stored, one that has ended has, and nobody else.
StoredInv ==
  /\ \A w \in Worker : (\E n \in 1..pc[w] : Program[w][n].op = "store") => w[2] \in out[w[1]]
  /\ \A w \in Started : state[w] # "run" => w[2] \in out[w[1]]
  /\ \A r \in Region : \A t \in out[r] : <<r, t>> \in Started

\* What was loaded of a region is final, as nothing of it is started after the load.
LoadedInv ==
  \A r \in Region : loaded[r] # None =>
    /\ pc[Main] >= Start[r] + JoinOp + 2
    /\ loaded[r] = {t \in Tid : <<r, t>> \in Started}

\* On channel q are the values of region r after the first n, which were consumed.
Stream(r, q, n) ==
  /\ \A m \in 1..Len(data_queues[q]) : data_queues[q][m] = <<r, n + m>>
  /\ \A t \in Tid : Uses(<<r, t>>, "produce", q) => sent[<<r, t>>][q] = n + Len(data_queues[q])
  /\ \A t \in Tid : Uses(<<r, t>>, "consume", q) => Len(got[<<r, t>>][q]) = n

\* sync_init empties the queues one after the other; from then on they are the region's.
StreamInv ==
  ~undef => \A r \in Region :
    /\ InBlock(r, 0) => \A q \in Channel : q < loop[Main] => data_queues[q] = <<>>
    /\ pc[Main] \in Start[r] + 1..Start[r] + JoinOp =>
         \A q \in Channel : \E n \in Nat : Stream(r, q, n)

\* As long as no thread could not be created the table is the region's.
HandleInv ==
  ~failed =>
    /\ ~undef
    /\ \A r \in Region, t \in Tid : pc[Main] \in Start[r] + t + 2..Start[r] + JoinOp =>
         /\ <<r, t>> \in Started /\ threads[t] = <<r, t>>
         /\ state[<<r, t>>] = "joined" => InBlock(r, JoinOp) /\ t < loop[Main]

IInv == TypeOK /\ LoopInv /\ ThreadInv /\ StoredInv /\ LoadedInv /\ StreamInv /\ StreamIntact /\ HandleInv
-----------------------------------------------------------------------------
(* Programs *)

LEMMA Numbers ==
  /\ NUM_THREADS \in Nat \ {0} /\ NUM_QUEUES \in Nat \ {0} /\ QUEUE_MAXLEN \in Nat \ {0}
  /\ \A t \in Tid : t \in Nat /\ t < NUM_THREADS
  /\ \A w \in Worker : w[1] \in Region /\ w[2] \in Tid /\ w = <<w[1], w[2]>>
  /\ Main \in Control /\ Main \notin Worker /\ \A w \in Worker : w \in Control
BY SyncAssumption DEF Tid, Worker, Control

\* The operations of a loop-replace block.
LEMMA BlockOps ==
  ASSUME NEW r \in Region
  PROVE  /\ Len(ReplaceBlock(r)) = NUM_THREADS + 3
         /\ ReplaceBlock(r)[1] = Do("init")
         /\ \A t \in Tid : ReplaceBlock(r)[t + 2] = DoOn("delegate", <<r, t>>)
         /\ ReplaceBlock(r)[NUM_THREADS + 2] = Do("join")
         /\ ReplaceBlock(r)[NUM_THREADS + 3] = DoOn("load", <<r, 0>>)
<1> DEFINE S == {Do("init"), Do("join"), DoOn("load", <<r, 0>>)} \cup {DoOn("delegate", <<r, t>>) : t \in Tid}
           A == <<Do("init")>>
           B == Delegates(r)
           C == <<Do("join"), DoOn("load", <<r, 0>>)>>
<1>0. /\ Do("init") \in S /\ Do("join") \in S /\ DoOn("load", <<r, 0>>) \in S
      /\ \A t \in Tid : DoOn("delegate", <<r, t>>) \in S
  OBVIOUS
<1> HIDE DEF S
<1>1. A \in Seq(S) /\ Len(A) = 1 /\ A[1] = Do("init")
  BY <1>0
<1>2. C \in Seq(S) /\ Len(C) = 2 /\ C[1] = Do("join") /\ C[2] = DoOn("load", <<r, 0>>)
  BY <1>0
<1>3. B \in Seq(S) /\ Len(B) = NUM_THREADS /\ \A n \in 1..NUM_THREADS : B[n] = DoOn("delegate", <<r, n - 1>>)
  <2>1. \A n \in 1..NUM_THREADS : n - 1 \in Tid
    BY Numbers DEF Tid
  <2>2. B = [n \in 1..NUM_THREADS |-> DoOn("delegate", <<r, n - 1>>)]
    BY DEF Delegates
  <2>3. \A n \in 1..NUM_THREADS : DoOn("delegate", <<r, n - 1>>) \in S
    BY <1>0, <2>1
  <2> HIDE DEF B
  <2>4. B \in [1..NUM_THREADS -> S] /\ \A n \in 1..NUM_THREADS : B[n] = DoOn("delegate", <<r, n - 1>>)
    BY <2>2, <2>3
  <2>5. B \in Seq(S) /\ Len(B) = NUM_THREADS
    BY <2>4, Numbers
  <2> QED
    BY <2>4, <2>5
<1>4. ReplaceBlock(r) = (A \o B) \o C
  BY DEF ReplaceBlock
<1> HIDE DEF A, B, C
<1>5. /\ A \o B \in Seq(S) /\ Len(A \o B) = 1 + NUM_THREADS
      /\ \A n \in 1..1 + NUM_THREADS : (A \o B)[n] = IF n <= 1 THEN A[n] ELSE B[n - 1]
  <2>1. /\ A \o B \in Seq(S) /\ Len(A \o B) = Len(A) + Len(B)
        /\ \A n \in 1..Len(A) + Len(B) : (A \o B)[n] = IF n <= Len(A) THEN A[n] ELSE B[n - Len(A)]
    <3>1. A \in Seq(S) /\ B \in Seq(S)
      BY <1>1, <1>3
    <3> QED
      BY <3>1, ConcatProperties
  <2>2. Len(A) = 1 /\ Len(B) = NUM_THREADS
    BY <1>1, <1>3
  <2> QED
    BY <2>1, <2>2
<1>6. /\ Len((A \o B) \o C) = 1 + NUM_THREADS + 2
      /\ \A n \in 1..1 + NUM_THREADS + 2 :
           ((A \o B) \o C)[n] = IF n <= 1 + NUM_THREADS THEN (A \o B)[n] ELSE C[n - (1 + NUM_THREADS)]
  <2>1. /\ Len((A \o B) \o C) = Len(A \o B) + Len(C)
        /\ \A n \in 1..Len(A \o B) + Len(C) :
             ((A \o B) \o C)[n] = IF n <= Len(A \o B) THEN (A \o B)[n] ELSE C[n - Len(A \o B)]
    BY <1>2, <1>5, ConcatProperties
  <2>2. Len(A \o B) = 1 + NUM_THREADS /\ Len(C) = 2 /\ NUM_THREADS \in Nat
    BY <1>2, <1>5, Numbers
  <2> QED
    BY <2>1, <2>2
<1>7. ASSUME NEW t \in Tid, NEW n \in Int, n = t + 2
      PROVE  ReplaceBlock(r)[n] = DoOn("delegate", <<r, t>>)
  <2>1. t \in Int /\ NUM_THREADS \in Nat /\ 0 <= t /\ t < NUM_THREADS
    BY Numbers DEF Tid
  <2>2. /\ n \in 1..1 + NUM_THREADS /\ n \in 1..1 + NUM_THREADS + 2
        /\ n - 1 \in 1..NUM_THREADS /\ (n - 1) - 1 = t /\ ~(n <= 1) /\ n <= 1 + NUM_THREADS
    BY <2>1, <1>7
  <2>3. ReplaceBlock(r)[n] = (A \o B)[n]
    BY <1>4, <1>6, <2>2
  <2>4. (A \o B)[n] = B[n - 1]
    BY <1>5, <2>2
  <2>5. \A m \in 1..NUM_THREADS : m - 1 = t => B[m] = DoOn("delegate", <<r, t>>)
    BY <1>3
  <2>6. B[n - 1] = DoOn("delegate", <<r, t>>)
    BY <2>2, <2>5
  <2> QED
    BY <2>3, <2>4, <2>6
<1>8. \A t \in Tid : ReplaceBlock(r)[t + 2] = DoOn("delegate", <<r, t>>)
  <2>1. \A t \in Tid : t + 2 \in Int
    BY Numbers
  <2> QED
    BY <1>7, <2>1
<1>9. \A n \in 1..1 + NUM_THREADS + 2 : n > 1 + NUM_THREADS => ReplaceBlock(r)[n] = C[n - (1 + NUM_THREADS)]
  <2>1. NUM_THREADS \in Nat
    BY Numbers
  <2> QED
    BY <1>4, <1>6, <2>1
<1>10. /\ ReplaceBlock(r)[NUM_THREADS + 2] = Do("join")
       /\ ReplaceBlock(r)[NUM_THREADS + 3] = DoOn("load", <<r, 0>>)
  <2>1. NUM_THREADS \in Nat
    BY Numbers
  <2>2. /\ NUM_THREADS + 2 \in 1..1 + NUM_THREADS + 2 /\ NUM_THREADS + 2 > 1 + NUM_THREADS
        /\ NUM_THREADS + 3 \in 1..1 + NUM_THREADS + 2 /\ NUM_THREADS + 3 > 1 + NUM_THREADS
        /\ (NUM_THREADS + 2) - (1 + NUM_THREADS) = 1 /\ (NUM_THREADS + 3) - (1 + NUM_THREADS) = 2
    BY <2>1
  <2> QED
    BY <1>2, <1>9, <2>2
<1>11. ReplaceBlock(r)[1] = Do("init") /\ Len(ReplaceBlock(r)) = NUM_THREADS + 3
  <2>1. /\ NUM_THREADS \in Nat /\ 1 \in 1..1 + NUM_THREADS /\ 1 \in 1..1 + NUM_THREADS + 2
        /\ 1 + NUM_THREADS + 2 = NUM_THREADS + 3 /\ 1 <= 1 + NUM_THREADS
    BY Numbers
  <2> QED
    BY <1>1, <1>4, <1>5, <1>6, <2>1
<1> QED
  BY <1>8, <1>10, <1>11

\* Main's program, operation by operation.
LEMMA MainOps ==
  ASSUME NEW r \in Region
  PROVE  /\ Start[r] \in Nat /\ Start[r] + NUM_THREADS + 3 <= Len(Program[Main])
         /\ Program[Main][Start[r] + 1] = Do("init")
         /\ \A t \in Tid : Program[Main][Start[r] + t + 2] = DoOn("delegate", <<r, t>>)
         /\ Program[Main][Start[r] + NUM_THREADS + 2] = Do("join")
         /\ Program[Main][Start[r] + NUM_THREADS + 3] = DoOn("load", <<r, 0>>)
<1>1. Start[r] \in Nat /\ Len(ReplaceBlock(r)) = NUM_THREADS + 3
  BY SequenceAssumption, BlockOps DEF MainInSequence
<1>2. \A n \in 1..NUM_THREADS + 3 : /\ Start[r] + n <= Len(Program[Main])
                                    /\ Program[Main][Start[r] + n] = ReplaceBlock(r)[n]
  BY <1>1, SequenceAssumption DEF MainInSequence
<1>3. /\ 1 \in 1..NUM_THREADS + 3 /\ NUM_THREADS + 2 \in 1..NUM_THREADS + 3
      /\ NUM_THREADS + 3 \in 1..NUM_THREADS + 3
      /\ \A t \in Tid : t + 2 \in 1..NUM_THREADS + 3 /\ Start[r] + (t + 2) = Start[r] + t + 2
      /\ Start[r] + (NUM_THREADS + 2) = Start[r] + NUM_THREADS + 2
      /\ Start[r] + (NUM_THREADS + 3) = Start[r] + NUM_THREADS + 3
  BY <1>1, Numbers
<1>4. \A t \in Tid : Program[Main][Start[r] + (t + 2)] = ReplaceBlock(r)[t + 2]
  BY <1>2, <1>3
<1> QED
  BY <1>1, <1>2, <1>3, <1>4, BlockOps

\* Every operation of main is one of a block, and of one block only.
LEMMA OneBlock ==
  ASSUME NEW r \in Region, NEW s \in Region, NEW p \in Nat,
         Start[r] <= p, p < Start[r] + NUM_THREADS + 3, Start[s] <= p, p < Start[s] + NUM_THREADS + 3
  PROVE  r = s
<1>1. /\ Start[r] \in Nat /\ Start[s] \in Nat
      /\ Len(ReplaceBlock(r)) = NUM_THREADS + 3 /\ Len(ReplaceBlock(s)) = NUM_THREADS + 3
  BY MainOps, BlockOps
<1>2. p + 1 \in BlockOf(r) /\ p + 1 \in BlockOf(s)
  <2>1. /\ BlockOf(r) = Start[r] + 1..Start[r] + (NUM_THREADS + 3)
        /\ BlockOf(s) = Start[s] + 1..Start[s] + (NUM_THREADS + 3)
    BY <1>1 DEF BlockOf
  <2>2. NUM_THREADS \in Nat
    BY Numbers
  <2> QED
    BY <1>1, <2>1, <2>2
<1> QED
  BY <1>2, SequenceAssumption DEF MainInSequence

LEMMA SomeBlock ==
  ASSUME NEW p \in Nat, p < Len(Program[Main])
  PROVE  \E r \in Region : \E n \in 0..NUM_THREADS + 2 : p = Start[r] + n
<1>1. p + 1 \in 1..Len(Program[Main])
  <2>1. Len(Program[Main]) \in Nat
    BY SyncAssumption, Numbers, LenProperties
  <2> QED
    BY <2>1
<1>2. PICK r \in Region : p + 1 \in BlockOf(r)
  BY <1>1, SequenceAssumption DEF MainInSequence
<1>3. Start[r] \in Nat /\ Len(ReplaceBlock(r)) = NUM_THREADS + 3
  BY MainOps, BlockOps
<1>4. p - Start[r] \in 0..NUM_THREADS + 2 /\ p = Start[r] + (p - Start[r])
  BY <1>2, <1>3, Numbers DEF BlockOf
<1> QED
  BY <1>4

\* What main does at each place of its program.
LEMMA MainPlaces ==
  ASSUME NEW p \in Nat, p < Len(Program[Main])
  PROVE  \E r \in Region :
           \/ p = Start[r] /\ Program[Main][p + 1] = Do("init")
           \/ \E t \in Tid : p = Start[r] + t + 1 /\ Program[Main][p + 1] = DoOn("delegate", <<r, t>>)
           \/ p = Start[r] + JoinOp /\ Program[Main][p + 1] = Do("join")
           \/ p = Start[r] + JoinOp + 1 /\ Program[Main][p + 1] = DoOn("load", <<r, 0>>)
<1>1. PICK r \in Region : \E n \in 0..NUM_THREADS + 2 : p = Start[r] + n
  BY SomeBlock
<1>2. PICK n \in 0..NUM_THREADS + 2 : p = Start[r] + n
  BY <1>1
<1>3. Start[r] \in Nat /\ NUM_THREADS \in Nat
  BY MainOps, Numbers
<1>4. CASE n = 0
  <2>1. p = Start[r] /\ p + 1 = Start[r] + 1
    BY <1>2, <1>3, <1>4
  <2> QED
    BY <2>1, MainOps
<1>5. CASE n \in 1..NUM_THREADS
  <2>1. PICK t \in Tid : n = t + 1
    <3>1. n - 1 \in Tid /\ n = (n - 1) + 1
      BY <1>3, <1>5 DEF Tid
    <3> QED
      BY <3>1
  <2>2. t \in Int
    BY Numbers
  <2>3. p = Start[r] + t + 1 /\ p + 1 = Start[r] + t + 2
    BY <1>2, <1>3, <2>1, <2>2
  <2> QED
    BY <2>3, MainOps
<1>6. CASE n = NUM_THREADS + 1
  <2>1. p = Start[r] + JoinOp /\ p + 1 = Start[r] + NUM_THREADS + 2
    BY <1>2, <1>3, <1>6 DEF JoinOp
  <2> QED
    BY <2>1, MainOps
<1>7. CASE n = NUM_THREADS + 2
  <2>1. p = Start[r] + JoinOp + 1 /\ p + 1 = Start[r] + NUM_THREADS + 3
    BY <1>2, <1>3, <1>7 DEF JoinOp
  <2> QED
    BY <2>1, MainOps
<1>8. n = 0 \/ n \in 1..NUM_THREADS \/ n = NUM_THREADS + 1 \/ n = NUM_THREADS + 2
  BY <1>2, <1>3
<1> QED
  BY <1>4, <1>5, <1>6, <1>7, <1>8

\* Only main initialises, delegates, joins and loads, at its place in a block.
LEMMA MainAt ==
  ASSUME TypeOK, NEW c \in Control
  PROVE  /\ At(c, "init") => c = Main /\ \E r \in Region : pc[Main] = Start[r]
         /\ At(c, "delegate") =>
              c = Main /\ \E r \in Region, t \in Tid : pc[Main] = Start[r] + t + 1 /\ Arg(c) = <<r, t>>
         /\ At(c, "join") => c = Main /\ \E r \in Region : pc[Main] = Start[r] + JoinOp
         /\ At(c, "load") =>
              c = Main /\ \E r \in Region : pc[Main] = Start[r] + JoinOp + 1 /\ Arg(c) = <<r, 0>>
<1>1. ASSUME NEW k \in {"init", "delegate", "join", "load"}, At(c, k)
      PROVE  /\ c = Main /\ pc[Main] \in Nat /\ pc[Main] < Len(Program[Main])
             /\ Program[Main][pc[Main] + 1].op = k
  <2>1. pc[c] \in Nat /\ pc[c] < Len(Program[c]) /\ Program[c][pc[c] + 1].op = k
    BY <1>1 DEF At, TypeOK
  <2>2. c \notin Worker
    <3>1. SUFFICES ASSUME c \in Worker PROVE FALSE
      OBVIOUS
    <3>2. pc[c] + 1 \in 1..Len(Program[c])
      <4>1. Len(Program[c]) \in Nat
        BY SyncAssumption, LenProperties
      <4> QED
        BY <2>1, <4>1
    <3>3. Program[c][pc[c] + 1].op \in {"produce", "consume", "store"}
      BY <3>1, <3>2, SequenceAssumption DEF WorkersPlain
    <3> QED
      BY <2>1, <3>3
  <2> QED
    BY <2>1, <2>2 DEF Control
<1>2. pc[Main] \in Nat /\ pc[Main] < Len(Program[Main]) =>
        \E r \in Region :
           \/ pc[Main] = Start[r] /\ Program[Main][pc[Main] + 1] = Do("init")
           \/ \E t \in Tid : /\ pc[Main] = Start[r] + t + 1
                             /\ Program[Main][pc[Main] + 1] = DoOn("delegate", <<r, t>>)
           \/ pc[Main] = Start[r] + JoinOp /\ Program[Main][pc[Main] + 1] = Do("join")
           \/ pc[Main] = Start[r] + JoinOp + 1 /\ Program[Main][pc[Main] + 1] = DoOn("load", <<r, 0>>)
  BY MainPlaces
<1>3. /\ Do("init").op = "init" /\ Do("join").op = "join"
      /\ \A x : DoOn("delegate", x).op = "delegate" /\ DoOn("delegate", x).at = x
      /\ \A x : DoOn("load", x).op = "load" /\ DoOn("load", x).at = x
  BY DEF Do, DoOn
<1>4. At(c, "init") => c = Main /\ \E r \in Region : pc[Main] = Start[r]
  BY <1>1, <1>2, <1>3
<1>5. At(c, "delegate") =>
        c = Main /\ \E r \in Region, t \in Tid : pc[Main] = Start[r] + t + 1 /\ Arg(c) = <<r, t>>
  <2>1. SUFFICES ASSUME At(c, "delegate")
                 PROVE  c = Main /\ \E r \in Region, t \in Tid : pc[Main] = Start[r] + t + 1 /\ Arg(c) = <<r, t>>
    OBVIOUS
  <2>2. c = Main /\ Program[Main][pc[Main] + 1].op = "delegate"
    BY <1>1, <2>1
  <2>3. PICK r \in Region, t \in Tid : /\ pc[Main] = Start[r] + t + 1
                                       /\ Program[Main][pc[Main] + 1] = DoOn("delegate", <<r, t>>)
    BY <1>1, <1>2, <1>3, <2>1, <2>2
  <2> QED
    BY <1>3, <2>2, <2>3 DEF Arg
<1>6. At(c, "join") => c = Main /\ \E r \in Region : pc[Main] = Start[r] + JoinOp
  BY <1>1, <1>2, <1>3
<1>7. At(c, "load") =>
        c = Main /\ \E r \in Region : pc[Main] = Start[r] + JoinOp + 1 /\ Arg(c) = <<r, 0>>
  <2>1. SUFFICES ASSUME At(c, "load")
                 PROVE  c = Main /\ \E r \in Region : pc[Main] = Start[r] + JoinOp + 1 /\ Arg(c) = <<r, 0>>
    OBVIOUS
  <2>2. c = Main /\ Program[Main][pc[Main] + 1].op = "load"
    BY <1>1, <2>1
  <2>3. PICK r \in Region : /\ pc[Main] = Start[r] + JoinOp + 1
                            /\ Program[Main][pc[Main] + 1] = DoOn("load", <<r, 0>>)
    BY <1>1, <1>2, <1>3, <2>1, <2>2
  <2> QED
    BY <1>3, <2>2, <2>3 DEF Arg
<1> QED
  BY <1>4, <1>5, <1>6, <1>7

\* The argument of an operation is of its kind.
LEMMA ArgType ==
  ASSUME TypeOK, NEW c \in Control
  PROVE  /\ \A k \in {"produce", "consume"} :
              At(c, k) => Arg(c) \in Channel /\ Uses(c, k, Arg(c))
         /\ \A k \in {"delegate", "load"} : At(c, k) => Arg(c) \in Worker
<1>1. ASSUME NEW k, At(c, k)
      PROVE  /\ pc[c] + 1 \in 1..Len(Program[c]) /\ Program[c][pc[c] + 1] \in Op
             /\ Program[c][pc[c] + 1].op = k
  <2>1. pc[c] \in Nat /\ pc[c] < Len(Program[c]) /\ Program[c] \in Seq(Op)
    BY <1>1, SyncAssumption DEF At, TypeOK
  <2>2. pc[c] + 1 \in 1..Len(Program[c])
    BY <2>1, LenProperties
  <2> QED
    BY <1>1, <2>1, <2>2, ElementOfSeq DEF At
<1>2. ASSUME NEW k \in {"produce", "consume"}, At(c, k)
      PROVE  Arg(c) \in Channel /\ Uses(c, k, Arg(c))
  <2> DEFINE o == Program[c][pc[c] + 1]
  <2>1. pc[c] + 1 \in 1..Len(Program[c]) /\ o \in Op /\ o.op = k
    BY <1>1, <1>2
  <2> HIDE DEF o
  <2>2. o \in [op : {"produce", "consume"}, at : Channel]
    BY <1>2, <2>1 DEF Op
  <2>3. o.at \in Channel /\ o = [op |-> k, at |-> o.at]
    BY <2>1, <2>2
  <2> QED
    BY <2>1, <2>3 DEF Uses, Arg, DoOn, o
<1>3. ASSUME NEW k \in {"delegate", "load"}, At(c, k)
      PROVE  Arg(c) \in Worker
  <2> DEFINE o == Program[c][pc[c] + 1]
  <2>1. o \in Op /\ o.op = k
    BY <1>1, <1>3
  <2> HIDE DEF o
  <2>2. o \in [op : {"delegate", "load"}, at : Worker]
    BY <1>3, <2>1 DEF Op
  <2> QED
    BY <2>2 DEF Arg, o
<1> QED
  BY <1>2, <1>3
-----------------------------------------------------------------------------
(* Types *)

LEMMA InitTypeOK == Init => TypeOK
<1>1. \A c \in Control : Len(Program[c]) \in Nat /\ 0 <= Len(Program[c])
  BY SyncAssumption, LenProperties
<1>2. Len(<<>>) = 0 /\ <<>> \in Seq(Region \X (Nat \ {0})) /\ 0 <= QUEUE_MAXLEN
  BY SyncAssumption
<1>3. SUFFICES ASSUME Init PROVE TypeOK
  OBVIOUS
<1>4. \A q \in Channel : data_queues[q] = <<>>
  BY <1>3 DEF Init
<1>5. /\ data_queues \in [Channel -> Seq(Region \X (Nat \ {0}))]
      /\ got \in [Worker -> [Channel -> Seq(Region \X (Nat \ {0}))]]
      /\ sent \in [Worker -> [Channel -> Nat]]
  BY <1>2, <1>3 DEF Init
<1>6. \A q \in Channel : Len(data_queues[q]) <= QUEUE_MAXLEN
  BY <1>2, <1>4
<1>7. pc \in [Control -> Nat] /\ \A c \in Control : pc[c] <= Len(Program[c])
  BY <1>1, <1>3 DEF Init
<1> QED
  BY <1>3, <1>5, <1>6, <1>7 DEF Init, TypeOK

LEMMA ReturnType ==
  ASSUME TypeOK, NEW c \in Control, NEW k, At(c, k), Return(c)
  PROVE  /\ pc' \in [Control -> Nat] /\ \A d \in Control : pc'[d] <= Len(Program[d])
         /\ pc'[c] = pc[c] + 1 /\ \A d \in Control : d # c => pc'[d] = pc[d]
<1>1. \A d \in Control : Len(Program[d]) \in Nat
  BY SyncAssumption, LenProperties
<1>2. /\ pc \in [Control -> Nat] /\ pc[c] < Len(Program[c]) /\ pc' = [pc EXCEPT ![c] = @ + 1]
      /\ \A d \in Control : pc[d] <= Len(Program[d])
  BY DEF At, TypeOK, Return
<1> QED
  BY <1>1, <1>2

LEMMA IterateType ==
  ASSUME TypeOK, NEW c \in Control, NEW k, At(c, k), NEW n \in Nat, Iterate(c, n)
  PROVE  /\ pc' \in [Control -> Nat] /\ \A d \in Control : pc'[d] <= Len(Program[d])
         /\ loop' \in [Control -> Nat]
         /\ \A d \in Control : d # c => pc'[d] = pc[d]
         /\ \/ loop[c] + 1 < n /\ loop'[c] = loop[c] + 1 /\ pc' = pc
            \/ ~(loop[c] + 1 < n) /\ loop'[c] = 0 /\ pc'[c] = pc[c] + 1
<1>0. /\ pc \in [Control -> Nat] /\ \A d \in Control : pc[d] <= Len(Program[d])
      /\ loop \in [Control -> Nat]
  BY DEF TypeOK
<1>1. CASE loop[c] + 1 < n
  BY <1>0, <1>1 DEF Iterate
<1>2. CASE ~(loop[c] + 1 < n)
  <2>1. Return(c) /\ loop' = [loop EXCEPT ![c] = 0]
    BY <1>2 DEF Iterate
  <2>2. loop' \in [Control -> Nat] /\ loop'[c] = 0
    BY <1>0, <2>1
  <2> QED
    BY <1>2, <2>1, <2>2, ReturnType
<1> QED
  BY <1>1, <1>2

LEMMA NextTypeOK == TypeOK /\ [Next]_vars => TypeOK'
<1> DEFINE Value == Region \X (Nat \ {0})
<1>1. SUFFICES ASSUME TypeOK, [Next]_vars PROVE TypeOK'
  OBVIOUS
<1>2. CASE UNCHANGED vars
  BY <1>1, <1>2 DEF TypeOK, vars
<1>3. ASSUME NEW w \in Worker, sync_produce(w) PROVE TypeOK'
  <2> DEFINE q == Arg(w)
             v == <<w[1], sent[w][q] + 1>>
  <2>1. w \in Control /\ At(w, "produce") /\ q \in Channel
    BY <1>1, <1>3, Numbers, ArgType DEF sync_produce
  <2>2. v \in Value
    BY <1>1, <2>1, Numbers DEF TypeOK
  <2>3. /\ data_queues \in [Channel -> Seq(Value)] /\ data_queues' = [data_queues EXCEPT ![q] = Append(@, v)]
        /\ Len(data_queues[q]) < QUEUE_MAXLEN /\ \A x \in Channel : Len(data_queues[x]) <= QUEUE_MAXLEN
    BY <1>1, <1>3 DEF sync_produce, HasRoom, TypeOK
  <2> HIDE DEF v
  <2>4. /\ Append(data_queues[q], v) \in Seq(Value)
        /\ Len(Append(data_queues[q], v)) = Len(data_queues[q]) + 1 /\ Len(data_queues[q]) \in Nat
    BY <2>1, <2>2, <2>3
  <2>5. Len(data_queues[q]) + 1 <= QUEUE_MAXLEN
    BY <2>3, <2>4, SyncAssumption
  <2>6. data_queues' \in [Channel -> Seq(Value)] /\ \A x \in Channel : Len(data_queues'[x]) <= QUEUE_MAXLEN
    BY <2>1, <2>3, <2>4, <2>5
  <2>7. sent' \in [Worker -> [Channel -> Nat]]
    BY <1>1, <1>3, <2>1 DEF sync_produce, TypeOK
  <2>8. Return(w) /\ UNCHANGED <<threads, loop, state, got, out, loaded, failed, undef>>
    BY <1>3 DEF sync_produce
  <2> QED
    BY <1>1, <2>1, <2>6, <2>7, <2>8, ReturnType DEF TypeOK
<1>4. ASSUME NEW w \in Worker, sync_consume(w) PROVE TypeOK'
  <2> DEFINE q == Arg(w)
  <2>1. w \in Control /\ At(w, "consume") /\ q \in Channel
    BY <1>1, <1>4, Numbers, ArgType DEF sync_consume
  <2>2. /\ data_queues \in [Channel -> Seq(Value)] /\ data_queues' = [data_queues EXCEPT ![q] = Tail(@)]
        /\ data_queues[q] # <<>> /\ \A x \in Channel : Len(data_queues[x]) <= QUEUE_MAXLEN
        /\ got \in [Worker -> [Channel -> Seq(Value)]]
        /\ got' = [got EXCEPT ![w][q] = Append(@, Head(data_queues[q]))]
    BY <1>1, <1>4 DEF sync_consume, TypeOK
  <2>3. /\ Tail(data_queues[q]) \in Seq(Value) /\ Head(data_queues[q]) \in Value
        /\ Len(Tail(data_queues[q])) = Len(data_queues[q]) - 1 /\ Len(data_queues[q]) \in Nat
    BY <2>1, <2>2, HeadTailProperties
  <2>4. Len(data_queues[q]) - 1 <= QUEUE_MAXLEN
    BY <2>1, <2>2, <2>3, SyncAssumption
  <2>5. data_queues' \in [Channel -> Seq(Value)] /\ \A x \in Channel : Len(data_queues'[x]) <= QUEUE_MAXLEN
    BY <2>1, <2>2, <2>3, <2>4
  <2>6. got' \in [Worker -> [Channel -> Seq(Value)]]
    <3>1. Append(got[w][q], Head(data_queues[q])) \in Seq(Value)
      BY <2>1, <2>2, <2>3
    <3> QED
      BY <2>1, <2>2, <3>1
  <2>7. Return(w) /\ UNCHANGED <<threads, loop, state, sent, out, loaded, failed, undef>>
    BY <1>4 DEF sync_consume
  <2> QED
    BY <1>1, <2>1, <2>5, <2>6, <2>7, ReturnType DEF TypeOK
<1>5. ASSUME NEW w \in Worker, Store(w) PROVE TypeOK'
  <2>1. w \in Control /\ At(w, "store") /\ Return(w)
    BY <1>5, Numbers DEF Store
  <2>2. out' \in [Region -> SUBSET Tid]
    BY <1>1, <1>5, Numbers DEF Store, TypeOK
  <2> QED
    BY <1>1, <1>5, <2>1, <2>2, ReturnType DEF Store, TypeOK
<1>6. ASSUME NEW w \in Worker, End(w) PROVE TypeOK'
  BY <1>1, <1>6 DEF End, TypeOK
<1>7. ASSUME NEW c \in Control, sync_delegate(c) PROVE TypeOK'
  <2>1. At(c, "delegate") /\ Return(c) /\ Arg(c) \in Worker
    BY <1>1, <1>7, ArgType DEF sync_delegate
  <2>2. /\ threads' \in [Tid -> Worker \cup {None, Dangling}]
        /\ state' \in [Worker -> {"none", "run", "ended", "joined"}]
    BY <1>1, <1>7, <2>1 DEF sync_delegate, TypeOK
  <2> QED
    BY <1>1, <1>7, <2>1, <2>2, ReturnType DEF sync_delegate, TypeOK
<1>8. ASSUME NEW c \in Control, sync_delegate_fails(c) PROVE TypeOK'
  <2>1. At(c, "delegate") /\ Return(c) /\ failed' \in BOOLEAN
    BY <1>8 DEF sync_delegate_fails
  <2>2. threads' \in [Tid -> Worker \cup {None, Dangling}]
    BY <1>1, <1>8 DEF sync_delegate_fails, TypeOK
  <2>3. UNCHANGED <<data_queues, loop, state, sent, got, out, loaded, undef>>
    BY <1>8 DEF sync_delegate_fails
  <2> QED
    BY <1>1, <2>1, <2>2, <2>3, ReturnType DEF TypeOK
<1>9. ASSUME NEW c \in Control, sync_join(c) PROVE TypeOK'
  <2>1. At(c, "join") /\ UNCHANGED <<threads, data_queues, sent, got, out, loaded, failed>>
    BY <1>9 DEF sync_join
  <2>2. /\ state' \in [Worker -> {"none", "run", "ended", "joined"}] /\ undef' \in BOOLEAN
        /\ Iterate(c, NUM_THREADS) \/ UNCHANGED <<pc, loop>>
    BY <1>1, <1>9 DEF sync_join, JoinBound, TypeOK
  <2>3. /\ pc' \in [Control -> Nat] /\ \A d \in Control : pc'[d] <= Len(Program[d])
        /\ loop' \in [Control -> Nat]
    <3>1. NUM_THREADS \in Nat
      BY Numbers
    <3>2. CASE Iterate(c, NUM_THREADS)
      BY <1>1, <2>1, <3>1, <3>2, IterateType
    <3>3. CASE UNCHANGED <<pc, loop>>
      BY <1>1, <3>3 DEF TypeOK
    <3> QED
      BY <2>2, <3>2, <3>3
  <2> QED
    BY <1>1, <2>1, <2>2, <2>3 DEF TypeOK
<1>10. ASSUME NEW c \in Control, sync_init(c) PROVE TypeOK'
  <2>1. /\ At(c, "init") /\ Iterate(c, NUM_QUEUES) /\ NUM_QUEUES \in Nat
        /\ UNCHANGED <<threads, state, sent, got, out, loaded, failed, undef>>
    BY <1>10, Numbers DEF sync_init
  <2>2. data_queues' \in [Channel -> Seq(Value)] /\ \A x \in Channel : Len(data_queues'[x]) <= QUEUE_MAXLEN
    <3>1. /\ data_queues' = [data_queues EXCEPT ![loop[c]] = <<>>] /\ data_queues \in [Channel -> Seq(Value)]
          /\ \A x \in Channel : Len(data_queues[x]) <= QUEUE_MAXLEN
      BY <1>1, <1>10 DEF sync_init, Reinit, TypeOK
    <3>2. <<>> \in Seq(Value) /\ Len(<<>>) = 0 /\ 0 <= QUEUE_MAXLEN
      BY SyncAssumption
    <3>3. \A x \in Channel : data_queues'[x] = data_queues[x] \/ data_queues'[x] = <<>>
      BY <3>1
    <3> QED
      BY <3>1, <3>2, <3>3
  <2> QED
    BY <1>1, <2>1, <2>2, IterateType DEF TypeOK
<1>11. ASSUME NEW c \in Control, Load(c) PROVE TypeOK'
  <2>1. At(c, "load") /\ Return(c) /\ Arg(c) \in Worker /\ Arg(c)[1] \in Region
    BY <1>1, <1>11, ArgType, Numbers DEF Load
  <2>2. loaded' \in [Region -> {None} \cup SUBSET Tid]
    BY <1>1, <1>11, <2>1 DEF Load, TypeOK
  <2> QED
    BY <1>1, <1>11, <2>1, <2>2, ReturnType DEF Load, TypeOK
<1> QED
  BY <1>1, <1>2, <1>3, <1>4, <1>5, <1>6, <1>7, <1>8, <1>9, <1>10, <1>11 DEF Next, Step

\* The types of the thread table and the channels are right, and no queue is ever
\* longer than its capacity: for any number of stages, channels and regions.
THEOREM TypeCorrect == Spec => []TypeOK
<1>1. Init => TypeOK
  BY InitTypeOK
<1>2. TypeOK /\ [Next]_vars => TypeOK'
  BY NextTypeOK
<1> QED
  BY <1>1, <1>2, PTL DEF Spec

-----------------------------------------------------------------------------
(* Steps, in terms of where main is in its program *)

OthersStay == \A w \in Worker : pc'[w] = pc[w]
Passes == pc'[Main] = pc[Main] + 1 /\ OthersStay
Advances(n) ==
  /\ \/ loop[Main] + 1 < n /\ loop'[Main] = loop[Main] + 1 /\ pc'[Main] = pc[Main]
     \/ loop[Main] + 1 = n /\ loop'[Main] = 0 /\ pc'[Main] = pc[Main] + 1
  /\ OthersStay

MainInits(r) ==
  /\ ~undef /\ pc[Main] = Start[r] /\ loop[Main] < NUM_QUEUES /\ Advances(NUM_QUEUES)
  /\ data_queues' = [data_queues EXCEPT ![loop[Main]] = <<>>]
  /\ UNCHANGED <<threads, state, sent, got, out, loaded, failed, undef>>

MainDelegates(r, t) ==
  /\ ~undef /\ pc[Main] = Start[r] + t + 1 /\ loop[Main] = 0 /\ Passes
  /\ threads' = [threads EXCEPT ![t] = <<r, t>>]
  /\ state' = [state EXCEPT ![<<r, t>>] = "run"]
  /\ UNCHANGED <<data_queues, loop, sent, got, out, loaded, failed, undef>>

MainFails(r, t) ==
  /\ ~undef /\ pc[Main] = Start[r] + t + 1 /\ loop[Main] = 0 /\ Passes
  /\ threads' \in {threads, [threads EXCEPT ![t] = Dangling]} /\ failed'
  /\ UNCHANGED <<data_queues, loop, state, sent, got, out, loaded, undef>>

Joins(w) ==
  \/ w = None /\ Advances(NUM_THREADS) /\ UNCHANGED <<state, undef>>
  \/ /\ w \in Worker /\ state[w] \in {"ended", "joined"} /\ Advances(NUM_THREADS)
     /\ undef' = (state[w] = "joined") /\ state' = [state EXCEPT ![w] = "joined"]
  \/ w = Dangling /\ undef' /\ UNCHANGED <<pc, loop, state>>

MainJoins(r) ==
  /\ ~undef /\ pc[Main] = Start[r] + JoinOp /\ loop[Main] < NUM_THREADS
  /\ Joins(threads[loop[Main]])
  /\ UNCHANGED <<threads, data_queues, sent, got, out, loaded, failed>>

MainLoads(r) ==
  /\ ~undef /\ pc[Main] = Start[r] + JoinOp + 1 /\ loop[Main] = 0 /\ Passes
  /\ loaded' = [loaded EXCEPT ![r] = out[r]]
  /\ UNCHANGED <<threads, data_queues, loop, state, sent, got, out, failed, undef>>

WorkerStep(w) == sync_produce(w) \/ sync_consume(w) \/ Store(w) \/ End(w)

\* A place of main's program is in one block, at one operation of it.
LEMMA OnePlace ==
  ASSUME NEW r \in Region, NEW m \in 0..NUM_THREADS + 2, NEW p, p = Start[r] + m
  PROVE  /\ \A s \in Region : Start[s] <= p /\ p <= Start[s] + NUM_THREADS + 2 => s = r
         /\ \A s \in Region, n \in 0..NUM_THREADS + 2 : p = Start[s] + n => s = r /\ n = m
<1>1. NUM_THREADS \in Nat /\ \A s \in Region : Start[s] \in Nat
  BY Numbers, MainOps
<1>2. p \in Nat /\ Start[r] <= p /\ p < Start[r] + NUM_THREADS + 3
  BY <1>1
<1>3. ASSUME NEW s \in Region, Start[s] <= p, p <= Start[s] + NUM_THREADS + 2 PROVE s = r
  <2>1. p < Start[s] + NUM_THREADS + 3
    BY <1>1, <1>2, <1>3
  <2> QED
    BY <1>2, <1>3, <2>1, OneBlock
<1>4. ASSUME NEW s \in Region, NEW n \in 0..NUM_THREADS + 2, p = Start[s] + n PROVE s = r /\ n = m
  <2>1. Start[s] <= p /\ p <= Start[s] + NUM_THREADS + 2
    BY <1>1, <1>4
  <2>2. s = r
    BY <1>3, <2>1
  <2> QED
    BY <1>1, <1>4, <2>2
<1> QED
  BY <1>3, <1>4

\* Every step is a worker's, or one of main at its place in a block.
LEMMA Steps ==
  ASSUME TypeOK, LoopInv, Next
  PROVE  \/ \E w \in Worker : WorkerStep(w)
         \/ \E r \in Region : MainInits(r) \/ MainJoins(r) \/ MainLoads(r)
         \/ \E r \in Region, t \in Tid : MainDelegates(r, t) \/ MainFails(r, t)
<1> USE DEF OthersStay
<1>0. PICK c \in Control : Step(c) \/ sync_delegate_fails(c)
  BY DEF Next
<1>1. /\ NUM_THREADS \in Nat /\ NUM_QUEUES \in Nat /\ \A r \in Region : Start[r] \in Nat
      /\ \A t \in Tid : t \in Nat /\ t < NUM_THREADS
  BY Numbers, MainOps
<1>2. Main \notin Worker /\ Main \in Control /\ \A w \in Worker : w \in Control /\ w # Main
  BY Numbers
<1>3. loop[Main] \in Nat /\ pc[Main] \in Nat
  BY <1>2 DEF TypeOK
<1>4. ASSUME NEW r \in Region, NEW m \in 0..NUM_THREADS + 2, m # 0, m # JoinOp, pc[Main] = Start[r] + m
      PROVE  loop[Main] = 0
  <2>1. 0 \in 0..NUM_THREADS + 2 /\ JoinOp \in 0..NUM_THREADS + 2
    BY <1>1 DEF JoinOp
  <2>2. \A s \in Region : ~InBlock(s, 0) /\ ~InBlock(s, JoinOp)
    BY <1>4, <2>1, OnePlace DEF InBlock
  <2> QED
    BY <2>2 DEF LoopInv
<1>5. ASSUME NEW r \in Region, NEW t \in Tid, pc[Main] = Start[r] + t + 1
      PROVE  loop[Main] = 0
  <2>1. /\ t + 1 \in 0..NUM_THREADS + 2 /\ t + 1 # 0 /\ t + 1 # JoinOp
        /\ pc[Main] = Start[r] + (t + 1)
    BY <1>1, <1>5 DEF JoinOp
  <2> QED
    BY <1>4, <2>1
<1>6. ASSUME NEW n \in Nat, NEW k, c = Main, At(c, k), Iterate(c, n), loop[Main] < n
      PROVE  Advances(n)
  BY <1>1, <1>2, <1>3, <1>6, IterateType DEF Advances
<1>7. ASSUME NEW k, c = Main, At(c, k), Return(c)
      PROVE  Passes
  BY <1>2, <1>7, ReturnType DEF Passes
<1>8. CASE c \in Worker /\ (sync_produce(c) \/ sync_consume(c) \/ Store(c) \/ End(c))
  BY <1>8 DEF WorkerStep
<1>9. CASE sync_delegate(c)
  <2>1. At(c, "delegate") /\ Return(c) /\ ~undef
    BY <1>9 DEF sync_delegate, At
  <2>2. PICK r \in Region, t \in Tid : pc[Main] = Start[r] + t + 1 /\ Arg(c) = <<r, t>> /\ c = Main
    BY <2>1, MainAt
  <2>3. loop[Main] = 0 /\ Passes
    BY <1>5, <1>7, <2>1, <2>2
  <2>4. MainDelegates(r, t)
    BY <1>9, <2>1, <2>2, <2>3 DEF MainDelegates, sync_delegate
  <2> QED
    BY <2>4
<1>10. CASE sync_delegate_fails(c)
  <2>1. At(c, "delegate") /\ Return(c) /\ ~undef
    BY <1>10 DEF sync_delegate_fails, At
  <2>2. PICK r \in Region, t \in Tid : pc[Main] = Start[r] + t + 1 /\ Arg(c) = <<r, t>> /\ c = Main
    BY <2>1, MainAt
  <2>3. loop[Main] = 0 /\ Passes
    BY <1>5, <1>7, <2>1, <2>2
  <2>4. MainFails(r, t)
    BY <1>10, <2>1, <2>2, <2>3 DEF MainFails, sync_delegate_fails
  <2> QED
    BY <2>4
<1>11. CASE sync_join(c)
  <2>1. At(c, "join") /\ ~undef
    BY <1>11 DEF sync_join, At
  <2>2. PICK r \in Region : pc[Main] = Start[r] + JoinOp /\ c = Main
    BY <2>1, MainAt
  <2>3. loop[Main] < NUM_THREADS
    BY <2>2 DEF LoopInv, InBlock
  <2>4. Iterate(c, JoinBound) => Advances(NUM_THREADS)
    BY <1>1, <1>6, <2>1, <2>2, <2>3 DEF JoinBound
  <2>5. Joins(threads[loop[Main]])
    BY <1>11, <2>2, <2>4 DEF sync_join, Joins, Joinable
  <2>6. MainJoins(r)
    BY <1>11, <2>1, <2>2, <2>3, <2>5 DEF MainJoins, sync_join
  <2> QED
    BY <2>6
<1>12. CASE sync_init(c)
  <2>1. At(c, "init") /\ ~undef /\ Iterate(c, NUM_QUEUES)
    BY <1>12 DEF sync_init, At
  <2>2. PICK r \in Region : pc[Main] = Start[r] /\ c = Main
    BY <2>1, MainAt
  <2>3. loop[Main] < NUM_QUEUES
    <3>1. InBlock(r, 0)
      BY <1>1, <2>2 DEF InBlock
    <3> QED
      BY <3>1 DEF LoopInv
  <2>4. Advances(NUM_QUEUES)
    BY <1>1, <1>6, <2>1, <2>2, <2>3
  <2>5. MainInits(r)
    BY <1>12, <2>1, <2>2, <2>3, <2>4 DEF MainInits, sync_init, Reinit
  <2> QED
    BY <2>5
<1>13. CASE Load(c)
  <2>1. At(c, "load") /\ Return(c) /\ ~undef
    BY <1>13 DEF Load, At
  <2>2. PICK r \in Region : pc[Main] = Start[r] + JoinOp + 1 /\ Arg(c) = <<r, 0>> /\ c = Main
    BY <2>1, MainAt
  <2>3. loop[Main] = 0
    <3>1. /\ JoinOp + 1 \in 0..NUM_THREADS + 2 /\ JoinOp + 1 # 0 /\ JoinOp + 1 # JoinOp
          /\ pc[Main] = Start[r] + (JoinOp + 1)
      BY <1>1, <2>2 DEF JoinOp
    <3> QED
      BY <1>4, <3>1
  <2>4. Passes
    BY <1>7, <2>1, <2>2
  <2>5. MainLoads(r)
    BY <1>13, <2>1, <2>2, <2>3, <2>4 DEF MainLoads, Load
  <2> QED
    BY <2>5
<1> QED
  BY <1>0, <1>8, <1>9, <1>10, <1>11, <1>12, <1>13 DEF Step

\* A worker's step leaves main, the table and the other workers alone.
LEMMA WorkerFrame ==
  ASSUME TypeOK, NEW w \in Worker, WorkerStep(w)
  PROVE  /\ state[w] = "run" /\ ~undef /\ state'[w] \in {"run", "ended"}
         /\ UNCHANGED <<threads, loop, loaded, failed, undef>>
         /\ pc'[Main] = pc[Main] /\ pc'[w] \in {pc[w], pc[w] + 1}
         /\ \A v \in Worker : v # w =>
              pc'[v] = pc[v] /\ state'[v] = state[v] /\ sent'[v] = sent[v] /\ got'[v] = got[v]
         /\ Live' = Live /\ Started' = Started
<1>1. Main \notin Worker /\ Main \in Control /\ w \in Control /\ w # Main
  BY Numbers
<1>2. /\ pc \in [Control -> Nat] /\ state \in [Worker -> {"none", "run", "ended", "joined"}]
      /\ sent \in [Worker -> [Channel -> Nat]]
      /\ got \in [Worker -> [Channel -> Seq(Region \X (Nat \ {0}))]]
  BY DEF TypeOK
<1>3. state[w] = "run" /\ ~undef
  BY <1>1 DEF WorkerStep, sync_produce, sync_consume, Store, End, At, Running
<1>4. /\ UNCHANGED <<threads, loop, loaded, failed, undef>>
      /\ pc' = pc \/ pc' = [pc EXCEPT ![w] = @ + 1]
      /\ state' = state \/ state' = [state EXCEPT ![w] = "ended"]
  BY DEF WorkerStep, sync_produce, sync_consume, Store, End, Return
<1>5. \A v \in Worker : v # w => sent'[v] = sent[v] /\ got'[v] = got[v]
  BY <1>2 DEF WorkerStep, sync_produce, sync_consume, Store, End
<1>6. /\ pc'[Main] = pc[Main] /\ pc'[w] \in {pc[w], pc[w] + 1}
      /\ \A v \in Worker : v # w => pc'[v] = pc[v]
  <2>1. \A v \in Worker : v \in Control
    BY Numbers
  <2> QED
    BY <1>1, <1>2, <1>4, <2>1
<1>7. /\ state'[w] \in {"run", "ended"} /\ \A v \in Worker : v # w => state'[v] = state[v]
  BY <1>2, <1>3, <1>4
<1>8. Live' = Live /\ Started' = Started
  BY <1>3, <1>7 DEF Live, Started
<1> QED
  BY <1>3, <1>4, <1>5, <1>6, <1>7, <1>8

-----------------------------------------------------------------------------
(* The invariant, conjunct by conjunct *)

\* The numbers of main's state that the proofs below compare.
LEMMA Places ==
  ASSUME TypeOK
  PROVE  /\ pc[Main] \in Nat /\ loop[Main] \in Nat /\ NUM_THREADS \in Nat /\ NUM_THREADS > 0
         /\ NUM_QUEUES \in Nat /\ NUM_QUEUES > 0 /\ JoinOp = NUM_THREADS + 1
         /\ \A r \in Region : Start[r] \in Nat
         /\ \A t \in Tid : t \in Nat /\ t < NUM_THREADS
         /\ \A w \in Worker : w[1] \in Region /\ w[2] \in Tid /\ w = <<w[1], w[2]>>
<1>1. pc \in [Control -> Nat] /\ loop \in [Control -> Nat] /\ Main \in Control
  BY Numbers DEF TypeOK
<1>2. NUM_THREADS \in Nat \ {0} /\ NUM_QUEUES \in Nat \ {0}
  BY Numbers
<1>3. /\ NUM_THREADS > 0 /\ NUM_QUEUES > 0
  BY <1>2
<1>4. \A r \in Region : Start[r] \in Nat
  BY MainOps
<1> QED
  BY <1>1, <1>2, <1>3, <1>4, Numbers DEF JoinOp

LEMMA LoopKept == TypeOK /\ LoopInv /\ [Next]_vars => LoopInv'
<1>1. SUFFICES ASSUME TypeOK, LoopInv, [Next]_vars PROVE LoopInv'
  OBVIOUS
<1>2. /\ pc[Main] \in Nat /\ loop[Main] \in Nat /\ NUM_THREADS \in Nat /\ NUM_THREADS > 0
      /\ NUM_QUEUES \in Nat /\ NUM_QUEUES > 0 /\ JoinOp = NUM_THREADS + 1
      /\ \A r \in Region : Start[r] \in Nat
  BY <1>1, Places
<1>3. ASSUME pc'[Main] = pc[Main], loop'[Main] = loop[Main] PROVE LoopInv'
  BY <1>1, <1>3 DEF LoopInv, InBlock
<1>4. ASSUME loop'[Main] = 0 PROVE LoopInv'
  BY <1>2, <1>4 DEF LoopInv, InBlock
<1>5. CASE UNCHANGED vars
  BY <1>3, <1>5 DEF vars
<1>6. ASSUME NEW w \in Worker, WorkerStep(w) PROVE LoopInv'
  BY <1>1, <1>3, <1>6, WorkerFrame
<1>7. ASSUME NEW r \in Region, MainInits(r) PROVE LoopInv'
  <2>1. CASE loop'[Main] = 0
    BY <1>4, <2>1
  <2>2. CASE pc'[Main] = pc[Main] /\ loop'[Main] < NUM_QUEUES
    <3>1. 0 \in 0..NUM_THREADS + 2 /\ JoinOp \in 0..NUM_THREADS + 2 /\ JoinOp # 0 /\ pc'[Main] = Start[r] + 0
      BY <1>2, <1>7, <2>2 DEF MainInits
    <3>2. \A s \in Region : ~(pc'[Main] = Start[s] + JoinOp)
      BY <3>1, OnePlace
    <3> QED
      BY <1>2, <2>2, <3>1, <3>2 DEF LoopInv, InBlock
  <2> QED
    BY <1>2, <1>7, <2>1, <2>2 DEF MainInits, Advances
<1>8. ASSUME NEW r \in Region, MainJoins(r) PROVE LoopInv'
  <2>1. CASE loop'[Main] = 0
    BY <1>4, <2>1
  <2>2. CASE pc'[Main] = pc[Main] /\ loop'[Main] < NUM_THREADS
    <3>1. 0 \in 0..NUM_THREADS + 2 /\ JoinOp \in 0..NUM_THREADS + 2 /\ JoinOp # 0 /\ pc'[Main] = Start[r] + JoinOp
      BY <1>2, <1>8, <2>2 DEF MainJoins
    <3>2. \A s \in Region : ~(pc'[Main] = Start[s] + 0)
      BY <3>1, OnePlace
    <3> QED
      BY <1>2, <2>2, <3>1, <3>2 DEF LoopInv, InBlock
  <2> QED
    BY <1>2, <1>8, <2>1, <2>2 DEF MainJoins, Joins, Advances
<1>9. ASSUME NEW r \in Region, MainLoads(r) PROVE LoopInv'
  BY <1>4, <1>9 DEF MainLoads
<1>10. ASSUME NEW r \in Region, NEW t \in Tid, MainDelegates(r, t) \/ MainFails(r, t) PROVE LoopInv'
  BY <1>4, <1>10 DEF MainDelegates, MainFails
<1> QED
  BY <1>1, <1>5, <1>6, <1>7, <1>8, <1>9, <1>10, Steps

\* A live worker's block is the one main is in, between the worker's start and the join.
LEMMA LiveBlock ==
  ASSUME TypeOK, ThreadInv, ~undef, NEW w \in Live
  PROVE  /\ w \in Worker /\ w \in Started /\ w[1] \in Region /\ w[2] \in Tid
         /\ Start[w[1]] + w[2] + 2 <= pc[Main] /\ pc[Main] <= Start[w[1]] + JoinOp
         /\ threads[w[2]] = w
         /\ \A r \in Region, m \in 0..NUM_THREADS + 2 : pc[Main] = Start[r] + m =>
              w[1] = r /\ w[2] + 2 <= m /\ m <= JoinOp
<1>1. /\ pc[Main] \in Nat /\ NUM_THREADS \in Nat /\ JoinOp = NUM_THREADS + 1
      /\ \A r \in Region : Start[r] \in Nat
      /\ \A t \in Tid : t \in Nat /\ t < NUM_THREADS
  BY Places
<1>2. w \in Worker /\ w \in Started /\ w[1] \in Region /\ w[2] \in Tid
  BY Places DEF Live, Started
<1>3. /\ Start[w[1]] + w[2] + 2 <= pc[Main] /\ pc[Main] <= Start[w[1]] + JoinOp
      /\ threads[w[2]] = w
  BY <1>2 DEF ThreadInv
<1>4. ASSUME NEW r \in Region, NEW m \in 0..NUM_THREADS + 2, pc[Main] = Start[r] + m
      PROVE  w[1] = r /\ w[2] + 2 <= m /\ m <= JoinOp
  <2>1. Start[w[1]] <= pc[Main] /\ pc[Main] <= Start[w[1]] + NUM_THREADS + 2
    BY <1>1, <1>2, <1>3
  <2>2. w[1] = r
    BY <1>2, <1>4, <2>1, OnePlace
  <2> QED
    BY <1>1, <1>2, <1>3, <1>4, <2>2
<1> QED
  BY <1>2, <1>3, <1>4

\* No worker is alive when main initialises, or loads the live-outs.
LEMMA NoneLive ==
  ASSUME TypeOK, ThreadInv, ~undef, NEW r \in Region,
         pc[Main] = Start[r] \/ pc[Main] = Start[r] + JoinOp + 1
  PROVE  Live = {}
<1>1. /\ pc[Main] \in Nat /\ NUM_THREADS \in Nat /\ JoinOp = NUM_THREADS + 1
      /\ \A s \in Region : Start[s] \in Nat
      /\ \A t \in Tid : t \in Nat /\ t < NUM_THREADS
  BY Places
<1>2. PICK m \in {0, JoinOp + 1} : pc[Main] = Start[r] + m
  BY <1>1
<1>3. m \in 0..NUM_THREADS + 2
  BY <1>1, <1>2
<1>4. ASSUME NEW w \in Live PROVE FALSE
  <2>1. w[2] + 2 <= m /\ m <= JoinOp /\ w[2] \in Nat
    BY <1>1, <1>2, <1>3, <1>4, LiveBlock
  <2> QED
    BY <1>1, <1>2, <2>1
<1> QED
  BY <1>4

LEMMA ThreadKept == TypeOK /\ TypeOK' /\ LoopInv /\ ThreadInv /\ [Next]_vars => ThreadInv'
<1>1. SUFFICES ASSUME TypeOK, TypeOK', LoopInv, ThreadInv, [Next]_vars PROVE ThreadInv'
  OBVIOUS
<1>2. /\ pc[Main] \in Nat /\ loop[Main] \in Nat /\ NUM_THREADS \in Nat /\ NUM_THREADS > 0
      /\ JoinOp = NUM_THREADS + 1 /\ \A r \in Region : Start[r] \in Nat
      /\ \A t \in Tid : t \in Nat /\ t < NUM_THREADS
      /\ \A w \in Worker : w[1] \in Region /\ w[2] \in Tid /\ w = <<w[1], w[2]>>
  BY <1>1, Places
<1> DEFINE Begun == \A w \in Started : pc[Main] >= Start[w[1]] + w[2] + 2
           InTable == ~undef => \A w \in Live :
             /\ pc[Main] <= Start[w[1]] + JoinOp /\ threads[w[2]] = w
             /\ pc[Main] = Start[w[1]] + JoinOp => loop[Main] <= w[2]
           Untouched == \A w \in Worker \ Started :
             pc[w] = 0 /\ \A q \in Channel : sent[w][q] = 0 /\ got[w][q] = <<>>
<1>3. ThreadInv <=> Begun /\ InTable /\ Untouched
  BY DEF ThreadInv, InBlock
<1>4. ThreadInv' <=> Begun' /\ InTable' /\ Untouched'
  BY DEF ThreadInv, InBlock
<1>5. CASE UNCHANGED vars
  BY <1>1, <1>5 DEF vars, ThreadInv, InBlock, Live, Started
<1>6. ASSUME NEW w \in Worker, WorkerStep(w) PROVE ThreadInv'
  <2>1. /\ Started' = Started /\ Live' = Live /\ undef' = undef /\ threads' = threads /\ loop' = loop
        /\ pc'[Main] = pc[Main] /\ w \in Started
        /\ \A v \in Worker : v # w => pc'[v] = pc[v] /\ sent'[v] = sent[v] /\ got'[v] = got[v]
    BY <1>1, <1>6, WorkerFrame DEF Started
  <2> QED
    BY <1>1, <1>3, <1>4, <2>1
<1>7. ASSUME NEW r \in Region, MainInits(r) PROVE ThreadInv'
  <2>1. /\ Started' = Started /\ Live' = Live /\ pc'[Main] >= pc[Main] /\ pc'[Main] \in Nat
        /\ UNCHANGED <<sent, got>> /\ OthersStay
    BY <1>1, <1>2, <1>7, Places DEF MainInits, Advances, Started, Live
  <2>2. Live = {}
    BY <1>1, <1>7, NoneLive DEF MainInits
  <2>3. Begun'
    BY <1>1, <1>2, <1>3, <2>1 DEF Started
  <2>4. Untouched'
    BY <1>1, <1>3, <2>1 DEF OthersStay
  <2> QED
    BY <1>4, <2>1, <2>2, <2>3, <2>4
<1>8. ASSUME NEW r \in Region, MainLoads(r) PROVE ThreadInv'
  <2>1. /\ Started' = Started /\ Live' = Live /\ pc'[Main] >= pc[Main] /\ pc'[Main] \in Nat
        /\ UNCHANGED <<sent, got>> /\ OthersStay
    BY <1>1, <1>2, <1>8 DEF MainLoads, Passes, Started, Live
  <2>2. Live = {}
    BY <1>1, <1>8, NoneLive DEF MainLoads
  <2>3. Begun'
    BY <1>1, <1>2, <1>3, <2>1 DEF Started
  <2>4. Untouched'
    BY <1>1, <1>3, <2>1 DEF OthersStay
  <2> QED
    BY <1>4, <2>1, <2>2, <2>3, <2>4
<1>9. ASSUME NEW r \in Region, NEW t \in Tid, MainDelegates(r, t) PROVE ThreadInv'
  <2>1. /\ pc[Main] = Start[r] + t + 1 /\ pc'[Main] = Start[r] + t + 2 /\ ~undef /\ ~undef'
        /\ loop'[Main] = 0 /\ UNCHANGED <<sent, got>> /\ OthersStay
    BY <1>2, <1>9 DEF MainDelegates, Passes
  <2>2. /\ threads' = [threads EXCEPT ![t] = <<r, t>>] /\ state' = [state EXCEPT ![<<r, t>>] = "run"]
        /\ threads \in [Tid -> Worker \cup {None, Dangling}]
        /\ state \in [Worker -> {"none", "run", "ended", "joined"}] /\ <<r, t>> \in Worker
    BY <1>1, <1>9 DEF MainDelegates, TypeOK, Worker
  <2>3. Started' = Started \cup {<<r, t>>} /\ Live' = Live \cup {<<r, t>>}
    BY <2>2 DEF Started, Live
  <2>4. Begun'
    <3>1. ASSUME NEW w \in Started PROVE pc'[Main] >= Start[w[1]] + w[2] + 2
      <4>1. w \in Worker /\ pc[Main] >= Start[w[1]] + w[2] + 2
        BY <1>1, <1>3, <3>1 DEF Started
      <4> QED
        BY <1>2, <2>1, <4>1
    <3>2. pc'[Main] >= Start[<<r, t>>[1]] + <<r, t>>[2] + 2
      BY <1>2, <2>1
    <3> QED
      BY <2>3, <3>1, <3>2
  <2>5. \A w \in Live' : /\ pc'[Main] <= Start[w[1]] + JoinOp /\ threads'[w[2]] = w
                         /\ pc'[Main] = Start[w[1]] + JoinOp => loop'[Main] <= w[2]
    <3>1. ASSUME NEW w \in Live, w # <<r, t>>
          PROVE  w[1] = r /\ w[2] \in Tid /\ w[2] # t /\ threads[w[2]] = w
      <4>1. t + 1 \in 0..NUM_THREADS + 2 /\ pc[Main] = Start[r] + (t + 1)
        BY <1>2, <2>1
      <4>2. w[1] = r /\ w \in Worker /\ threads[w[2]] = w
        BY <1>1, <2>1, <4>1, LiveBlock
      <4> QED
        BY <1>2, <3>1, <4>2
    <3>2. pc'[Main] <= Start[r] + JoinOp
      BY <1>2, <2>1
    <3>3. \A w \in Live : w # <<r, t>> => threads'[w[2]] = w
      BY <2>2, <3>1
    <3>4. threads'[t] = <<r, t>> /\ \A u \in Tid : 0 <= u
      BY <1>2, <2>2
    <3>5. ASSUME NEW w \in Live'
          PROVE  w[1] = r /\ w[2] \in Tid /\ threads'[w[2]] = w
      BY <2>3, <3>1, <3>3, <3>4, <3>5
    <3> QED
      BY <2>1, <3>2, <3>4, <3>5
  <2>6. Untouched'
    BY <1>1, <1>3, <2>1, <2>3 DEF OthersStay
  <2> QED
    BY <1>4, <2>4, <2>5, <2>6
<1>10. ASSUME NEW r \in Region, NEW t \in Tid, MainFails(r, t) PROVE ThreadInv'
  <2>1. /\ pc[Main] = Start[r] + t + 1 /\ pc'[Main] = Start[r] + t + 2 /\ ~undef /\ ~undef'
        /\ loop'[Main] = 0 /\ UNCHANGED <<sent, got>> /\ OthersStay
        /\ Started' = Started /\ Live' = Live
    BY <1>2, <1>10 DEF MainFails, Passes, Started, Live
  <2>2. /\ threads' \in {threads, [threads EXCEPT ![t] = Dangling]}
        /\ threads \in [Tid -> Worker \cup {None, Dangling}]
    BY <1>1, <1>10 DEF MainFails, TypeOK
  <2>3. Begun'
    <3>1. ASSUME NEW w \in Started PROVE pc'[Main] >= Start[w[1]] + w[2] + 2
      <4>1. w \in Worker /\ pc[Main] >= Start[w[1]] + w[2] + 2
        BY <1>1, <1>3, <3>1 DEF Started
      <4> QED
        BY <1>2, <2>1, <4>1
    <3> QED
      BY <2>1, <3>1
  <2>4. \A w \in Live : /\ pc'[Main] <= Start[w[1]] + JoinOp /\ threads'[w[2]] = w
                        /\ pc'[Main] = Start[w[1]] + JoinOp => loop'[Main] <= w[2]
    <3>1. ASSUME NEW w \in Live
          PROVE  w[1] = r /\ w[2] \in Tid /\ w[2] # t /\ threads[w[2]] = w /\ 0 <= w[2]
      <4>1. t + 1 \in 0..NUM_THREADS + 2 /\ pc[Main] = Start[r] + (t + 1)
        BY <1>2, <2>1
      <4>2. w[1] = r /\ w \in Worker /\ threads[w[2]] = w /\ w[2] + 2 <= t + 1
        BY <1>1, <2>1, <4>1, LiveBlock
      <4> QED
        BY <1>2, <4>2
    <3>2. pc'[Main] <= Start[r] + JoinOp
      BY <1>2, <2>1
    <3>3. \A w \in Live : threads'[w[2]] = w
      BY <2>2, <3>1
    <3> QED
      BY <2>1, <3>1, <3>2, <3>3
  <2>5. Untouched'
    BY <1>1, <1>3, <2>1 DEF OthersStay
  <2> QED
    BY <1>4, <2>1, <2>3, <2>4, <2>5
<1>11. ASSUME NEW r \in Region, MainJoins(r) PROVE ThreadInv'
  <2> DEFINE h == threads[loop[Main]]
  <2>1. /\ pc[Main] = Start[r] + JoinOp /\ ~undef /\ loop[Main] < NUM_THREADS /\ threads' = threads
        /\ UNCHANGED <<sent, got>> /\ Joins(h)
    BY <1>11 DEF MainJoins
  <2>2. /\ OthersStay
        /\ \/ pc'[Main] = pc[Main] /\ loop'[Main] = loop[Main]
           \/ pc'[Main] = pc[Main] /\ loop'[Main] = loop[Main] + 1
           \/ pc'[Main] = pc[Main] + 1 /\ loop[Main] + 1 = NUM_THREADS
    BY <2>1 DEF Joins, Advances, OthersStay
  <2>3. Started' = Started
    BY <1>1, <2>1 DEF Joins, Started, TypeOK
  <2>4. Begun'
    <3>1. pc'[Main] >= pc[Main] /\ pc'[Main] \in Nat
      BY <1>2, <2>2
    <3>2. ASSUME NEW w \in Started PROVE pc'[Main] >= Start[w[1]] + w[2] + 2
      <4>1. w \in Worker /\ pc[Main] >= Start[w[1]] + w[2] + 2
        BY <1>1, <1>3, <3>2 DEF Started
      <4> QED
        BY <1>2, <3>1, <4>1
    <3> QED
      BY <2>3, <3>2
  <2>5. Untouched'
    BY <1>1, <1>3, <2>1, <2>2, <2>3 DEF OthersStay
  <2>6. InTable'
    <3>1. SUFFICES ASSUME ~undef', NEW w \in Live'
                   PROVE  /\ pc'[Main] <= Start[w[1]] + JoinOp /\ threads'[w[2]] = w
                          /\ pc'[Main] = Start[w[1]] + JoinOp => loop'[Main] <= w[2]
      OBVIOUS
    <3>2. w \in Live /\ w # h
      <4>1. state \in [Worker -> {"none", "run", "ended", "joined"}] /\ None \notin Worker
        BY <1>1, SyncAssumption DEF TypeOK
      <4>2. (h = None /\ state' = state) \/ (h \in Worker /\ state' = [state EXCEPT ![h] = "joined"])
        BY <2>1, <3>1 DEF Joins
      <4> HIDE DEF h
      <4>3. w \in Worker /\ state'[w] \in {"run", "ended"}
        BY <3>1 DEF Live
      <4>4. w # h
        BY <4>1, <4>2, <4>3
      <4>5. state[w] \in {"run", "ended"}
        BY <4>1, <4>2, <4>3, <4>4
      <4> QED
        BY <4>3, <4>4, <4>5 DEF Live
    <3>3. w[1] = r /\ w[2] \in Tid /\ threads[w[2]] = w
      <4>1. JoinOp \in 0..NUM_THREADS + 2
        BY <1>2
      <4> QED
        BY <1>1, <2>1, <3>2, <4>1, LiveBlock
    <3>4. loop[Main] <= w[2] /\ w[2] # loop[Main]
      BY <1>1, <1>3, <2>1, <3>2, <3>3
    <3>5. w[2] \in Nat /\ w[2] < NUM_THREADS /\ loop[Main] + 1 <= w[2]
      BY <1>2, <3>3, <3>4
    <3>6. pc'[Main] = pc[Main] /\ loop'[Main] <= w[2]
      BY <1>2, <2>2, <3>5
    <3>7. pc'[Main] <= Start[w[1]] + JoinOp
      BY <1>2, <2>1, <3>3, <3>6
    <3> QED
      BY <2>1, <3>3, <3>6, <3>7
  <2> QED
    BY <1>4, <2>4, <2>5, <2>6
<1> QED
  BY <1>1, <1>5, <1>6, <1>7, <1>8, <1>9, <1>10, <1>11, Steps

LEMMA StoredKept == TypeOK /\ TypeOK' /\ LoopInv /\ StoredInv /\ [Next]_vars => StoredInv'
<1>1. SUFFICES ASSUME TypeOK, TypeOK', LoopInv, StoredInv, [Next]_vars PROVE StoredInv'
  OBVIOUS
<1>2. /\ state \in [Worker -> {"none", "run", "ended", "joined"}] /\ out \in [Region -> SUBSET Tid]
      /\ \A w \in Worker : pc[w] \in Nat
      /\ \A w \in Worker : w[1] \in Region /\ w[2] \in Tid /\ w = <<w[1], w[2]>>
  BY <1>1, Numbers DEF TypeOK
<1> DEFINE PastStore(w) == \E n \in 1..pc[w] : Program[w][n].op = "store"
<1>3. StoredInv <=> /\ \A w \in Worker : PastStore(w) => w[2] \in out[w[1]]
                    /\ \A w \in Started : state[w] # "run" => w[2] \in out[w[1]]
                    /\ \A r \in Region : \A t \in out[r] : <<r, t>> \in Started
  BY DEF StoredInv
<1>4. StoredInv' <=> /\ \A w \in Worker : PastStore(w)' => w[2] \in out'[w[1]]
                     /\ \A w \in Started' : state'[w] # "run" => w[2] \in out'[w[1]]
                     /\ \A r \in Region : \A t \in out'[r] : <<r, t>> \in Started'
  BY DEF StoredInv
\* Main changes the state of a worker only: it starts it, or joins it when it has ended.
<1>5. ASSUME out' = out, OthersStay,
             \A w \in Worker : \/ state'[w] = state[w] \/ state'[w] = "run"
                               \/ state'[w] = "joined" /\ state[w] \in {"ended", "joined"}
      PROVE  StoredInv'
  <2>1. \A w \in Worker : PastStore(w)' <=> PastStore(w)
    BY <1>5 DEF OthersStay
  <2>2. \A w \in Started : w \in Started'
    BY <1>5 DEF Started
  <2>3. \A w \in Started' : state'[w] # "run" => w \in Started /\ state[w] # "run"
    BY <1>5 DEF Started
  <2> HIDE DEF PastStore
  <2> QED
    BY <1>1, <1>3, <1>4, <1>5, <2>1, <2>2, <2>3
<1>6. CASE UNCHANGED vars
  BY <1>5, <1>6 DEF vars, OthersStay
<1>7. ASSUME NEW w \in Worker, WorkerStep(w) PROVE StoredInv'
  <2>1. /\ state[w] = "run" /\ Started' = Started /\ w \in Started
        /\ \A v \in Worker : v # w => pc'[v] = pc[v] /\ state'[v] = state[v]
    BY <1>1, <1>7, WorkerFrame DEF Started
  <2>2. ASSUME NEW k \in {"produce", "consume", "store"}, At(w, k), Return(w)
        PROVE  PastStore(w)' => PastStore(w) \/ k = "store"
    <3>1. pc'[w] = pc[w] + 1 /\ Program[w][pc[w] + 1].op = k
      BY <1>1, <2>2, ReturnType, Numbers DEF At
    <3>2. \A n \in 1..pc[w] + 1 : n \in 1..pc[w] \/ n = pc[w] + 1
      BY <1>2
    <3> QED
      BY <3>1, <3>2
  <2>3. \A v \in Worker : v # w => (PastStore(v)' <=> PastStore(v))
    BY <2>1
  <2>4. CASE sync_produce(w) \/ sync_consume(w)
    <3>1. /\ out' = out /\ state' = state /\ Return(w)
          /\ At(w, "produce") \/ At(w, "consume")
      BY <2>4 DEF sync_produce, sync_consume
    <3>2. PastStore(w)' => PastStore(w)
      BY <2>2, <3>1
    <3> HIDE DEF PastStore
    <3> QED
      BY <1>1, <1>3, <1>4, <2>1, <2>3, <3>1, <3>2
  <2>5. CASE Store(w)
    <3>1. out' = [out EXCEPT ![w[1]] = @ \cup {w[2]}] /\ state' = state
      BY <2>5 DEF Store
    <3>2. w[2] \in out'[w[1]] /\ \A r \in Region : out[r] \subseteq out'[r]
      BY <1>2, <3>1
    <3>3. \A r \in Region : \A t \in out'[r] : t \in out[r] \/ <<r, t>> = w
      BY <1>2, <3>1
    <3> HIDE DEF PastStore
    <3>4. \A v \in Worker : PastStore(v)' => v[2] \in out'[v[1]]
      BY <1>1, <1>2, <1>3, <2>3, <3>2
    <3>5. \A v \in Started' : state'[v] # "run" => v[2] \in out'[v[1]]
      BY <1>1, <1>2, <1>3, <2>1, <3>1, <3>2 DEF Started
    <3>6. \A r \in Region : \A t \in out'[r] : <<r, t>> \in Started'
      BY <1>1, <1>3, <2>1, <3>3
    <3> QED
      BY <1>4, <3>4, <3>5, <3>6
  <2>6. CASE End(w)
    <3>1. /\ out' = out /\ pc' = pc /\ pc[w] = Len(Program[w])
      BY <2>6 DEF End
    <3>2. PastStore(w)
      BY <3>1, SequenceAssumption DEF WorkersPlain
    <3>3. w[2] \in out[w[1]] /\ \A v \in Worker : PastStore(v)' <=> PastStore(v)
      BY <1>1, <1>3, <3>1, <3>2
    <3> HIDE DEF PastStore
    <3>4. \A v \in Started : state'[v] # "run" => v[2] \in out[v[1]]
      BY <1>1, <1>3, <2>1, <3>3 DEF Started
    <3> QED
      BY <1>1, <1>3, <1>4, <2>1, <3>1, <3>3, <3>4
  <2> QED
    BY <1>7, <2>4, <2>5, <2>6 DEF WorkerStep
<1>8. ASSUME NEW r \in Region, MainInits(r) \/ MainLoads(r) PROVE StoredInv'
  BY <1>5, <1>8 DEF MainInits, MainLoads, Advances, Passes
<1>9. ASSUME NEW r \in Region, NEW t \in Tid, MainDelegates(r, t) \/ MainFails(r, t) PROVE StoredInv'
  BY <1>2, <1>5, <1>9 DEF MainDelegates, MainFails, Passes
<1>10. ASSUME NEW r \in Region, MainJoins(r) PROVE StoredInv'
  <2> DEFINE h == threads[loop[Main]]
  <2>1. out' = out /\ Joins(h)
    BY <1>10 DEF MainJoins
  <2> HIDE DEF h
  <2>2. OthersStay
    BY <2>1 DEF Joins, Advances, OthersStay
  <2>3. \A w \in Worker : \/ state'[w] = state[w]
                          \/ state'[w] = "joined" /\ state[w] \in {"ended", "joined"}
    BY <1>2, <2>1 DEF Joins
  <2> QED
    BY <1>5, <2>1, <2>2, <2>3
<1> QED
  BY <1>1, <1>6, <1>7, <1>8, <1>9, <1>10, Steps

LEMMA LoadedKept ==
  TypeOK /\ TypeOK' /\ LoopInv /\ ThreadInv /\ StoredInv /\ LoadedInv /\ [Next]_vars => LoadedInv'
<1>1. SUFFICES ASSUME TypeOK, TypeOK', LoopInv, ThreadInv, StoredInv, LoadedInv, [Next]_vars
               PROVE  LoadedInv'
  OBVIOUS
<1>2. /\ pc[Main] \in Nat /\ NUM_THREADS \in Nat /\ JoinOp = NUM_THREADS + 1
      /\ \A r \in Region : Start[r] \in Nat
      /\ \A t \in Tid : t \in Nat /\ t < NUM_THREADS
  BY <1>1, Places
<1>3. /\ state \in [Worker -> {"none", "run", "ended", "joined"}] /\ out \in [Region -> SUBSET Tid]
      /\ loaded \in [Region -> {None} \cup SUBSET Tid]
  BY <1>1 DEF TypeOK
<1> DEFINE Begun(r) == {t \in Tid : <<r, t>> \in Started}
<1>4. ASSUME loaded' = loaded, Started' = Started, pc'[Main] \in {pc[Main], pc[Main] + 1}
      PROVE  LoadedInv'
  BY <1>1, <1>2, <1>4 DEF LoadedInv
<1>5. CASE UNCHANGED vars
  BY <1>4, <1>5 DEF vars, Started
<1>6. ASSUME NEW w \in Worker, WorkerStep(w) PROVE LoadedInv'
  BY <1>1, <1>4, <1>6, WorkerFrame
<1>7. ASSUME NEW r \in Region, MainInits(r) PROVE LoadedInv'
  BY <1>4, <1>7 DEF MainInits, Advances, Started
<1>8. ASSUME NEW r \in Region, MainLoads(r) PROVE LoadedInv'
  <2>1. /\ pc[Main] = Start[r] + JoinOp + 1 /\ pc'[Main] = Start[r] + JoinOp + 2 /\ Started' = Started
        /\ loaded' = [loaded EXCEPT ![r] = out[r]]
    BY <1>2, <1>8 DEF MainLoads, Passes, Started
  <2>2. Live = {}
    BY <1>1, <1>8, NoneLive DEF MainLoads
  <2>3. out[r] = Begun(r)
    <3>1. \A t \in out[r] : t \in Begun(r)
      BY <1>1, <1>3 DEF StoredInv
    <3>2. ASSUME NEW t \in Begun(r) PROVE t \in out[r]
      <4>1. <<r, t>> \in Started /\ state[<<r, t>>] # "run"
        BY <2>2, <3>2 DEF Live, Started
      <4>2. <<r, t>>[2] \in out[<<r, t>>[1]]
        BY <1>1, <4>1 DEF StoredInv
      <4> QED
        BY <4>2
    <3> QED
      BY <3>1, <3>2
  <2>4. \A s \in Region : s # r => loaded'[s] = loaded[s]
    BY <1>3, <2>1
  <2>5. loaded'[r] = Begun(r)
    BY <1>3, <2>1, <2>3
  <2>6. \A s \in Region : loaded'[s] # None => pc'[Main] >= Start[s] + JoinOp + 2
    BY <1>1, <1>2, <2>1, <2>4 DEF LoadedInv
  <2>7. \A s \in Region : loaded'[s] # None => loaded'[s] = Begun(s)
    BY <1>1, <2>4, <2>5 DEF LoadedInv
  <2> QED
    BY <2>1, <2>6, <2>7 DEF LoadedInv
<1>9. ASSUME NEW r \in Region, NEW t \in Tid, MainDelegates(r, t) PROVE LoadedInv'
  <2>1. /\ pc[Main] = Start[r] + t + 1 /\ pc'[Main] = pc[Main] + 1 /\ loaded' = loaded
        /\ state' = [state EXCEPT ![<<r, t>>] = "run"]
    BY <1>9 DEF MainDelegates, Passes
  <2>2. loaded[r] = None
    BY <1>1, <1>2, <2>1 DEF LoadedInv
  <2>3. \A s \in Region, u \in Tid : s # r => (<<s, u>> \in Started' <=> <<s, u>> \in Started)
    BY <1>3, <2>1 DEF Started
  <2>4. \A s \in Region : loaded'[s] # None => pc'[Main] >= Start[s] + JoinOp + 2
    BY <1>1, <1>2, <2>1 DEF LoadedInv
  <2>5. \A s \in Region : loaded'[s] # None => loaded'[s] = {u \in Tid : <<s, u>> \in Started'}
    BY <1>1, <2>1, <2>2, <2>3 DEF LoadedInv
  <2> QED
    BY <2>4, <2>5 DEF LoadedInv
<1>10. ASSUME NEW r \in Region, NEW t \in Tid, MainFails(r, t) PROVE LoadedInv'
  BY <1>4, <1>10 DEF MainFails, Passes, Started
<1>11. ASSUME NEW r \in Region, MainJoins(r) PROVE LoadedInv'
  <2> DEFINE h == threads[loop[Main]]
  <2>1. loaded' = loaded /\ Joins(h)
    BY <1>11 DEF MainJoins
  <2> HIDE DEF h
  <2>2. pc'[Main] \in {pc[Main], pc[Main] + 1}
    BY <2>1 DEF Joins, Advances
  <2>3. Started' = Started
    BY <1>3, <2>1 DEF Joins, Started
  <2> QED
    BY <1>4, <2>1, <2>2, <2>3
<1> QED
  BY <1>1, <1>5, <1>6, <1>7, <1>8, <1>9, <1>10, <1>11, Steps

LEMMA HandleKept ==
  TypeOK /\ TypeOK' /\ LoopInv /\ ThreadInv /\ HandleInv /\ [Next]_vars => HandleInv'
<1>1. SUFFICES ASSUME TypeOK, TypeOK', LoopInv, ThreadInv, HandleInv, [Next]_vars, ~failed'
               PROVE  HandleInv'
  BY DEF HandleInv
<1>2. /\ pc[Main] \in Nat /\ loop[Main] \in Nat /\ NUM_THREADS \in Nat /\ NUM_THREADS > 0
      /\ JoinOp = NUM_THREADS + 1 /\ \A r \in Region : Start[r] \in Nat
      /\ \A t \in Tid : t \in Nat /\ t < NUM_THREADS
  BY <1>1, Places
<1>3. /\ threads \in [Tid -> Worker \cup {None, Dangling}]
      /\ state \in [Worker -> {"none", "run", "ended", "joined"}]
      /\ \A r \in Region, t \in Tid : <<r, t>> \in Worker
  BY <1>1 DEF TypeOK, Worker
<1> DEFINE InTable(r, t) == <<r, t>> \in Started /\ threads[t] = <<r, t>>
           Within(r, t) == pc[Main] \in Start[r] + t + 2..Start[r] + JoinOp
           JoinedOne(r, t) == pc[Main] = Start[r] + JoinOp /\ t < loop[Main]
\* Only one block at a time matters, the one that main is in after the step.
<1>4. ASSUME NEW r \in Region, NEW m \in 0..NUM_THREADS + 2, pc'[Main] = Start[r] + m, ~undef',
             \A t \in Tid : t + 2 <= m /\ m <= JoinOp =>
               /\ InTable(r, t)'
               /\ state'[<<r, t>>] = "joined" => m = JoinOp /\ t < loop'[Main]
      PROVE  HandleInv'
  <2>1. SUFFICES ASSUME NEW s \in Region, NEW t \in Tid, Within(s, t)'
                 PROVE  InTable(s, t)' /\ (state'[<<s, t>>] = "joined" => JoinedOne(s, t)')
    BY <1>4 DEF HandleInv, InBlock
  <2>2. Start[s] <= pc'[Main] /\ pc'[Main] <= Start[s] + NUM_THREADS + 2
    BY <1>2, <1>4, <2>1
  <2>3. s = r
    BY <1>4, <2>2, OnePlace
  <2>4. t + 2 <= m /\ m <= JoinOp
    BY <1>2, <1>4, <2>1, <2>3
  <2> QED
    BY <1>2, <1>4, <2>3, <2>4
<1>5. CASE UNCHANGED vars
  BY <1>1, <1>5 DEF vars, HandleInv, InBlock, Started
<1>6. ASSUME NEW w \in Worker, WorkerStep(w) PROVE HandleInv'
  <2>1. /\ UNCHANGED <<threads, loop, failed, undef>> /\ pc'[Main] = pc[Main] /\ Started' = Started
        /\ \A v \in Worker : state'[v] = "joined" => state[v] = "joined"
    BY <1>1, <1>6, WorkerFrame
  <2> QED
    BY <1>1, <1>3, <2>1 DEF HandleInv, InBlock
<1>7. ASSUME NEW r \in Region, MainInits(r) PROVE HandleInv'
  <2>1. ~undef' /\ (pc'[Main] = Start[r] + 0 \/ pc'[Main] = Start[r] + 1)
    BY <1>2, <1>7 DEF MainInits, Advances
  <2>2. PICK m \in {0, 1} : pc'[Main] = Start[r] + m
    BY <2>1
  <2>3. m \in 0..NUM_THREADS + 2 /\ \A t \in Tid : ~(t + 2 <= m)
    BY <1>2, <2>2
  <2> QED
    BY <1>4, <2>1, <2>2, <2>3
<1>8. ASSUME NEW r \in Region, MainLoads(r) PROVE HandleInv'
  <2>1. ~undef' /\ pc'[Main] = pc[Main] + 1 /\ pc[Main] = Start[r] + JoinOp + 1
    BY <1>8 DEF MainLoads, Passes
  <2>2. \A s \in Region, t \in Tid : ~Within(s, t)'
    <3>1. SUFFICES ASSUME NEW s \in Region, NEW t \in Tid, Within(s, t)' PROVE FALSE
      OBVIOUS
    <3>2. Start[s] <= pc[Main] /\ pc[Main] <= Start[s] + NUM_THREADS + 2
      BY <1>2, <2>1, <3>1
    <3>3. s = r
      <4>1. JoinOp + 1 \in 0..NUM_THREADS + 2 /\ pc[Main] = Start[r] + (JoinOp + 1)
        BY <1>2, <2>1
      <4> QED
        BY <3>2, <4>1, OnePlace
    <3> QED
      BY <1>2, <2>1, <3>1, <3>3
  <2> QED
    BY <2>1, <2>2 DEF HandleInv
<1>9. ASSUME NEW r \in Region, NEW t \in Tid, MainDelegates(r, t) PROVE HandleInv'
  <2>1. /\ pc[Main] = Start[r] + t + 1 /\ pc'[Main] = Start[r] + (t + 2) /\ ~failed /\ ~undef'
        /\ threads' = [threads EXCEPT ![t] = <<r, t>>] /\ state' = [state EXCEPT ![<<r, t>>] = "run"]
    BY <1>1, <1>2, <1>9 DEF MainDelegates, Passes
  <2>2. InTable(r, t)' /\ state'[<<r, t>>] = "run"
    BY <1>3, <2>1 DEF Started
  <2>3. ASSUME NEW u \in Tid, u < t PROVE InTable(r, u)' /\ state'[<<r, u>>] # "joined"
    <3>1. Within(r, u) /\ pc[Main] # Start[r] + JoinOp /\ u # t
      BY <1>2, <2>1, <2>3
    <3>2. InTable(r, u) /\ state[<<r, u>>] # "joined"
      BY <1>1, <2>1, <3>1 DEF HandleInv, InBlock
    <3>3. <<r, u>> # <<r, t>> /\ <<r, u>> \in Worker
      BY <1>3, <3>1
    <3>4. state'[<<r, u>>] = state[<<r, u>>] /\ threads'[u] = threads[u]
      BY <1>3, <2>1, <3>1, <3>3
    <3> QED
      BY <3>2, <3>3, <3>4 DEF Started
  <2>4. \A u \in Tid : u + 2 <= t + 2 => InTable(r, u)' /\ state'[<<r, u>>] # "joined"
    <3>1. \A u \in Tid : u + 2 <= t + 2 => u < t \/ u = t
      BY <1>2
    <3> QED
      BY <2>2, <2>3, <3>1
  <2>5. t + 2 \in 0..NUM_THREADS + 2
    BY <1>2
  <2> QED
    BY <1>4, <2>1, <2>4, <2>5
<1>10. ASSUME NEW r \in Region, NEW t \in Tid, MainFails(r, t) PROVE HandleInv'
  BY <1>1, <1>10 DEF MainFails
<1>11. ASSUME NEW r \in Region, MainJoins(r) PROVE HandleInv'
  <2> DEFINE l == loop[Main]
             w == <<r, l>>
  <2>1. /\ pc[Main] = Start[r] + JoinOp /\ l < NUM_THREADS /\ l \in Tid /\ w \in Worker
        /\ threads' = threads /\ ~failed /\ Joins(threads[l])
    BY <1>1, <1>2, <1>3, <1>11 DEF MainJoins, Tid
  <2>2. \A t \in Tid : InTable(r, t) /\ (state[<<r, t>>] = "joined" => t < l)
    <3>1. \A t \in Tid : Within(r, t)
      BY <1>2, <2>1
    <3> QED
      BY <1>1, <2>1, <3>1 DEF HandleInv, InBlock
  <2>3. threads[l] = w /\ state[w] # "joined"
    BY <1>2, <2>1, <2>2
  <2>4. w # None /\ w # Dangling
    BY <2>1, SyncAssumption
  <2>5. ~undef' /\ Advances(NUM_THREADS) /\ state' = [state EXCEPT ![w] = "joined"]
    BY <2>1, <2>3, <2>4 DEF Joins
  <2>6. Started' = Started
    BY <1>3, <2>1, <2>2, <2>5 DEF Started
  <2>7. CASE pc'[Main] = pc[Main] /\ loop'[Main] = l + 1
    <3>1. ASSUME NEW t \in Tid, state'[<<r, t>>] = "joined" PROVE t < l + 1
      <4>1. CASE t = l
        BY <1>2, <4>1
      <4>2. CASE t # l
        <5>1. <<r, t>> # w /\ <<r, t>> \in Worker
          BY <1>3, <4>2
        <5>2. state[<<r, t>>] = "joined"
          BY <1>3, <2>5, <3>1, <5>1
        <5>3. t < l
          BY <2>2, <5>2
        <5> QED
          BY <1>2, <5>3
      <4> QED
        BY <4>1, <4>2
    <3>2. JoinOp \in 0..NUM_THREADS + 2 /\ \A t \in Tid : InTable(r, t)'
      BY <1>2, <2>1, <2>2, <2>6
    <3> QED
      BY <1>4, <2>1, <2>5, <2>7, <3>1, <3>2
  <2>8. CASE pc'[Main] = pc[Main] + 1
    <3>1. JoinOp + 1 \in 0..NUM_THREADS + 2 /\ pc'[Main] = Start[r] + (JoinOp + 1) /\ ~(JoinOp + 1 <= JoinOp)
      BY <1>2, <2>1, <2>8
    <3> QED
      BY <1>4, <2>5, <3>1
  <2> QED
    BY <2>5, <2>7, <2>8 DEF Advances
<1> QED
  BY <1>1, <1>5, <1>6, <1>7, <1>8, <1>9, <1>10, <1>11, Steps

\* A value is put at the end of its channel's stream.
LEMMA ProduceStream ==
  ASSUME TypeOK, NEW r \in Region, NEW t \in Tid, sync_produce(<<r, t>>),
         NEW q \in Channel, NEW n \in Nat, Stream(r, q, n)
  PROVE  Stream(r, q, n)'
<1> DEFINE w == <<r, t>>
           d == Arg(w)
           v == <<r, sent[w][d] + 1>>
<1>1. w \in Worker /\ w \in Control /\ w[1] = r /\ At(w, "produce")
  BY Numbers DEF Worker, sync_produce
<1>2. d \in Channel /\ Uses(w, "produce", d)
  BY <1>1, ArgType
<1>3. /\ data_queues \in [Channel -> Seq(Region \X (Nat \ {0}))] /\ sent \in [Worker -> [Channel -> Nat]]
      /\ \A u \in Tid : <<r, u>> \in Worker
  BY DEF TypeOK, Worker
<1>4. /\ data_queues' = [data_queues EXCEPT ![d] = Append(@, v)]
      /\ sent' = [sent EXCEPT ![w][d] = @ + 1] /\ got' = got
  BY <1>1 DEF sync_produce
<1>5. CASE q # d
  <2>1. data_queues'[q] = data_queues[q] /\ \A u \in Tid : sent'[<<r, u>>][q] = sent[<<r, u>>][q]
    BY <1>1, <1>2, <1>3, <1>4, <1>5
  <2> QED
    BY <1>4, <2>1 DEF Stream
<1>6. CASE q = d
  <2> DEFINE L == Len(data_queues[q])
  <2>1. /\ L \in Nat /\ data_queues'[q] = Append(data_queues[q], v)
        /\ Len(data_queues'[q]) = L + 1 /\ data_queues'[q][L + 1] = v
        /\ \A m \in 1..L : data_queues'[q][m] = data_queues[q][m]
    <3>1. v \in Region \X (Nat \ {0}) /\ data_queues[q] \in Seq(Region \X (Nat \ {0}))
      BY <1>1, <1>2, <1>3
    <3>2. data_queues'[q] = Append(data_queues[q], v)
      BY <1>2, <1>3, <1>4, <1>6
    <3> HIDE DEF v
    <3> QED
      BY <3>1, <3>2, AppendProperties
  <2>2. sent[w][q] = n + L
    BY <1>2, <1>6 DEF Stream
  <2> HIDE DEF L
  <2>3. \A m \in 1..L + 1 : data_queues'[q][m] = <<r, n + m>>
    <3>1. \A m \in 1..L : data_queues[q][m] = <<r, n + m>>
      BY DEF Stream, L
    <3>2. v = <<r, n + (L + 1)>>
      BY <1>6, <2>1, <2>2
    <3>3. \A m \in 1..L + 1 : m \in 1..L \/ m = L + 1
      BY <2>1
    <3> HIDE DEF v
    <3> QED
      BY <2>1, <3>1, <3>2, <3>3
  <2>4. \A u \in Tid : Uses(<<r, u>>, "produce", q) => sent'[<<r, u>>][q] = n + (L + 1)
    <3>1. ASSUME NEW u \in Tid, Uses(<<r, u>>, "produce", q) PROVE u = t
      BY <1>2, <1>6, <3>1, SequenceAssumption DEF OneEachEnd
    <3>2. sent'[w][q] = n + (L + 1)
      BY <1>1, <1>2, <1>3, <1>4, <1>6, <2>1, <2>2
    <3> QED
      BY <3>1, <3>2
  <2>5. \A u \in Tid : Uses(<<r, u>>, "consume", q) => Len(got'[<<r, u>>][q]) = n
    BY <1>4 DEF Stream
  <2> QED
    BY <2>1, <2>3, <2>4, <2>5 DEF Stream
<1> QED
  BY <1>5, <1>6

\* A value is taken from the front of its channel's stream.
LEMMA ConsumeStream ==
  ASSUME TypeOK, NEW r \in Region, NEW t \in Tid, sync_consume(<<r, t>>),
         NEW q \in Channel, NEW n \in Nat, Stream(r, q, n)
  PROVE  /\ q # Arg(<<r, t>>) => Stream(r, q, n)'
         /\ q = Arg(<<r, t>>) =>
              /\ Stream(r, q, n + 1)' /\ Len(got[<<r, t>>][q]) = n
              /\ got'[<<r, t>>][q] = Append(got[<<r, t>>][q], <<r, n + 1>>)
<1> DEFINE w == <<r, t>>
           d == Arg(w)
<1>1. w \in Worker /\ w \in Control /\ w[1] = r /\ At(w, "consume")
  BY Numbers DEF Worker, sync_consume
<1>2. d \in Channel /\ Uses(w, "consume", d)
  BY <1>1, ArgType
<1>3. /\ data_queues \in [Channel -> Seq(Region \X (Nat \ {0}))]
      /\ got \in [Worker -> [Channel -> Seq(Region \X (Nat \ {0}))]]
      /\ \A u \in Tid : <<r, u>> \in Worker
  BY DEF TypeOK, Worker
<1>4. /\ data_queues[d] # <<>> /\ data_queues' = [data_queues EXCEPT ![d] = Tail(@)]
      /\ got' = [got EXCEPT ![w][d] = Append(@, Head(data_queues[d]))] /\ sent' = sent
  BY <1>1 DEF sync_consume
<1>5. CASE q # d
  <2>1. data_queues'[q] = data_queues[q] /\ \A u \in Tid : got'[<<r, u>>][q] = got[<<r, u>>][q]
    BY <1>1, <1>2, <1>3, <1>4, <1>5
  <2> QED
    BY <1>4, <1>5, <2>1 DEF Stream
<1>6. CASE q = d
  <2> DEFINE L == Len(data_queues[q])
  <2>1. /\ L \in Nat /\ L > 0 /\ Head(data_queues[q]) = data_queues[q][1]
        /\ Len(data_queues'[q]) = L - 1
        /\ \A m \in 1..L - 1 : data_queues'[q][m] = data_queues[q][m + 1]
    <3>1. data_queues[q] \in Seq(Region \X (Nat \ {0})) /\ data_queues[q] # <<>>
      BY <1>3, <1>4, <1>6
    <3>2. data_queues'[q] = Tail(data_queues[q])
      BY <1>2, <1>3, <1>4, <1>6
    <3>3. L \in Nat /\ L > 0
      BY <3>1
    <3> QED
      BY <3>1, <3>2, <3>3, HeadTailProperties
  <2>2. Len(got[w][q]) = n /\ \A m \in 1..L : data_queues[q][m] = <<r, n + m>>
    BY <1>2, <1>6 DEF Stream
  <2> HIDE DEF L
  <2>3. Head(data_queues[q]) = <<r, n + 1>>
    <3>1. 1 \in 1..L
      BY <2>1
    <3> QED
      BY <2>1, <2>2, <3>1
  <2>4. got'[w][q] = Append(got[w][q], <<r, n + 1>>)
    <3> DEFINE x == Append(got[w][q], Head(data_queues[q]))
    <3>1. got' = [got EXCEPT ![w][q] = x]
      BY <1>4, <1>6
    <3>2. x = Append(got[w][q], <<r, n + 1>>)
      BY <2>3
    <3> HIDE DEF x
    <3>3. got'[w][q] = x
      BY <1>1, <1>3, <3>1
    <3> QED
      BY <3>2, <3>3
  <2>5. \A m \in 1..L - 1 : data_queues'[q][m] = <<r, (n + 1) + m>>
    <3>1. ASSUME NEW m \in 1..L - 1 PROVE data_queues'[q][m] = <<r, (n + 1) + m>>
      <4>1. m + 1 \in 1..L /\ n + (m + 1) = (n + 1) + m
        BY <2>1
      <4>2. data_queues[q][m + 1] = <<r, n + (m + 1)>>
        BY <2>2, <4>1
      <4> QED
        BY <2>1, <4>1, <4>2
    <3> QED
      BY <3>1
  <2>6. \A u \in Tid : Uses(<<r, u>>, "produce", q) => sent'[<<r, u>>][q] = (n + 1) + (L - 1)
    <3>1. \A u \in Tid : Uses(<<r, u>>, "produce", q) => sent[<<r, u>>][q] = n + L
      BY DEF Stream, L
    <3>2. n + L = (n + 1) + (L - 1)
      BY <2>1
    <3> QED
      BY <1>4, <3>1, <3>2
  <2>7. \A u \in Tid : Uses(<<r, u>>, "consume", q) => Len(got'[<<r, u>>][q]) = n + 1
    <3>1. ASSUME NEW u \in Tid, Uses(<<r, u>>, "consume", q) PROVE u = t
      BY <1>2, <1>6, <3>1, SequenceAssumption DEF OneEachEnd
    <3>2. Len(got'[w][q]) = n + 1
      <4> DEFINE x == <<r, n + 1>>
      <4>1. x \in Region \X (Nat \ {0})
        OBVIOUS
      <4> HIDE DEF x
      <4>2. got[w][q] \in Seq(Region \X (Nat \ {0})) /\ got'[w][q] = Append(got[w][q], x)
        BY <1>1, <1>3, <2>4 DEF x
      <4>3. Len(Append(got[w][q], x)) = Len(got[w][q]) + 1
        BY <4>1, <4>2, AppendProperties
      <4> QED
        BY <2>2, <4>2, <4>3
    <3> QED
      BY <3>1, <3>2
  <2>8. Stream(r, q, n + 1)'
    BY <2>1, <2>5, <2>6, <2>7 DEF Stream
  <2> QED
    BY <1>6, <2>2, <2>4, <2>8
<1> QED
  BY <1>5, <1>6

LEMMA StreamKept ==
  TypeOK /\ TypeOK' /\ LoopInv /\ ThreadInv /\ StreamInv /\ StreamIntact /\ [Next]_vars
    => StreamInv' /\ StreamIntact'
<1>1. SUFFICES ASSUME TypeOK, TypeOK', LoopInv, ThreadInv, StreamInv, StreamIntact, [Next]_vars
               PROVE  StreamInv' /\ StreamIntact'
  OBVIOUS
<1>2. /\ pc[Main] \in Nat /\ loop[Main] \in Nat /\ NUM_THREADS \in Nat /\ NUM_THREADS > 0
      /\ NUM_QUEUES \in Nat /\ JoinOp = NUM_THREADS + 1 /\ \A r \in Region : Start[r] \in Nat
      /\ \A t \in Tid : t \in Nat /\ t < NUM_THREADS
      /\ \A w \in Worker : w[1] \in Region /\ w[2] \in Tid /\ w = <<w[1], w[2]>>
  BY <1>1, Places
<1>3. /\ data_queues \in [Channel -> Seq(Region \X (Nat \ {0}))]
      /\ got \in [Worker -> [Channel -> Seq(Region \X (Nat \ {0}))]]
      /\ \A r \in Region, t \in Tid : <<r, t>> \in Worker
      /\ pc'[Main] \in Nat
  <2>1. pc' \in [Control -> Nat] /\ Main \in Control
    BY <1>1, Numbers DEF TypeOK
  <2> QED
    BY <1>1, <2>1 DEF TypeOK, Worker
<1> DEFINE Streams(r) == \A q \in Channel : \E n \in Nat : Stream(r, q, n)
           Emptied == \A q \in Channel : q < loop[Main] => data_queues[q] = <<>>
\* The block main is in, before the step and after it.
<1>4. ASSUME NEW r \in Region, NEW m \in 0..NUM_THREADS + 2, pc[Main] = Start[r] + m, ~undef
      PROVE  (m = 0 => Emptied) /\ (m \in 1..JoinOp => Streams(r))
  <2>1. m = 0 => InBlock(r, 0)
    BY <1>4 DEF InBlock
  <2>2. m \in 1..JoinOp => pc[Main] \in Start[r] + 1..Start[r] + JoinOp
    BY <1>2, <1>4
  <2> QED
    BY <1>1, <1>4, <2>1, <2>2 DEF StreamInv
<1>5. ASSUME NEW r \in Region, NEW m \in 0..NUM_THREADS + 2, pc'[Main] = Start[r] + m,
             m = 0 => Emptied', m \in 1..JoinOp => Streams(r)'
      PROVE  StreamInv'
  <2>1. ASSUME NEW s \in Region, pc'[Main] = Start[s] + 0 PROVE Emptied'
    <3>1. 0 \in 0..NUM_THREADS + 2
      BY <1>2
    <3>2. m = 0
      BY <1>5, <2>1, <3>1, OnePlace
    <3> QED
      BY <1>5, <3>2
  <2>2. ASSUME NEW s \in Region, pc'[Main] \in Start[s] + 1..Start[s] + JoinOp PROVE Streams(s)'
    <3>1. Start[s] <= pc'[Main] /\ pc'[Main] <= Start[s] + NUM_THREADS + 2
      BY <1>2, <2>2
    <3>2. s = r
      BY <1>5, <3>1, OnePlace
    <3>3. m \in 1..JoinOp
      BY <1>2, <1>5, <2>2, <3>2
    <3> QED
      BY <1>5, <3>2, <3>3
  <2> QED
    BY <2>1, <2>2 DEF StreamInv, InBlock
\* Main leaves the streams as they are, except where it empties the queues.
<1>6. ASSUME UNCHANGED <<data_queues, sent, got>>
      PROVE  StreamIntact' /\ \A r \in Region : Streams(r) => Streams(r)'
  BY <1>1, <1>6 DEF StreamIntact, Stream
<1>7. CASE UNCHANGED vars
  BY <1>1, <1>7 DEF vars, StreamInv, StreamIntact, InBlock, Stream
<1>8. ASSUME NEW w \in Worker, WorkerStep(w) PROVE StreamInv' /\ StreamIntact'
  <2>1. PICK r \in Region, t \in Tid : w = <<r, t>>
    BY <1>2
  <2>2. /\ state[w] = "run" /\ ~undef /\ ~undef' /\ pc'[Main] = pc[Main]
    BY <1>1, <1>8, WorkerFrame
  <2>3. pc[Main] \in Start[r] + 1..Start[r] + JoinOp
    <3>1. w \in Live
      BY <2>2 DEF Live
    <3>2. w[1] = r /\ w[2] = t
      BY <2>1
    <3>3. Start[r] + t + 2 <= pc[Main] /\ pc[Main] <= Start[r] + JoinOp
      BY <1>1, <2>2, <3>1, <3>2, LiveBlock
    <3> QED
      BY <1>2, <3>3
  <2>4. PICK m \in 1..JoinOp : pc[Main] = Start[r] + m
    <3>1. pc[Main] - Start[r] \in 1..JoinOp /\ pc[Main] = Start[r] + (pc[Main] - Start[r])
      BY <1>2, <2>3
    <3> QED
      BY <3>1
  <2>5. m \in 0..NUM_THREADS + 2 /\ m # 0
    BY <1>2
  <2>6. Streams(r)
    BY <1>4, <2>2, <2>4, <2>5
  <2>7. Streams(r)' => StreamInv'
    BY <1>5, <2>2, <2>4, <2>5
  <2>8. CASE sync_produce(w)
    <3>1. Streams(r)'
      BY <1>1, <2>1, <2>6, <2>8, ProduceStream
    <3>2. got' = got
      BY <2>8 DEF sync_produce
    <3> QED
      BY <1>1, <2>7, <3>1, <3>2 DEF StreamIntact
  <2>9. CASE sync_consume(w)
    <3> DEFINE d == Arg(w)
    <3>1. Streams(r)'
      <4>1. SUFFICES ASSUME NEW q \in Channel PROVE \E n \in Nat : Stream(r, q, n)'
        OBVIOUS
      <4>2. PICK n \in Nat : Stream(r, q, n)
        BY <2>6
      <4>3. Stream(r, q, n)' \/ Stream(r, q, n + 1)'
        BY <1>1, <2>1, <2>9, <4>2, ConsumeStream
      <4> QED
        BY <4>3
    <3>2. d \in Channel
      BY <1>1, <2>9, Numbers, ArgType DEF sync_consume
    <3>3. PICK n \in Nat : Stream(r, d, n)
      BY <2>6, <3>2
    <3>4. Len(got[w][d]) = n /\ got'[w][d] = Append(got[w][d], <<r, n + 1>>)
      <4>1. sync_consume(<<r, t>>) /\ d = Arg(<<r, t>>)
        BY <2>1, <2>9
      <4> HIDE DEF d
      <4>2. Len(got[<<r, t>>][d]) = n /\ got'[<<r, t>>][d] = Append(got[<<r, t>>][d], <<r, n + 1>>)
        BY <1>1, <3>2, <3>3, <4>1, ConsumeStream
      <4> QED
        BY <2>1, <4>2
    <3>5. \A v \in Worker, q \in Channel : v # w \/ q # d => got'[v][q] = got[v][q]
      <4> DEFINE x == Append(got[w][d], Head(data_queues[d]))
      <4>1. got' = [got EXCEPT ![w][d] = x]
        BY <2>9 DEF sync_consume
      <4> HIDE DEF x, d
      <4>2. /\ \A v \in Worker : v # w => got'[v] = got[v]
            /\ \A q \in Channel : q # d => got'[w][q] = got[w][q]
        BY <1>3, <3>2, <4>1
      <4> QED
        BY <4>2
    <3>6. \A k \in DOMAIN got'[w][d] : got'[w][d][k] = <<w[1], k>>
      <4> DEFINE x == <<r, n + 1>>
                 g == got[w][d]
      <4>1. x \in Region \X (Nat \ {0}) /\ g \in Seq(Region \X (Nat \ {0})) /\ Len(g) = n
        BY <1>3, <3>2, <3>4
      <4>2. got'[w][d] = Append(g, x)
        BY <1>3, <3>2, <3>4
      <4>3. x = <<w[1], n + 1>> /\ \A k \in 1..n : g[k] = <<w[1], k>>
        <5>1. DOMAIN g = 1..n
          BY <4>1
        <5> QED
          BY <1>1, <2>1, <3>2, <5>1 DEF StreamIntact
      <4> HIDE DEF x, g
      <4>4. /\ DOMAIN Append(g, x) = 1..n + 1 /\ Append(g, x)[n + 1] = x
            /\ \A k \in 1..n : Append(g, x)[k] = g[k]
        <5>1. /\ Append(g, x) \in Seq(Region \X (Nat \ {0})) /\ Len(Append(g, x)) = n + 1
              /\ \A k \in 1..n : Append(g, x)[k] = g[k]
              /\ Append(g, x)[n + 1] = x
          BY <4>1, AppendProperties
        <5> QED
          BY <5>1
      <4>5. \A k \in 1..n + 1 : k \in 1..n \/ k = n + 1
        OBVIOUS
      <4> QED
        BY <4>2, <4>3, <4>4, <4>5
    <3>7. StreamIntact'
      <4>1. ASSUME NEW v \in Worker, NEW q \in Channel, NEW k \in DOMAIN got'[v][q]
            PROVE  got'[v][q][k] = <<v[1], k>>
        <5>1. CASE v = w /\ q = d
          BY <3>6, <4>1, <5>1
        <5>2. CASE ~(v = w /\ q = d)
          <6>1. got'[v][q] = got[v][q]
            BY <3>5, <5>2
          <6> QED
            BY <1>1, <4>1, <6>1 DEF StreamIntact
        <5> QED
          BY <5>1, <5>2
      <4> QED
        BY <4>1 DEF StreamIntact
    <3> QED
      BY <2>7, <3>1, <3>7
  <2>10. CASE Store(w) \/ End(w)
    BY <1>6, <2>6, <2>7, <2>10 DEF Store, End
  <2> QED
    BY <1>8, <2>8, <2>9, <2>10 DEF WorkerStep
<1>9. ASSUME NEW r \in Region, MainInits(r) PROVE StreamInv' /\ StreamIntact'
  <2> DEFINE l == loop[Main]
  <2>1. /\ pc[Main] = Start[r] + 0 /\ ~undef /\ l < NUM_QUEUES /\ l \in Channel
        /\ data_queues' = [data_queues EXCEPT ![l] = <<>>] /\ UNCHANGED <<sent, got>>
        /\ Advances(NUM_QUEUES)
    BY <1>2, <1>9 DEF MainInits, Channel
  <2>2. Emptied
    <3>1. 0 \in 0..NUM_THREADS + 2
      BY <1>2
    <3> QED
      BY <1>4, <2>1, <3>1
  <2>3. \A q \in Channel : q < l + 1 => data_queues'[q] = <<>>
    <3>1. \A q \in Channel : q \in Nat /\ (q < l + 1 => q < l \/ q = l)
      BY <1>2 DEF Channel
    <3> QED
      BY <1>3, <2>1, <2>2, <3>1
  <2>4. StreamIntact'
    BY <1>1, <2>1 DEF StreamIntact
  <2>5. CASE loop'[Main] = l + 1 /\ pc'[Main] = pc[Main]
    <3>1. 0 \in 0..NUM_THREADS + 2 /\ 0 \notin 1..JoinOp
      BY <1>2
    <3> QED
      BY <1>5, <2>1, <2>3, <2>4, <2>5, <3>1
  <2>6. CASE l + 1 = NUM_QUEUES /\ pc'[Main] = pc[Main] + 1
    <3>1. \A q \in Channel : data_queues'[q] = <<>>
      <4>1. \A q \in Channel : q < NUM_QUEUES
        BY <1>2 DEF Channel
      <4> QED
        BY <2>3, <2>6, <4>1
    <3>2. \A t \in Tid, q \in Channel : sent[<<r, t>>][q] = 0 /\ got[<<r, t>>][q] = <<>>
      <4>1. ASSUME NEW t \in Tid PROVE <<r, t>> \in Worker \ Started
        <5>1. SUFFICES ASSUME <<r, t>> \in Started PROVE FALSE
          BY <1>3
        <5>2. pc[Main] >= Start[<<r, t>>[1]] + <<r, t>>[2] + 2
          BY <1>1, <5>1 DEF ThreadInv
        <5> QED
          BY <1>2, <2>1, <5>2
      <4> QED
        BY <1>1, <4>1 DEF ThreadInv
    <3>3. \A q \in Channel : Stream(r, q, 0)'
      <4>1. Len(<<>>) = 0
        OBVIOUS
      <4>2. ASSUME NEW q \in Channel
            PROVE  /\ \A k \in 1..Len(data_queues'[q]) : data_queues'[q][k] = <<r, 0 + k>>
                   /\ \A t \in Tid : sent'[<<r, t>>][q] = 0 + Len(data_queues'[q])
                   /\ \A t \in Tid : Len(got'[<<r, t>>][q]) = 0
        BY <2>1, <3>1, <3>2, <4>1
      <4> QED
        BY <4>2 DEF Stream
    <3>4. Streams(r)'
      BY <3>3
    <3>5. 1 \in 0..NUM_THREADS + 2 /\ pc'[Main] = Start[r] + 1
      BY <1>2, <2>1, <2>6
    <3> QED
      BY <1>5, <2>4, <3>4, <3>5
  <2> QED
    BY <2>1, <2>5, <2>6 DEF Advances
<1>10. ASSUME NEW r \in Region, MainLoads(r) PROVE StreamInv' /\ StreamIntact'
  <2>1. /\ pc[Main] = Start[r] + JoinOp + 1 /\ pc'[Main] = pc[Main] + 1 /\ loop'[Main] = 0
        /\ UNCHANGED <<data_queues, sent, got>>
    BY <1>10 DEF MainLoads, Passes
  <2>2. Emptied'
    <3>1. \A q \in Channel : ~(q < 0)
      BY DEF Channel
    <3> QED
      BY <2>1, <3>1
  <2>3. ASSUME NEW s \in Region, pc'[Main] \in Start[s] + 1..Start[s] + JoinOp PROVE FALSE
    <3>1. Start[s] <= pc[Main] /\ pc[Main] <= Start[s] + NUM_THREADS + 2
      BY <1>2, <2>1, <2>3
    <3>2. s = r
      <4>1. JoinOp + 1 \in 0..NUM_THREADS + 2 /\ pc[Main] = Start[r] + (JoinOp + 1)
        BY <1>2, <2>1
      <4> QED
        BY <3>1, <4>1, OnePlace
    <3> QED
      BY <1>2, <2>1, <2>3, <3>2
  <2> QED
    BY <1>6, <2>1, <2>2, <2>3 DEF StreamInv
<1>11. ASSUME NEW r \in Region, NEW t \in Tid, MainDelegates(r, t) \/ MainFails(r, t)
       PROVE  StreamInv' /\ StreamIntact'
  <2>1. /\ pc[Main] = Start[r] + t + 1 /\ pc'[Main] = pc[Main] + 1 /\ ~undef
        /\ UNCHANGED <<data_queues, sent, got>>
    BY <1>11 DEF MainDelegates, MainFails, Passes
  <2>2. /\ pc[Main] = Start[r] + (t + 1) /\ t + 1 \in 0..NUM_THREADS + 2 /\ t + 1 \in 1..JoinOp
        /\ pc'[Main] = Start[r] + (t + 2) /\ t + 2 \in 0..NUM_THREADS + 2 /\ t + 2 # 0
    BY <1>2, <2>1
  <2>3. Streams(r)
    BY <1>4, <2>1, <2>2
  <2> QED
    BY <1>5, <1>6, <2>1, <2>2, <2>3
<1>12. ASSUME NEW r \in Region, MainJoins(r) PROVE StreamInv' /\ StreamIntact'
  <2>1. /\ pc[Main] = Start[r] + JoinOp /\ ~undef /\ UNCHANGED <<data_queues, sent, got>>
        /\ Joins(threads[loop[Main]])
    BY <1>12 DEF MainJoins
  <2>2. JoinOp \in 0..NUM_THREADS + 2 /\ JoinOp \in 1..JoinOp
    BY <1>2
  <2>3. Streams(r)
    BY <1>4, <2>1, <2>2
  <2>4. PICK m \in {JoinOp, JoinOp + 1} : pc'[Main] = Start[r] + m
    <3>1. pc'[Main] = pc[Main] \/ pc'[Main] = pc[Main] + 1
      BY <2>1 DEF Joins, Advances
    <3> QED
      BY <1>2, <2>1, <3>1
  <2>5. m \in 0..NUM_THREADS + 2 /\ m # 0
    BY <1>2, <2>4
  <2> QED
    BY <1>5, <1>6, <2>1, <2>3, <2>4, <2>5
<1> QED
  BY <1>1, <1>7, <1>8, <1>9, <1>10, <1>11, <1>12, Steps

-----------------------------------------------------------------------------
(* Theorems *)

LEMMA InitIInv == Init => IInv
<1>1. SUFFICES ASSUME Init PROVE IInv
  OBVIOUS
<1>2. TypeOK
  BY <1>1, InitTypeOK
<1>3. /\ pc[Main] = 0 /\ loop[Main] = 0 /\ NUM_THREADS \in Nat /\ NUM_THREADS > 0
      /\ NUM_QUEUES \in Nat /\ NUM_QUEUES > 0 /\ JoinOp = NUM_THREADS + 1
      /\ \A r \in Region : Start[r] \in Nat
      /\ \A t \in Tid : t \in Nat
      /\ \A w \in Worker : w \in Control /\ w[1] \in Region /\ w[2] \in Tid
  BY <1>1, <1>2, Places, Numbers DEF Init
<1>4. LoopInv
  BY <1>3 DEF LoopInv
<1>5. Started = {} /\ Live = {}
  BY <1>1 DEF Init, Started, Live
<1>6. ThreadInv
  BY <1>1, <1>3, <1>5 DEF Init, ThreadInv
<1>7. StoredInv
  <2>1. \A w \in Worker : pc[w] = 0
    BY <1>1, <1>3 DEF Init
  <2>2. \A r \in Region : out[r] = {}
    BY <1>1 DEF Init
  <2> QED
    BY <1>5, <2>1, <2>2 DEF StoredInv
<1>8. LoadedInv
  BY <1>1 DEF Init, LoadedInv
<1>9. StreamInv
  BY <1>1, <1>3 DEF Init, StreamInv, InBlock
<1>10. StreamIntact
  BY <1>1 DEF Init, StreamIntact
<1>11. HandleInv
  BY <1>1, <1>3 DEF Init, HandleInv
<1> QED
  BY <1>2, <1>4, <1>6, <1>7, <1>8, <1>9, <1>10, <1>11 DEF IInv

\* The invariant holds from the start, and every step keeps it.
THEOREM Inductive == Spec => []IInv
<1>1. Init => IInv
  BY InitIInv
<1>2. IInv /\ [Next]_vars => IInv'
  BY NextTypeOK, LoopKept, ThreadKept, StoredKept, LoadedKept, StreamKept, HandleKept DEF IInv
<1> QED
  BY <1>1, <1>2, PTL DEF Spec

\* sync_join and the load: whatever thread could not be created, what a region's block
\* loads was stored by every worker that was started for it.
THEOREM LoadsComplete == Spec => []JoinedBeforeLoad
<1>1. IInv => JoinedBeforeLoad
  BY DEF IInv, LoadedInv, JoinedBeforeLoad, Started, TypeOK, Worker
<1> QED
  BY <1>1, Inductive, PTL

\* sync_init finds no worker inside a queue: those of the regions before have been joined.
THEOREM QuietAtInit == Spec => []InitQuiet
<1>1. IInv => InitQuiet
  <2>1. SUFFICES ASSUME IInv, NEW c \in Control, At(c, "init"), NEW w \in Worker
                 PROVE  state[w] # "run"
    BY DEF InitQuiet
  <2>2. TypeOK /\ ThreadInv /\ ~undef
    BY <2>1 DEF IInv, At
  <2>3. \E r \in Region : pc[Main] = Start[r]
    BY <2>1, <2>2, MainAt
  <2>4. Live = {}
    BY <2>2, <2>3, NoneLive
  <2> QED
    BY <2>4 DEF Live
<1> QED
  BY <1>1, Inductive, PTL

\* Whatever earlier regions left in the queues, what a stage consumes on a channel is what
\* a stage of its region produced there, from the first value on and in order.
THEOREM StreamsIntact == Spec => []StreamIntact
<1>1. IInv => StreamIntact
  BY DEF IInv
<1> QED
  BY <1>1, Inductive, PTL

\* As long as pthread_create succeeds, sync_join joins the threads of its own region and
\* each of them once, although threads[] is never cleared.
THEOREM JoinsOnce == Spec => [](undef => failed)
<1>1. IInv => (undef => failed)
  BY DEF IInv, HandleInv
<1> QED
  BY <1>1, Inductive, PTL
=============================================================================
