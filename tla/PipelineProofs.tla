---------------------------- MODULE PipelineProofs ----------------------------
(***************************************************************************)
(* Theorems about the worker functions LoopSplit builds and about their    *)
(* runs in Pipeline, for every program, loop and path, any number of       *)
(* workers and any capacity of the queues.                                 *)
(***************************************************************************)
EXTENDS Pipeline, LoopCFGProofs, SequenceTheorems
-----------------------------------------------------------------------------
(* Sequences that have every member of a set, once *)

Lists(s, S) ==
  /\ s \in Seq(S)
  /\ \A x \in S : \E n \in 1..Len(s) : s[n] = x
  /\ \A n, m \in 1..Len(s) : s[n] = s[m] => n = m

LEMMA ListsEmpty == Lists(<<>>, {})
BY DEF Lists

LEMMA ListsOne ==
  ASSUME NEW x PROVE Lists(<<x>>, {x})
<1>1. <<x>> \in Seq({x}) /\ Len(<<x>>) = 1 /\ <<x>>[1] = x
  OBVIOUS
<1> QED
  BY <1>1 DEF Lists

LEMMA ListsConcat ==
  ASSUME NEW s, NEW S, Lists(s, S), NEW t, NEW T, Lists(t, T), S \cap T = {}
  PROVE  Lists(s \o t, S \cup T)
<1> DEFINE U == S \cup T
           r == s \o t
<1>1. s \in Seq(U) /\ t \in Seq(U) /\ Len(s) \in Nat /\ Len(t) \in Nat
  BY DEF Lists
<1>2. /\ r \in Seq(U) /\ Len(r) = Len(s) + Len(t)
      /\ \A n \in 1..Len(s) + Len(t) : r[n] = IF n <= Len(s) THEN s[n] ELSE t[n - Len(s)]
  BY <1>1, ConcatProperties
<1> HIDE DEF r
<1>3. ASSUME NEW x \in U PROVE \E n \in 1..Len(r) : r[n] = x
  <2>1. CASE x \in S
    <3>1. PICK n \in 1..Len(s) : s[n] = x
      BY <2>1 DEF Lists
    <3>2. n \in 1..Len(r) /\ n <= Len(s)
      BY <1>1, <1>2
    <3> QED
      BY <1>2, <3>1, <3>2
  <2>2. CASE x \in T
    <3>1. PICK n \in 1..Len(t) : t[n] = x
      BY <2>2 DEF Lists
    <3>2. n + Len(s) \in 1..Len(r) /\ ~(n + Len(s) <= Len(s)) /\ (n + Len(s)) - Len(s) = n
      BY <1>1, <1>2
    <3>3. r[n + Len(s)] = x
      BY <1>2, <3>1, <3>2
    <3> QED
      BY <3>2, <3>3
  <2> QED
    BY <2>1, <2>2
<1>4. ASSUME NEW n \in 1..Len(r)
      PROVE  \/ n \in 1..Len(s) /\ r[n] = s[n] /\ r[n] \in S
             \/ n \notin 1..Len(s) /\ n - Len(s) \in 1..Len(t) /\ r[n] = t[n - Len(s)] /\ r[n] \in T
  <2>1. CASE n <= Len(s)
    <3>1. n \in 1..Len(s) /\ r[n] = s[n]
      BY <1>1, <1>2, <2>1
    <3> QED
      BY <3>1 DEF Lists
  <2>2. CASE ~(n <= Len(s))
    <3>1. n \notin 1..Len(s) /\ n - Len(s) \in 1..Len(t) /\ r[n] = t[n - Len(s)]
      BY <1>1, <1>2, <2>2
    <3>2. t[n - Len(s)] \in T
      BY <3>1 DEF Lists
    <3> QED
      BY <3>1, <3>2
  <2> QED
    BY <2>1, <2>2
<1>5. ASSUME NEW n \in 1..Len(r), NEW m \in 1..Len(r), r[n] = r[m] PROVE n = m
  <2>1. (r[n] \in S <=> n \in 1..Len(s)) /\ (r[m] \in S <=> m \in 1..Len(s))
    BY <1>4
  <2>2. CASE n \in 1..Len(s)
    <3>1. m \in 1..Len(s) /\ s[n] = s[m]
      BY <1>4, <1>5, <2>1, <2>2
    <3> QED
      BY <2>2, <3>1 DEF Lists
  <2>3. CASE n \notin 1..Len(s)
    <3>1. m \notin 1..Len(s)
      BY <1>5, <2>1, <2>3
    <3>2. /\ n - Len(s) \in 1..Len(t) /\ r[n] = t[n - Len(s)]
          /\ m - Len(s) \in 1..Len(t) /\ r[m] = t[m - Len(s)]
      BY <1>4, <2>3, <3>1
    <3>3. n - Len(s) = m - Len(s)
      BY <1>5, <3>2 DEF Lists
    <3> QED
      BY <1>1, <1>2, <3>3
  <2> QED
    BY <2>2, <2>3
<1> QED
  BY <1>2, <1>3, <1>5 DEF Lists, r

LEMMA ListsAppend ==
  ASSUME NEW s, NEW S, Lists(s, S), NEW x, x \notin S
  PROVE  Lists(Append(s, x), S \cup {x})
<1>1. Lists(<<x>>, {x})
  BY ListsOne
<1>2. Lists(s \o <<x>>, S \cup {x})
  <2>1. S \cap {x} = {}
    OBVIOUS
  <2> QED
    BY <1>1, <2>1, ListsConcat
<1>3. s \o <<x>> = Append(s, x)
  <2>1. s \in Seq(S \cup {x})
    BY DEF Lists
  <2> QED
    BY <2>1, AppendIsConcat
<1> QED
  BY <1>2, <1>3

\* Part of a listing lists what is in it.
Between(s, p, q) == {s[m] : m \in p..q}

LEMMA ListsSub ==
  ASSUME NEW s, NEW S, Lists(s, S), NEW p \in 1..Len(s) + 1, NEW q \in 0..Len(s)
  PROVE  Lists(SubSeq(s, p, q), Between(s, p, q))
<1> DEFINE r == SubSeq(s, p, q)
           U == Between(s, p, q)
<1>1. s \in Seq(S) /\ Len(s) \in Nat /\ p \in Int /\ q \in Int /\ 1 <= p /\ q <= Len(s)
  BY DEF Lists
<1>2. /\ r \in Seq(U) /\ Len(r) = (IF p <= q THEN q - p + 1 ELSE 0)
      /\ \A m \in 1..q - p + 1 : r[m] = s[p + m - 1]
  <2>1. \A m \in p..q : s[m] \in U
    BY DEF Between
  <2> QED
    BY <1>1, <2>1, SubSeqProperties
<1> HIDE DEF r
<1>3. ASSUME NEW x \in U PROVE \E n \in 1..Len(r) : r[n] = x
  <2>1. PICK m \in p..q : x = s[m]
    BY DEF Between
  <2>2. (m - p) + 1 \in 1..Len(r) /\ (m - p) + 1 \in 1..q - p + 1 /\ p + ((m - p) + 1) - 1 = m
    BY <1>1, <1>2
  <2>3. r[(m - p) + 1] = x
    BY <1>2, <2>1, <2>2
  <2> QED
    BY <2>2, <2>3
<1>4. ASSUME NEW n \in 1..Len(r), NEW m \in 1..Len(r), r[n] = r[m] PROVE n = m
  <2>1. /\ n \in 1..q - p + 1 /\ m \in 1..q - p + 1
        /\ p + n - 1 \in 1..Len(s) /\ p + m - 1 \in 1..Len(s)
    BY <1>1, <1>2
  <2>2. s[p + n - 1] = s[p + m - 1]
    BY <1>2, <1>4, <2>1
  <2>3. p + n - 1 = p + m - 1
    BY <2>1, <2>2 DEF Lists
  <2> QED
    BY <1>1, <2>1, <2>3
<1> QED
  BY <1>2, <1>3, <1>4 DEF Lists, r

LEMMA ListsParts ==
  ASSUME NEW s, NEW S, Lists(s, S), NEW n \in 1..Len(s)
  PROVE  /\ Between(s, 1, n - 1) \cup {s[n]} \cup Between(s, n + 1, Len(s)) = S
         /\ s[n] \notin Between(s, 1, n - 1) /\ s[n] \notin Between(s, n + 1, Len(s))
         /\ Between(s, 1, n - 1) \cap Between(s, n + 1, Len(s)) = {}
         /\ Between(s, n, Len(s)) = {s[n]} \cup Between(s, n + 1, Len(s))
<1>1. /\ s \in Seq(S) /\ Len(s) \in Nat
      /\ \A l, m \in 1..Len(s) : s[l] = s[m] => l = m
  BY DEF Lists
<1>2. 1..Len(s) = (1..n - 1) \cup {n} \cup (n + 1..Len(s))
  BY <1>1
<1>3. S = {s[m] : m \in 1..Len(s)}
  <2>1. \A x \in S : \E m \in 1..Len(s) : s[m] = x
    BY DEF Lists
  <2>2. \A m \in 1..Len(s) : s[m] \in S
    BY <1>1
  <2> QED
    BY <2>1, <2>2
<1>4. n..Len(s) = {n} \cup (n + 1..Len(s))
  BY <1>1
<1>5. \A m \in 1..n - 1 : m \in 1..Len(s) /\ m # n /\ m \notin n + 1..Len(s)
  BY <1>1
<1>6. \A m \in n + 1..Len(s) : m \in 1..Len(s) /\ m # n
  BY <1>1
<1>7. Between(s, 1, n - 1) \cup {s[n]} \cup Between(s, n + 1, Len(s)) = S
  BY <1>2, <1>3 DEF Between
<1>8. s[n] \notin Between(s, 1, n - 1) /\ s[n] \notin Between(s, n + 1, Len(s))
  BY <1>1, <1>5, <1>6 DEF Between
<1>9. Between(s, 1, n - 1) \cap Between(s, n + 1, Len(s)) = {}
  BY <1>1, <1>5, <1>6 DEF Between
<1>10. Between(s, n, Len(s)) = {s[n]} \cup Between(s, n + 1, Len(s))
  BY <1>4 DEF Between
<1> QED
  BY <1>7, <1>8, <1>9, <1>10

LEMMA ListsInsert ==
  ASSUME NEW s, NEW S, Lists(s, S), NEW n \in 1..Len(s) + 1, NEW x, x \notin S
  PROVE  Lists(InsertAt(s, n, x), S \cup {x})
<1> DEFINE A == Between(s, 1, n - 1)
           B == Between(s, n, Len(s))
<1>1. Len(s) \in Nat
  BY DEF Lists
<1>2. A \cup B = S /\ A \cap B = {}
  <2>1. /\ s \in Seq(S) /\ \A l, m \in 1..Len(s) : s[l] = s[m] => l = m
    BY DEF Lists
  <2>2. 1..Len(s) = (1..n - 1) \cup (n..Len(s)) /\ \A m \in 1..n - 1 : m \notin n..Len(s)
    BY <1>1
  <2>3. S = {s[m] : m \in 1..Len(s)}
    BY <2>1 DEF Lists
  <2>4. A \cup B = S
    BY <2>2, <2>3 DEF Between
  <2>5. A \cap B = {}
    BY <2>1, <2>2 DEF Between
  <2> QED
    BY <2>4, <2>5
<1>3. Lists(SubSeq(s, 1, n - 1), A)
  <2>1. 1 \in 1..Len(s) + 1 /\ n - 1 \in 0..Len(s)
    BY <1>1
  <2> QED
    BY <2>1, ListsSub
<1>4. Lists(SubSeq(s, n, Len(s)), B)
  <2>1. Len(s) \in 0..Len(s)
    BY <1>1
  <2> QED
    BY <2>1, ListsSub
<1>5. Lists(<<x>>, {x})
  BY ListsOne
<1> HIDE DEF A, B
<1>6. Lists(SubSeq(s, 1, n - 1) \o <<x>>, A \cup {x})
  <2>1. A \cap {x} = {}
    BY <1>2
  <2> QED
    BY <1>3, <1>5, <2>1, ListsConcat
<1>7. Lists((SubSeq(s, 1, n - 1) \o <<x>>) \o SubSeq(s, n, Len(s)), (A \cup {x}) \cup B)
  <2>1. (A \cup {x}) \cap B = {}
    BY <1>2
  <2> QED
    BY <1>4, <1>6, <2>1, ListsConcat
<1>8. (A \cup {x}) \cup B = S \cup {x}
  BY <1>2
<1> QED
  BY <1>7, <1>8 DEF InsertAt

LEMMA ListsReverse ==
  ASSUME NEW s, NEW S, Lists(s, S)
  PROVE  Lists(Reverse(s), S)
<1> DEFINE r == Reverse(s)
<1>1. s \in Seq(S) /\ Len(s) \in Nat
  BY DEF Lists
<1>2. r = [n \in 1..Len(s) |-> s[(Len(s) - n) + 1]]
  BY DEF Reverse
<1> HIDE DEF r
<1>3. \A n \in 1..Len(s) : (Len(s) - n) + 1 \in 1..Len(s) /\ (Len(s) - ((Len(s) - n) + 1)) + 1 = n
  BY <1>1
<1>4. r \in [1..Len(s) -> S]
  BY <1>1, <1>2, <1>3
<1>5. r \in Seq(S) /\ Len(r) = Len(s)
  BY <1>1, <1>4
<1>6. ASSUME NEW x \in S PROVE \E n \in 1..Len(r) : r[n] = x
  <2>1. PICK n \in 1..Len(s) : s[n] = x
    BY DEF Lists
  <2>2. r[(Len(s) - n) + 1] = s[(Len(s) - ((Len(s) - n) + 1)) + 1]
    BY <1>2, <1>3
  <2> QED
    BY <1>3, <1>5, <2>1, <2>2
<1>7. ASSUME NEW n \in 1..Len(r), NEW m \in 1..Len(r), r[n] = r[m] PROVE n = m
  <2>1. s[(Len(s) - n) + 1] = s[(Len(s) - m) + 1]
    BY <1>2, <1>5, <1>7
  <2>2. (Len(s) - n) + 1 = (Len(s) - m) + 1
    BY <1>3, <1>5, <2>1 DEF Lists
  <2> QED
    BY <1>1, <1>5, <2>2
<1> QED
  BY <1>5, <1>6, <1>7 DEF Lists, r

\* How often an item is in a listing.
LEMMA ListsCount ==
  ASSUME NEW s, NEW S, Lists(s, S), NEW x
  PROVE  Cardinality({n \in DOMAIN s : s[n] = x}) = IF x \in S THEN 1 ELSE 0
<1>1. s \in Seq(S) /\ DOMAIN s = 1..Len(s)
  BY DEF Lists
<1>2. CASE x \in S
  <2>1. PICK n \in 1..Len(s) : s[n] = x
    BY <1>2 DEF Lists
  <2>2. {m \in DOMAIN s : s[m] = x} = {n}
    BY <1>1, <2>1 DEF Lists
  <2> QED
    BY <1>2, <2>2, FS_Singleton
<1>3. CASE x \notin S
  <2>1. {m \in DOMAIN s : s[m] = x} = {}
    BY <1>1, <1>3
  <2> QED
    BY <1>3, <2>1, FS_EmptySet
<1> QED
  BY <1>2, <1>3

\* The function behind Keep exists, and lists the kept ones of the items so far.
Keeps(s, T, n, f) ==
  f = [m \in 0..n |-> IF m = 0 THEN <<>>
                      ELSE IF s[m] \in T THEN Append(f[m - 1], s[m]) ELSE f[m - 1]]

LEMMA KeptExists ==
  ASSUME NEW s, NEW T, NEW n \in Nat
  PROVE  \E f : Keeps(s, T, n, f)
<1> DEFINE S == {m \in Nat : \E f : Keeps(s, T, m, f)}
<1>1. 0 \in S
  <2> DEFINE f == [l \in 0..0 |-> <<>>]
  <2>1. f = [l \in 0..0 |-> IF l = 0 THEN <<>>
                            ELSE IF s[l] \in T THEN Append(f[l - 1], s[l]) ELSE f[l - 1]]
    OBVIOUS
  <2> QED
    BY <2>1 DEF Keeps
<1>2. ASSUME NEW m \in Nat, m \in S PROVE m + 1 \in S
  <2>1. PICK f : f = [l \in 0..m |-> IF l = 0 THEN <<>>
                                     ELSE IF s[l] \in T THEN Append(f[l - 1], s[l]) ELSE f[l - 1]]
    BY <1>2 DEF Keeps
  <2> DEFINE last == IF s[m + 1] \in T THEN Append(f[m], s[m + 1]) ELSE f[m]
             g == [l \in 0..m + 1 |-> IF l = m + 1 THEN last ELSE f[l]]
             h == [l \in 0..m + 1 |-> IF l = 0 THEN <<>>
                                      ELSE IF s[l] \in T THEN Append(g[l - 1], s[l]) ELSE g[l - 1]]
  <2>2. ASSUME NEW l \in 0..m + 1 PROVE g[l] = h[l]
    <3>1. CASE l = m + 1
      <4>1. g[m] = f[m] /\ g[l] = last /\ l # 0 /\ l - 1 = m
        BY <3>1
      <4> QED
        BY <3>1, <4>1
    <3>2. CASE l # m + 1 /\ l = 0
      BY <2>1, <3>2
    <3>3. CASE l # m + 1 /\ l # 0
      <4>1. l \in 0..m /\ l - 1 \in 0..m + 1 /\ l - 1 # m + 1
        BY <3>3
      <4>2. /\ g[l] = f[l] /\ g[l - 1] = f[l - 1]
            /\ f[l] = IF s[l] \in T THEN Append(f[l - 1], s[l]) ELSE f[l - 1]
        BY <2>1, <3>3, <4>1
      <4> QED
        BY <3>3, <4>2
    <3> QED
      BY <3>1, <3>2, <3>3
  <2>3. g = h
    BY <2>2
  <2> HIDE DEF g
  <2>4. Keeps(s, T, m + 1, g)
    BY <2>3 DEF Keeps
  <2> QED
    BY <2>4
<1>3. n \in S
  <2> HIDE DEF S
  <2> QED
    BY <1>1, <1>2, SetInduction
<1> QED
  BY <1>3

LEMMA ListsKeep ==
  ASSUME NEW s, NEW S, Lists(s, S), NEW T
  PROVE  Lists(Keep(s, T), S \cap T)
<1> DEFINE N == Len(s)
           f == CHOOSE f : f = [m \in 0..Len(s) |-> IF m = 0 THEN <<>>
                                    ELSE IF s[m] \in T THEN Append(f[m - 1], s[m]) ELSE f[m - 1]]
           So(m) == Between(s, 1, m) \cap T
           W == {m \in Nat : m <= N => Lists(f[m], So(m))}
<1>1. s \in Seq(S) /\ N \in Nat
  BY DEF Lists
<1>2. Keep(s, T) = f[N]
  BY DEF Keep
<1>3. f = [m \in 0..N |-> IF m = 0 THEN <<>>
                          ELSE IF s[m] \in T THEN Append(f[m - 1], s[m]) ELSE f[m - 1]]
  <2>1. \E g : Keeps(s, T, N, g)
    <3> HIDE DEF N
    <3> QED
      BY <1>1, KeptExists
  <2>2. \E g : g = [m \in 0..N |-> IF m = 0 THEN <<>>
                          ELSE IF s[m] \in T THEN Append(g[m - 1], s[m]) ELSE g[m - 1]]
    BY <2>1 DEF Keeps
  <2> QED
    BY <2>2, Zenon
<1> HIDE DEF f
<1>4. 0 \in W
  <2>1. f[0] = <<>>
    BY <1>1, <1>3
  <2>2. So(0) = {}
    BY DEF Between
  <2> QED
    BY <2>1, <2>2, ListsEmpty
<1>5. ASSUME NEW m \in Nat, m \in W PROVE m + 1 \in W
  <2> SUFFICES ASSUME m + 1 <= N PROVE Lists(f[m + 1], So(m + 1))
    OBVIOUS
  <2>1. /\ m + 1 \in 0..N /\ m + 1 # 0 /\ (m + 1) - 1 = m /\ m <= N
        /\ m + 1 \in 1..Len(s) /\ 1..m + 1 = (1..m) \cup {m + 1}
    BY <1>1
  <2>2. f[m + 1] = IF s[m + 1] \in T THEN Append(f[m], s[m + 1]) ELSE f[m]
    BY <1>3, <2>1
  <2>3. Lists(f[m], So(m))
    BY <1>5, <2>1
  <2>4. Between(s, 1, m + 1) = Between(s, 1, m) \cup {s[m + 1]}
    BY <2>1 DEF Between
  <2>5. s[m + 1] \notin So(m)
    <3>1. s[m + 1] \notin Between(s, 1, (m + 1) - 1)
      BY <2>1, ListsParts
    <3> QED
      BY <2>1, <3>1
  <2>6. CASE s[m + 1] \in T
    <3>1. So(m + 1) = So(m) \cup {s[m + 1]}
      BY <2>4, <2>6
    <3> HIDE DEF So
    <3>2. Lists(Append(f[m], s[m + 1]), So(m) \cup {s[m + 1]})
      BY <2>3, <2>5, ListsAppend
    <3> QED
      BY <2>2, <2>6, <3>1, <3>2
  <2>7. CASE s[m + 1] \notin T
    <3>1. So(m + 1) = So(m)
      BY <2>4, <2>7
    <3> HIDE DEF So
    <3> QED
      BY <2>2, <2>3, <2>7, <3>1
  <2> QED
    BY <2>6, <2>7
<1>6. Nat \subseteq W
  <2> HIDE DEF W
  <2> QED
    BY <1>4, <1>5, SetInduction
<1>7. Lists(f[N], So(N))
  <2>1. N \in W
    <3> HIDE DEF N, W
    <3> QED
      BY <1>1, <1>6
  <2>2. N \in W => Lists(f[N], So(N))
    <3> HIDE DEF N, So
    <3> QED
      OBVIOUS
  <2> QED
    BY <2>1, <2>2
<1>8. So(N) = S \cap T
  <2>1. \A x \in S : \E m \in 1..Len(s) : s[m] = x
    BY DEF Lists
  <2>2. \A m \in 1..Len(s) : s[m] \in S
    BY <1>1
  <2> QED
    BY <2>1, <2>2 DEF Between
<1> QED
  BY <1>2, <1>7, <1>8
-----------------------------------------------------------------------------
(* The inductive invariant *)

\* The blocks that have a copy in worker t so far.
Blocks(t) ==
  IF t < i THEN RelevantBlocks(t)
           ELSE IF t = i /\ phase = "copy" THEN relbb \ todo ELSE {}

Building == phase \in {"live", "relevant", "copy", "no header"}

PhaseInv ==
  /\ prog \in Programs
  /\ phase \in {"live", "relevant", "copy", "sync", "done", "no header", "nowhere"}
  /\ postidom = Postdominators(EdgesOf(prog.cfg), exit)
  /\ i \in 0..MAX_THREAD /\ k \in 1..Len(allEdges) + 1 /\ vtr \in 0..MAX_THREAD
  /\ phase = "copy" => i < MAX_THREAD /\ relbb = RelevantBlocks(i) /\ todo \subseteq relbb
  /\ Building => k = 1 /\ vtr = 0 /\ channels = <<>> /\ \A t \in Thread : operand[t] = <<>>
  /\ phase = "done" => k = Len(allEdges) + 1
  /\ DOMAIN code = Thread /\ DOMAIN target = Thread /\ DOMAIN instMap = Thread
  /\ DOMAIN placeEquivalents = Thread /\ DOMAIN operand = Thread

\* The instructions of the copied blocks: a clone, or the clone that stands for it.
Covered(t) == {instr \in Instr : parent(instr) \in DOMAIN code[t]}
Own(t) == {instr \in Instr : assigned[instr] = t \/ isTerminator(prog, instr)}

CopyInv ==
  \A t \in Thread :
    /\ DOMAIN code[t] = Blocks(t)
    /\ instMap[t] = Covered(t) \cap Own(t)
    /\ DOMAIN placeEquivalents[t] = Covered(t) \ Own(t)
    /\ \A x \in DOMAIN placeEquivalents[t] :
         placeEquivalents[t][x] \in instMap[t] /\ parent(placeEquivalents[t][x]) = parent(x)

\* Every branch of a worker leads to the nearest postdominator that will be copied.
TargetInv ==
  \A t \in Thread : \A b \in DOMAIN code[t] :
    /\ Terminator(b) \in DOMAIN target[t] /\ DOMAIN target[t][Terminator(b)] = prog.cfg[b]
    /\ \A s \in prog.cfg[b] :
         IsNearest(postidom, RelevantBlocks(t) \cup {predecessor, exit}, s, target[t][Terminator(b)][s])

\* A channel goes upwards, and both ends have a copy of the block of its source.
ChannelInv ==
  /\ channels \in Seq([edge : Range(allEdges), to : Thread])
  /\ \A c \in DOMAIN channels :
       LET u == channels[c].edge.u IN
         /\ assigned[u] < channels[c].to
         /\ parent(u) \in DOMAIN code[assigned[u]] /\ parent(u) \in DOMAIN code[channels[c].to]

\* A copied block has its clones, produces and consumes, each once.
Clones(t, b) == {Clone(instr) : instr \in {x \in instMap[t] : parent(x) = b}}
Produces(t, b) ==
  {Produce(c) : c \in {d \in DOMAIN channels :
                         assigned[channels[d].edge.u] = t /\ parent(channels[d].edge.u) = b}}
Consumes(t, b) ==
  {Consume(c) : c \in {d \in DOMAIN channels :
                         channels[d].to = t /\ parent(channels[d].edge.u) = b}}
Items(t, b) == Clones(t, b) \cup Produces(t, b) \cup Consumes(t, b)

ItemInv == \A t \in Thread : \A b \in DOMAIN code[t] : Lists(code[t][b], Items(t, b))

\* Where a dependence has been seen to, both workers have a copy of its source's block.
Needs(f, t) == t > assigned[f.u] /\ f.u \in instMap[assigned[f.u]] /\ f.v \in instMap[t]
Passed(j, t) == j < k \/ (j = k /\ t < vtr)
PlaceInv ==
  phase \in {"sync", "done"} =>
    \A j \in 1..Len(allEdges) : \A t \in Thread :
      Passed(j, t) /\ Needs(allEdges[j], t) => parent(allEdges[j].u) \in DOMAIN code[t]

\* A thread has as many dependences on u left as users of it that have no operand.
Pending(t, u) ==
  {j \in 1..Len(allEdges) :
     /\ ~Passed(j, t) /\ allEdges[j].dtype = "REG" /\ allEdges[j].u = u
     /\ allEdges[j].v \in Executed(t)}
OperandInv ==
  phase \in {"sync", "done"} =>
    \A t \in Thread : \A u \in Instr \ instMap[t] :
      Cardinality(Users(t, u)) <= Cardinality(Pending(t, u))

IInv == /\ PhaseInv /\ CopyInv /\ TargetInv /\ ChannelInv /\ ItemInv /\ PlaceInv /\ OperandInv
-----------------------------------------------------------------------------
(* Programs *)

LEMMA Numbers ==
  /\ MAX_THREAD \in Nat \ {0} /\ NumBlock \in Nat \ {0} /\ 0 \in Thread
  /\ \A t \in Thread : t \in Nat /\ t < MAX_THREAD
  /\ \A t \in Nat : t < MAX_THREAD => t \in Thread
BY SplitAssumption, LoopAssumption DEF Thread

LEMMA InstrFacts ==
  ASSUME IsProgram(prog)
  PROVE  /\ \A x \in Instr : parent(x) \in Block /\ x = <<x[1], x[2]>> /\ x[2] \in 1..prog.size[parent(x)]
         /\ \A b \in Block : /\ prog.size[b] \in Nat \ {0}
                             /\ \A n \in 1..prog.size[b] : <<b, n>> \in Instr /\ parent(<<b, n>>) = b
                             /\ Terminator(b) \in Instr /\ parent(Terminator(b)) = b
                             /\ isTerminator(prog, Terminator(b))
         /\ \A x \in Instr : isTerminator(prog, x) => x = Terminator(parent(x))
<1>1. \A b \in Block : prog.size[b] \in Nat \ {0}
  BY DEF IsProgram
<1>2. \A x \in Instr : \E b \in Block : x \in {b} \X (1..prog.size[b])
  BY DEF Instr, Instrs
<1>3. \A x \in Instr : parent(x) \in Block /\ x = <<x[1], x[2]>> /\ x[2] \in 1..prog.size[parent(x)]
  BY <1>2 DEF parent
<1>4. ASSUME NEW b \in Block, NEW n \in 1..prog.size[b]
      PROVE  <<b, n>> \in Instr /\ parent(<<b, n>>) = b
  BY <1>4 DEF Instr, Instrs, parent
<1>5. ASSUME NEW b \in Block
      PROVE  Terminator(b) \in Instr /\ parent(Terminator(b)) = b /\ isTerminator(prog, Terminator(b))
  <2>1. prog.size[b] \in 1..prog.size[b]
    BY <1>1
  <2>2. Terminator(b) \in Instr /\ parent(Terminator(b)) = b
    BY <1>4, <2>1 DEF Terminator
  <2> QED
    BY <2>2 DEF Terminator, isTerminator, parent
<1>6. \A x \in Instr : isTerminator(prog, x) => x = Terminator(parent(x))
  BY <1>3 DEF isTerminator, Terminator, parent
<1> QED
  BY <1>1, <1>3, <1>4, <1>5, <1>6

LEMMA EdgeFacts ==
  ASSUME IsProgram(prog)
  PROVE  /\ allEdges \in Seq([u : Instr, v : Instr, dtype : {"REG", "MEM", "CONTROL"}])
         /\ assigned \in [Instr -> Thread]
         /\ \A j \in 1..Len(allEdges) :
              /\ allEdges[j] \in Range(allEdges)
              /\ allEdges[j].u \in Instr /\ allEdges[j].v \in Instr
              /\ assigned[allEdges[j].u] <= assigned[allEdges[j].v]
         /\ \A f \in Range(allEdges) : \E j \in 1..Len(allEdges) : allEdges[j] = f
         /\ \A f \in Range(allEdges) : f.u \in Instr /\ f.v \in Instr /\ assigned[f.u] <= assigned[f.v]
         /\ \A p \in DOMAIN prog.phi : p \in Instr /\ ~isTerminator(prog, p)
<1>1. /\ allEdges \in Seq([u : Instr, v : Instr, dtype : {"REG", "MEM", "CONTROL"}])
      /\ assigned \in [Instr -> Thread]
      /\ \A f \in Range(allEdges) : assigned[f.u] <= assigned[f.v]
      /\ \A p \in DOMAIN prog.phi : p \in Instr /\ ~isTerminator(prog, p)
  BY DEF IsProgram, PhisFit, allEdges, Instr, assigned
<1>2. /\ DOMAIN allEdges = 1..Len(allEdges)
      /\ \A j \in 1..Len(allEdges) : allEdges[j] \in [u : Instr, v : Instr, dtype : {"REG", "MEM", "CONTROL"}]
  <2> DEFINE L == allEdges
             X == [u : Instr, v : Instr, dtype : {"REG", "MEM", "CONTROL"}]
  <2>1. L \in Seq(X)
    BY <1>1
  <2> HIDE DEF L, X
  <2>2. DOMAIN L = 1..Len(L) /\ \A j \in 1..Len(L) : L[j] \in X
    BY <2>1
  <2> QED
    BY <2>2 DEF L, X
<1>3. Range(allEdges) = {allEdges[j] : j \in 1..Len(allEdges)}
  BY <1>2 DEF Range
<1> QED
  BY <1>1, <1>2, <1>3

\* A block that is decided about by a branch depends on it with every instruction.
LEMMA ControlCovered ==
  ASSUME IsProgram(prog), NEW x \in Block, NEW y \in Block,
         Decides(EdgesOf(prog.cfg), Postdominators(EdgesOf(prog.cfg), exit), x, y),
         NEW instr \in Instr, parent(instr) = y
  PROVE  \E f \in Range(allEdges) : f.u = Terminator(x) /\ f.v = instr /\ f.dtype = "CONTROL"
<1>1. instr = <<y, instr[2]>> /\ instr[2] \in 1..prog.size[y]
  BY InstrFacts DEF parent
<1>2. \A n \in 1..prog.size[y] : \E f \in Range(prog.allEdges) :
        f.u = <<x, prog.size[x]>> /\ f.v = <<y, n>> /\ f.dtype = "CONTROL"
  <2> DEFINE Q(D) == Decides(EdgesOf(prog.cfg), D, x, y) => \A n \in 1..prog.size[y] :
                       \E f \in Range(prog.allEdges) :
                         f.u = <<x, prog.size[x]>> /\ f.v = <<y, n>> /\ f.dtype = "CONTROL"
  <2>1. \E D \in {Postdominators(EdgesOf(prog.cfg), exit)} : Q(D)
    BY DEF IsProgram
  <2>2. Q(Postdominators(EdgesOf(prog.cfg), exit))
    <3> HIDE DEF Q
    <3> QED
      BY <2>1
  <2> QED
    BY <2>2
<1> QED
  BY <1>1, <1>2 DEF Terminator, allEdges

LEMMA RelevantFacts ==
  ASSUME IsProgram(prog), NEW t
  PROVE  /\ RelevantBlocks(t) \subseteq Block
         /\ \A x \in Instr : assigned[x] = t => parent(x) \in RelevantBlocks(t)
         /\ \A f \in Range(allEdges) : assigned[f.v] = t => parent(f.u) \in RelevantBlocks(t)
         /\ \A b \in RelevantBlocks(t) : \E x \in Instr :
              /\ parent(x) = b
              /\ assigned[x] = t \/ \E f \in Range(allEdges) : f.u = x /\ assigned[f.v] = t
<1> DEFINE own == {v \in Instr : assigned[v] = t}
           deps == {f.u : f \in {g \in Range(allEdges) : g.v \in own}}
<1>1. RelevantBlocks(t) = {parent(instr) : instr \in own \cup deps}
  BY DEF RelevantBlocks
<1>2. \A x \in deps : x \in Instr /\ \E f \in Range(allEdges) : f.u = x /\ assigned[f.v] = t
  BY EdgeFacts
<1>3. \A f \in Range(allEdges) : assigned[f.v] = t => f.u \in deps
  BY EdgeFacts
<1>4. \A x \in own : x \in Instr /\ assigned[x] = t
  OBVIOUS
<1>5. \A x \in Instr : parent(x) \in Block
  BY InstrFacts
<1>6. \A x \in Instr : assigned[x] = t => x \in own
  OBVIOUS
<1> HIDE DEF own, deps
<1> QED
  BY <1>1, <1>2, <1>3, <1>4, <1>5, <1>6

\* What is in the original block.
LEMMA BodyLists ==
  ASSUME IsProgram(prog), NEW b \in Block
  PROVE  Lists(Body(b), {x \in Instr : parent(x) = b})
<1> DEFINE S == {x \in Instr : parent(x) = b}
<1>1. prog.size[b] \in Nat /\ \A n \in 1..prog.size[b] : <<b, n>> \in S
  BY InstrFacts
<1>2. Body(b) \in [1..prog.size[b] -> S]
  BY <1>1 DEF Body
<1>3. Body(b) \in Seq(S) /\ Len(Body(b)) = prog.size[b]
  BY <1>1, <1>2
<1>4. \A n \in 1..prog.size[b] : Body(b)[n] = <<b, n>>
  BY DEF Body
<1>5. \A x \in S : x[2] \in 1..prog.size[b] /\ x = <<b, x[2]>>
  BY InstrFacts DEF parent
<1> HIDE DEF S
<1>6. \A x \in S : \E n \in 1..Len(Body(b)) : Body(b)[n] = x
  BY <1>3, <1>4, <1>5
<1>7. \A n, m \in 1..Len(Body(b)) : Body(b)[n] = Body(b)[m] => n = m
  BY <1>3, <1>4
<1> QED
  BY <1>3, <1>6, <1>7 DEF Lists, S

LEMMA ListsRange ==
  ASSUME NEW s, NEW S, Lists(s, S)
  PROVE  Range(s) = S
<1>1. s \in Seq(S) /\ DOMAIN s = 1..Len(s) /\ \A n \in 1..Len(s) : s[n] \in S
  BY DEF Lists
<1>2. \A x \in S : \E n \in 1..Len(s) : s[n] = x
  BY DEF Lists
<1> QED
  BY <1>1, <1>2 DEF Range
-----------------------------------------------------------------------------
(* What insertSynchronization and cleanup do to a block *)

LEMMA IndexFacts ==
  ASSUME NEW items, NEW S, Lists(items, S), NEW instr, Clone(instr) \in S
  PROVE  IndexOf(items, instr) \in 1..Len(items) /\ items[IndexOf(items, instr)] = Clone(instr)
<1>1. \E n \in 1..Len(items) : items[n] = Clone(instr)
  BY DEF Lists
<1> QED
  BY <1>1 DEF IndexOf

LEMMA WithProduceLists ==
  ASSUME NEW items, NEW S, Lists(items, S), Clone(e.u) \in S, NEW c, c = Len(channels) + 1, Produce(c) \notin S
  PROVE  Lists(WithProduce(items), S \cup {Produce(c)})
<1>1. IndexOf(items, e.u) \in 1..Len(items) /\ Len(items) \in Nat
  BY IndexFacts DEF Lists
<1>2. IndexOf(items, e.u) + 1 \in 1..Len(items) + 1
  BY <1>1
<1> QED
  BY <1>2, ListsInsert DEF WithProduce

LEMMA WithConsumeLists ==
  ASSUME NEW items, NEW S, Lists(items, S), Clone(insPos) \in S, NEW c, c = Len(channels) + 1, Consume(c) \notin S
  PROVE  Lists(WithConsume(items), S \cup {Consume(c)})
<1>1. IndexOf(items, insPos) \in 1..Len(items) /\ Len(items) \in Nat
  BY IndexFacts DEF Lists
<1>2. IndexOf(items, insPos) \in 1..Len(items) + 1
  BY <1>1
<1> QED
  BY <1>2, ListsInsert DEF WithConsume

LEMMA TerminatorLastLists ==
  ASSUME NEW items, NEW S, Lists(items, S), NEW b, Clone(Terminator(b)) \in S
  PROVE  Lists(TerminatorLast(items, b), S)
<1> DEFINE n == IndexOf(items, Terminator(b))
           A == Between(items, 1, n - 1)
           B == Between(items, n + 1, Len(items))
           x == items[n]
           r == Reverse(SubSeq(items, n + 1, Len(items)))
<1>1. n \in 1..Len(items) /\ Len(items) \in Nat
  BY IndexFacts DEF Lists
<1>2. TerminatorLast(items, b) = (SubSeq(items, 1, n - 1) \o r) \o <<x>>
  BY DEF TerminatorLast
<1> HIDE DEF n
<1>3. A \cup {x} \cup B = S /\ x \notin A /\ x \notin B /\ A \cap B = {}
  BY <1>1, ListsParts
<1>4. Lists(SubSeq(items, 1, n - 1), A)
  <2>1. 1 \in 1..Len(items) + 1 /\ n - 1 \in 0..Len(items)
    BY <1>1
  <2> QED
    BY <2>1, ListsSub
<1>5. Lists(r, B)
  <2>1. n + 1 \in 1..Len(items) + 1 /\ Len(items) \in 0..Len(items)
    BY <1>1
  <2>2. Lists(SubSeq(items, n + 1, Len(items)), B)
    BY <2>1, ListsSub
  <2> QED
    BY <2>2, ListsReverse
<1>6. Lists(<<x>>, {x})
  BY ListsOne
<1> HIDE DEF A, B, x, r
<1>7. Lists(SubSeq(items, 1, n - 1) \o r, A \cup B)
  BY <1>3, <1>4, <1>5, ListsConcat
<1>8. (A \cup B) \cap {x} = {} /\ (A \cup B) \cup {x} = S
  BY <1>3
<1>9. Lists((SubSeq(items, 1, n - 1) \o r) \o <<x>>, (A \cup B) \cup {x})
  BY <1>6, <1>7, <1>8, ListsConcat
<1> QED
  BY <1>2, <1>8, <1>9

LEMMA PhisFirstLists ==
  ASSUME NEW items, NEW S, Lists(items, S)
  PROVE  Lists(PhisFirst(items), S)
<1> DEFINE R == Range(items) \ Phis
<1>1. Range(items) = S
  BY ListsRange
<1>2. Lists(Keep(items, Phis), S \cap Phis) /\ Lists(Keep(items, R), S \cap R)
  BY ListsKeep
<1>3. (S \cap Phis) \cap (S \cap R) = {} /\ (S \cap Phis) \cup (S \cap R) = S
  BY <1>1
<1>4. Lists(Keep(items, Phis) \o Keep(items, R), (S \cap Phis) \cup (S \cap R))
  BY <1>2, <1>3, ListsConcat
<1> QED
  BY <1>3, <1>4 DEF PhisFirst

LEMMA ItemsDiffer ==
  \A x, y, c, d : /\ Clone(x) # Produce(c) /\ Clone(x) # Consume(c) /\ Produce(c) # Consume(d)
                  /\ (Produce(c) = Produce(d) => c = d) /\ (Consume(c) = Consume(d) => c = d)
                  /\ (Clone(x) = Clone(y) => x = y)
BY DEF Clone, Produce, Consume
-----------------------------------------------------------------------------
(* The invariant holds at first, and through the steps that copy nothing *)

LEMMA InitInv == Init => IInv
<1> SUFFICES ASSUME Init PROVE IInv
  OBVIOUS
<1>1. /\ i = 0 /\ phase = "live" /\ k = 1 /\ vtr = 0 /\ channels = <<>>
      /\ prog \in Programs /\ postidom = Postdominators(EdgesOf(prog.cfg), exit)
      /\ \A t \in Thread : /\ code[t] = <<>> /\ target[t] = <<>> /\ instMap[t] = {}
                           /\ placeEquivalents[t] = <<>> /\ operand[t] = <<>>
      /\ DOMAIN code = Thread /\ DOMAIN target = Thread /\ DOMAIN instMap = Thread
      /\ DOMAIN placeEquivalents = Thread /\ DOMAIN operand = Thread
  BY DEF Init
<1>2. IsProgram(prog)
  BY <1>1, SplitAssumption
<1>3. Len(allEdges) \in Nat
  BY <1>2, EdgeFacts
<1>4. DOMAIN <<>> = {}
  OBVIOUS
<1>5. PhaseInv
  BY <1>1, <1>3, Numbers DEF PhaseInv, Building
<1>6. CopyInv
  <2>1. \A t \in Thread : Blocks(t) = {}
    BY <1>1, Numbers DEF Blocks
  <2>2. \A t \in Thread : Covered(t) = {}
    BY <1>1, <1>4 DEF Covered
  <2> QED
    BY <1>1, <1>4, <2>1, <2>2 DEF CopyInv
<1>7. TargetInv /\ ItemInv
  BY <1>1, <1>4 DEF TargetInv, ItemInv
<1>8. ChannelInv
  BY <1>1, <1>4 DEF ChannelInv
<1>9. PlaceInv /\ OperandInv
  BY <1>1 DEF PlaceInv, OperandInv
<1> QED
  BY <1>5, <1>6, <1>7, <1>8, <1>9 DEF IInv

LEMMA ProgramSame ==
  ASSUME prog' = prog
  PROVE  /\ Instr' = Instr /\ assigned' = assigned /\ allEdges' = allEdges
         /\ \A t : RelevantBlocks(t)' = RelevantBlocks(t) /\ Own(t)' = Own(t)
         /\ \A b : Terminator(b)' = Terminator(b) /\ Body(b)' = Body(b)
<1>1. Instr' = Instr /\ assigned' = assigned /\ allEdges' = allEdges
  BY DEF Instr, Instrs, assigned, allEdges
<1>2. ASSUME NEW t PROVE RelevantBlocks(t)' = RelevantBlocks(t)
  BY <1>1 DEF RelevantBlocks
<1>3. ASSUME NEW t PROVE Own(t)' = Own(t)
  BY <1>1 DEF Own, isTerminator
<1>4. \A b : Terminator(b)' = Terminator(b) /\ Body(b)' = Body(b)
  BY DEF Terminator, Body
<1> QED
  BY <1>1, <1>2, <1>3, <1>4

\* Steps that leave the copies alone.
LEMMA SameCopies ==
  ASSUME CopyInv, TargetInv, ChannelInv, ItemInv, \A t \in Thread : Blocks(t)' = Blocks(t),
         UNCHANGED <<prog, postidom, code, target, instMap, placeEquivalents, channels>>
  PROVE  CopyInv' /\ TargetInv' /\ ChannelInv' /\ ItemInv'
<1>0. /\ Instr' = Instr /\ assigned' = assigned /\ allEdges' = allEdges
      /\ \A t : RelevantBlocks(t)' = RelevantBlocks(t) /\ Own(t)' = Own(t)
      /\ \A b : Terminator(b)' = Terminator(b)
  BY ProgramSame
<1>1. CopyInv'
  <2>1. \A t : Covered(t)' = Covered(t)
    BY <1>0 DEF Covered
  <2> QED
    BY <1>0, <2>1 DEF CopyInv
<1>2. TargetInv'
  BY <1>0 DEF TargetInv
<1>3. ChannelInv'
  BY <1>0 DEF ChannelInv
<1>4. ItemInv'
  <2>1. ASSUME NEW t, NEW b PROVE Items(t, b)' = Items(t, b)
    BY <1>0 DEF Items, Clones, Produces, Consumes
  <2> QED
    BY <2>1 DEF ItemInv
<1> QED
  BY <1>1, <1>2, <1>3, <1>4

\* There are finitely many dependences.
LEMMA EdgesFinite ==
  ASSUME IsProgram(prog)
  PROVE  IsFiniteSet(1..Len(allEdges))
<1>1. ASSUME NEW n \in Nat PROVE IsFiniteSet(1..n)
  BY FS_Interval
<1>2. Len(allEdges) \in Nat
  BY EdgeFacts
<1> QED
  BY <1>1, <1>2

\* All dependences are pending at first: at least one for every user.
LEMMA OperandStart ==
  ASSUME IsProgram(prog), NEW t \in Thread, NEW u \in Instr \ instMap[t],
         k = 1, vtr = 0, operand[t] = <<>>
  PROVE  Cardinality(Users(t, u)) <= Cardinality(Pending(t, u))
<1> DEFINE v == [j \in Pending(t, u) |-> allEdges[j].v]
<1>1. \A j \in 1..Len(allEdges) : ~Passed(j, t)
  BY Numbers DEF Passed
<1>2. \A w : <<w, u>> \notin DOMAIN operand[t]
  OBVIOUS
<1>3. ASSUME NEW w \in Users(t, u) PROVE \E j \in Pending(t, u) : v[j] = w
  <2>1. w \in Executed(t) /\ \E f \in Range(allEdges) : f.dtype = "REG" /\ f.v = w /\ f.u = u
    BY DEF Users, Registers
  <2>2. PICK j \in 1..Len(allEdges) : allEdges[j].dtype = "REG" /\ allEdges[j].v = w /\ allEdges[j].u = u
    BY <2>1, EdgeFacts
  <2>3. j \in Pending(t, u)
    BY <1>1, <2>1, <2>2 DEF Pending
  <2> QED
    BY <2>2, <2>3
<1>4. ASSUME NEW j \in Pending(t, u) PROVE v[j] \in Users(t, u)
  <2>1. /\ j \in 1..Len(allEdges) /\ allEdges[j].dtype = "REG" /\ allEdges[j].u = u
        /\ allEdges[j].v \in Executed(t) /\ v[j] = allEdges[j].v
    BY DEF Pending
  <2>2. u \in Registers(v[j])
    BY <2>1, EdgeFacts DEF Registers
  <2> QED
    BY <1>2, <2>1, <2>2 DEF Users
<1>5. v \in Surjection(Pending(t, u), Users(t, u))
  BY <1>3, <1>4 DEF Surjection
<1>6. IsFiniteSet(Pending(t, u))
  <2>1. Pending(t, u) \subseteq 1..Len(allEdges)
    BY DEF Pending
  <2> QED
    BY <2>1, EdgesFinite, FS_Subset
<1> QED
  BY <1>5, <1>6, FS_Surjection

\* Steps that do not go on in insertSynchronization either.
LEMMA SameOperands ==
  ASSUME UNCHANGED <<prog, target, instMap, operand, k, vtr>>
  PROVE  /\ \A t, u : Users(t, u)' = Users(t, u) /\ Pending(t, u)' = Pending(t, u)
         /\ \A j, t : Passed(j, t)' = Passed(j, t)
         /\ \A f, t : Needs(f, t)' = Needs(f, t)
<1>1. Instr' = Instr /\ assigned' = assigned /\ allEdges' = allEdges
  BY ProgramSame
<1>2. \A j, t : Passed(j, t)' = Passed(j, t)
  BY DEF Passed
<1>3. \A f, t : Needs(f, t)' = Needs(f, t)
  BY <1>1 DEF Needs
<1>4. ASSUME NEW t PROVE Executed(t)' = Executed(t)
  BY <1>1 DEF Executed, isConditional, isTerminator
<1>5. ASSUME NEW w PROVE Registers(w)' = Registers(w)
  BY <1>1 DEF Registers
<1>6. ASSUME NEW t, NEW u PROVE Users(t, u)' = Users(t, u)
  BY <1>4, <1>5 DEF Users
<1>7. ASSUME NEW t, NEW u PROVE Pending(t, u)' = Pending(t, u)
  BY <1>1, <1>2, <1>4 DEF Pending
<1> QED
  BY <1>2, <1>3, <1>6, <1>7

LEMMA NotCopying ==
  ASSUME IInv, GetLiveinfo \/ FindRelevant \/ NextThread \/ CannotInsert
  PROVE  IInv'
<1>1. /\ UNCHANGED <<prog, postidom, code, target, instMap, placeEquivalents, channels, operand, k, vtr>>
      /\ ~CannotInsert => /\ phase \in {"live", "relevant", "copy"} /\ k = 1 /\ vtr = 0
                          /\ \A t \in Thread : operand[t] = <<>>
  BY DEF GetLiveinfo, FindRelevant, NextThread, CannotInsert, live, IInv, PhaseInv, Building
<1>2. IsProgram(prog)
  BY SplitAssumption DEF IInv, PhaseInv
<1>3. allEdges' = allEdges /\ \A t : RelevantBlocks(t)' = RelevantBlocks(t)
  BY <1>1, ProgramSame
<1>4. PhaseInv'
  <2> USE <1>1, <1>3 DEF PhaseInv, Building
  <2>1. CASE GetLiveinfo
    BY <2>1 DEF IInv, GetLiveinfo
  <2>2. CASE FindRelevant
    BY <2>2, Numbers DEF IInv, FindRelevant, live
  <2>3. CASE NextThread
    BY <2>3, Numbers DEF IInv, NextThread, live
  <2>4. CASE CannotInsert
    BY <2>4 DEF IInv, CannotInsert, live
  <2> QED
    BY <2>1, <2>2, <2>3, <2>4
<1>5. \A t \in Thread : Blocks(t)' = Blocks(t)
  <2> SUFFICES ASSUME NEW t \in Thread PROVE Blocks(t)' = Blocks(t)
    OBVIOUS
  <2>0. t \in Nat /\ i \in Nat
    <3>1. i \in 0..MAX_THREAD /\ MAX_THREAD \in Nat
      BY Numbers DEF IInv, PhaseInv
    <3> QED
      BY <3>1, Numbers
  <2>1. CASE GetLiveinfo
    BY <1>3, <2>1 DEF GetLiveinfo, Blocks
  <2>2. CASE FindRelevant
    BY <1>3, <2>2, <2>0 DEF FindRelevant, Blocks
  <2>3. CASE NextThread
    BY <1>3, <2>3, <2>0 DEF IInv, PhaseInv, NextThread, Blocks
  <2>4. CASE CannotInsert
    BY <1>3, <2>4 DEF CannotInsert, Blocks
  <2> QED
    BY <2>1, <2>2, <2>3, <2>4
<1>6. CopyInv' /\ TargetInv' /\ ChannelInv' /\ ItemInv'
  BY <1>1, <1>5, SameCopies DEF IInv
<1>7. PlaceInv'
  <2>1. CASE CannotInsert
    BY <2>1 DEF CannotInsert, PlaceInv
  <2>2. CASE ~CannotInsert
    <3>1. \A j \in 1..Len(allEdges) : \A t \in Thread : ~Passed(j, t)
      BY <1>1, <2>2, Numbers DEF Passed
    <3>2. \A j, t : Passed(j, t)' = Passed(j, t)
      BY <1>1, SameOperands
    <3> QED
      BY <1>3, <3>1, <3>2 DEF PlaceInv
  <2> QED
    BY <2>1, <2>2
<1>8. OperandInv'
  <2>1. CASE CannotInsert
    BY <2>1 DEF CannotInsert, OperandInv
  <2>2. CASE ~CannotInsert
    <3>1. \A t \in Thread : \A u \in Instr \ instMap[t] :
            Cardinality(Users(t, u)) <= Cardinality(Pending(t, u))
      BY <1>1, <1>2, <2>2, OperandStart
    <3>2. Instr' = Instr /\ \A t, u : Users(t, u)' = Users(t, u) /\ Pending(t, u)' = Pending(t, u)
      BY <1>1, SameOperands, ProgramSame
    <3> QED
      BY <1>1, <3>1, <3>2 DEF OperandInv
  <2> QED
    BY <2>1, <2>2
<1> QED
  BY <1>4, <1>6, <1>7, <1>8 DEF IInv
-----------------------------------------------------------------------------
(* Operands: what a clone needs comes from an earlier thread *)

LEMMA PhaseNumbers ==
  ASSUME PhaseInv
  PROVE  i \in Nat /\ i <= MAX_THREAD /\ k \in Nat /\ k >= 1 /\ vtr \in Nat /\ vtr <= MAX_THREAD
<1>1. i \in 0..MAX_THREAD /\ vtr \in 0..MAX_THREAD /\ k \in 1..Len(allEdges) + 1
  BY DEF PhaseInv
<1> HIDE DEF allEdges
<1> QED
  BY <1>1, Numbers

\* While dependences are gone through, a worker with a block has all its blocks, and
\* so have the workers before it.
LEMMA Complete ==
  ASSUME IInv, phase \in {"sync", "done"}, NEW t \in Thread, DOMAIN code[t] # {}
  PROVE  \A q \in Thread : q <= t => DOMAIN code[q] = RelevantBlocks(q)
<1>1. \A q \in Thread : DOMAIN code[q] = IF q < i THEN RelevantBlocks(q) ELSE {}
  BY DEF IInv, CopyInv, Blocks
<1>2. i \in Int
  BY PhaseNumbers DEF IInv
<1>3. t < i
  BY <1>1
<1>4. ASSUME NEW q \in Thread, q <= t PROVE q < i
  BY <1>2, <1>3, <1>4, Numbers
<1> QED
  BY <1>1, <1>4

LEMMA DecidedRelevant ==
  ASSUME IsProgram(prog), NEW t \in Thread, NEW x \in Block, NEW y \in RelevantBlocks(t),
         Decides(EdgesOf(prog.cfg), Postdominators(EdgesOf(prog.cfg), exit), x, y)
  PROVE  assigned[Terminator(x)] <= t
<1>1. y \in Block
  BY RelevantFacts
<1>2. PICK instr \in Instr :
        /\ parent(instr) = y
        /\ assigned[instr] = t \/ \E f \in Range(allEdges) : f.u = instr /\ assigned[f.v] = t
  BY RelevantFacts
<1>3. PICK f \in Range(allEdges) : f.u = Terminator(x) /\ f.v = instr
  BY <1>1, <1>2, ControlCovered
<1>4. /\ assigned[Terminator(x)] <= assigned[instr] /\ assigned[instr] <= t
      /\ assigned[Terminator(x)] \in Int /\ assigned[instr] \in Int /\ t \in Int
  <2>1. Terminator(x) \in Instr
    BY InstrFacts
  <2>2. assigned[Terminator(x)] \in Thread /\ assigned[instr] \in Thread
    BY <1>2, <2>1, EdgeFacts
  <2>3. assigned[Terminator(x)] <= assigned[instr]
    BY <1>3, EdgeFacts
  <2>4. assigned[instr] <= t
    <3>1. CASE assigned[instr] = t
      BY <3>1, Numbers
    <3>2. CASE \E g \in Range(allEdges) : g.u = instr /\ assigned[g.v] = t
      BY <3>2, EdgeFacts
    <3> QED
      BY <1>2, <3>1, <3>2
  <2> QED
    BY <2>2, <2>3, <2>4, Numbers
<1> QED
  BY <1>4

\* A branch that goes more than one way in a worker decides about one of its blocks, and
\* so is not of a later thread.
LEMMA BranchThread ==
  ASSUME IInv, phase \in {"sync", "done"}, NEW t \in Thread, NEW w \in instMap[t],
         isTerminator(prog, w), isConditional(t, w)
  PROVE  assigned[w] <= t
<1> DEFINE E == EdgesOf(prog.cfg)
           P == Postdominators(EdgesOf(prog.cfg), exit)
           b == parent(w)
           C == RelevantBlocks(t) \cup {predecessor, exit}
<1>0. IsProgram(prog) /\ postidom = P
  BY SplitAssumption DEF IInv, PhaseInv
<1>1. b \in DOMAIN code[t] /\ w \in Instr
  BY DEF IInv, CopyInv, Covered
<1>2. b \in Block /\ w = Terminator(b)
  BY <1>0, <1>1, InstrFacts
<1>3. /\ DOMAIN target[t][w] = prog.cfg[b]
      /\ \A s \in prog.cfg[b] : IsNearest(P, C, s, target[t][w][s])
  BY <1>0, <1>1, <1>2 DEF IInv, TargetInv
<1>4. /\ IsFiniteSet(E) /\ E \subseteq Block \X (Block \cup {exit}) /\ exit \notin Block
      /\ AllReach(E, exit) /\ NodesOf(E, exit) = Block \cup {exit} /\ predecessor \notin Block /\ predecessor # exit
  BY <1>0, LoopFinite, LoopReaches DEF IsProgram, predecessor
<1>5. \A s \in prog.cfg[b] : <<b, s>> \in E
  <2>1. prog.cfg[b] \subseteq Block \cup {exit}
    BY <1>0, <1>2 DEF IsProgram
  <2> QED
    BY <1>2, <2>1 DEF EdgesOf
<1>6. PICK s \in prog.cfg[b] : Decides(E, P, b, target[t][w][s])
  <2> SUFFICES ASSUME \A s \in prog.cfg[b] : ~Decides(E, P, b, target[t][w][s]) PROVE FALSE
    OBVIOUS
  <2>1. \A s, q \in prog.cfg[b] : target[t][w][s] = target[t][w][q]
    <3> SUFFICES ASSUME NEW s \in prog.cfg[b], NEW q \in prog.cfg[b]
                 PROVE  target[t][w][s] = target[t][w][q]
      OBVIOUS
    <3> DEFINE y == target[t][w][s]
               z == target[t][w][q]
               D == Postdominators(E, exit)
    <3>1. IsNearest(D, C, s, y) /\ IsNearest(D, C, q, z) /\ ~Decides(E, D, b, y) /\ ~Decides(E, D, b, z)
      BY <1>3
    <3>2. <<b, s>> \in E /\ <<b, q>> \in E
      BY <1>5
    <3> HIDE DEF E, P, C, b, y, z
    <3>3. y = z
      BY <1>4, <3>1, <3>2, NearestAgree
    <3> QED
      BY <3>3 DEF y, z
  <2>2. \A y, z \in Range(target[t][w]) : y = z
    BY <1>3, <2>1 DEF Range
  <2>3. Range(target[t][w]) = {} \/ \E y : Range(target[t][w]) = {y}
    BY <2>2
  <2>4. Cardinality(Range(target[t][w])) \in {0, 1}
    BY <2>3, FS_EmptySet, FS_Singleton
  <2> QED
    BY <2>4 DEF isConditional
<1> DEFINE y == target[t][w][s]
<1>7. y \in P[s] /\ y \in C
  BY <1>3 DEF IsNearest
<1>8. y \in Block \cup {exit}
  <2>1. s \in NodesOf(E, exit)
    BY <1>4, <1>5
  <2> QED
    BY <1>4, <1>7, <2>1, PdDef
<1>9. y # exit
  <2>1. exit \in P[b]
    BY <1>2, <1>4, PdSelf
  <2>2. b # exit
    BY <1>2, <1>4
  <2> QED
    BY <1>6, <2>1, <2>2 DEF Decides
<1>10. y \in RelevantBlocks(t)
  BY <1>4, <1>7, <1>8, <1>9
<1> QED
  BY <1>0, <1>2, <1>6, <1>10, DecidedRelevant

\* A register that has no clone in the worker of a clone that needs it belongs to an
\* earlier thread, which has it.
LEMMA OperandNeeds ==
  ASSUME IInv, phase \in {"sync", "done"}, NEW t \in Thread, NEW j \in 1..Len(allEdges),
         allEdges[j].v \in Executed(t), allEdges[j].u \notin instMap[t]
  PROVE  Needs(allEdges[j], t)
<1> DEFINE u == allEdges[j].u
           v == allEdges[j].v
<1>0. IsProgram(prog)
  BY SplitAssumption DEF IInv, PhaseInv
<1>1. u \in Instr /\ v \in Instr /\ assigned[u] <= assigned[v] /\ assigned[u] \in Thread /\ assigned[v] \in Thread
  BY <1>0, EdgeFacts
<1>2. v \in instMap[t] /\ (isTerminator(prog, v) => isConditional(t, v)) /\ (~isTerminator(prog, v) => assigned[v] = t)
  BY DEF Executed
<1> HIDE DEF u, v
<1>3. assigned[v] <= t
  <2>1. CASE isTerminator(prog, v)
    BY <1>2, <2>1, BranchThread
  <2>2. CASE ~isTerminator(prog, v)
    BY <1>2, <2>2, Numbers
  <2> QED
    BY <2>1, <2>2
<1>4. assigned[u] <= t
  BY <1>1, <1>3, Numbers
<1>5. DOMAIN code[t] # {}
  BY <1>2 DEF IInv, CopyInv, Covered
<1>6. DOMAIN code[assigned[u]] = RelevantBlocks(assigned[u])
  BY <1>1, <1>4, <1>5, Complete
<1>7. u \in instMap[assigned[u]]
  <2>1. parent(u) \in RelevantBlocks(assigned[u])
    BY <1>0, <1>1, RelevantFacts
  <2> QED
    BY <1>1, <1>6, <2>1 DEF IInv, CopyInv, Covered, Own
<1>8. assigned[u] # t
  BY <1>7 DEF u
<1> QED
  BY <1>1, <1>2, <1>4, <1>7, <1>8, Numbers DEF Needs, u, v
-----------------------------------------------------------------------------
(* Steps of insertSynchronization *)

LEMMA PendingFinite ==
  ASSUME IsProgram(prog), NEW t, NEW u
  PROVE  /\ IsFiniteSet(Pending(t, u)) /\ Cardinality(Pending(t, u)) \in Nat
         /\ IsFiniteSet(Users(t, u)) /\ Cardinality(Users(t, u)) \in Nat
<1> DEFINE N == Len(allEdges)
           J == {j \in 1..N : allEdges[j].v \in Users(t, u)}
           v == [j \in J |-> allEdges[j].v]
<1>2. Pending(t, u) \subseteq 1..N
  BY DEF Pending
<1>3. J \subseteq 1..N
  OBVIOUS
<1>4. IsFiniteSet(1..N)
  BY EdgesFinite
<1>5. IsFiniteSet(Pending(t, u)) /\ IsFiniteSet(J)
  <2> HIDE DEF N, J
  <2> QED
    BY <1>2, <1>3, <1>4, FS_Subset
<1>6. v \in Surjection(J, Users(t, u))
  <2>1. \A w \in Users(t, u) : \E f \in Range(allEdges) : f.v = w
    BY DEF Users, Registers
  <2>2. \A w \in Users(t, u) : \E j \in J : v[j] = w
    BY <2>1, EdgeFacts
  <2>3. \A j \in J : v[j] \in Users(t, u)
    OBVIOUS
  <2> QED
    BY <2>2, <2>3 DEF Surjection
<1> HIDE DEF J, v
<1> QED
  BY <1>5, <1>6, FS_Surjection, FS_CardinalityType

\* After a step of the two loops one more pair is passed.
LEMMA PassedNext ==
  ASSUME IInv, k <= Len(allEdges), NEW t \in Thread, NEW j \in 1..Len(allEdges),
         IF vtr < MAX_THREAD THEN vtr' = vtr + 1 /\ k' = k ELSE vtr' = 0 /\ k' = k + 1
  PROVE  Passed(j, t)' <=> Passed(j, t) \/ (vtr < MAX_THREAD /\ j = k /\ t = vtr)
<1>1. /\ k \in Nat /\ vtr \in Nat /\ vtr <= MAX_THREAD /\ MAX_THREAD \in Nat
      /\ t \in Nat /\ t < MAX_THREAD /\ j \in Int
  BY PhaseNumbers, Numbers DEF IInv
<1>2. CASE vtr < MAX_THREAD
  <2>1. vtr' = vtr + 1 /\ k' = k
    BY <1>2
  <2> QED
    BY <1>1, <1>2, <2>1 DEF Passed
<1>3. CASE ~(vtr < MAX_THREAD)
  <2>1. vtr' = 0 /\ k' = k + 1
    BY <1>3
  <2> QED
    BY <1>1, <1>3, <2>1 DEF Passed
<1> QED
  BY <1>2, <1>3

LEMMA NextEdge ==
  ASSUME IInv, k <= Len(allEdges)
  PROVE  /\ k \in 1..Len(allEdges) /\ e = allEdges[k] /\ e.u \in Instr /\ e.v \in Instr
         /\ utr = assigned[e.u] /\ utr \in Thread
         /\ vtr < MAX_THREAD => vtr \in Thread /\ (NeedsChannel <=> Needs(allEdges[k], vtr))
<1>0. IsProgram(prog)
  BY SplitAssumption DEF IInv, PhaseInv
<1>1. k \in Nat /\ k >= 1 /\ vtr \in Nat
  BY PhaseNumbers DEF IInv
<1>2. k \in 1..Len(allEdges)
  <2>1. Len(allEdges) \in Nat
    BY <1>0, EdgeFacts
  <2> HIDE DEF allEdges
  <2> QED
    BY <1>1, <2>1
<1>3. e.u \in Instr /\ e.v \in Instr /\ assigned[e.u] \in Thread
  BY <1>0, <1>2, EdgeFacts DEF e
<1> QED
  BY <1>1, <1>2, <1>3, Numbers DEF e, utr, NeedsChannel, Needs, Upwards

LEMMA SkipInv ==
  ASSUME IInv, SkipThread PROVE IInv'
<1>0. IsProgram(prog)
  BY SplitAssumption DEF IInv, PhaseInv
<1>1. /\ UNCHANGED <<prog, postidom, code, target, instMap, placeEquivalents, channels, operand>>
      /\ UNCHANGED <<phase, i, relbb, todo>>
      /\ phase = "sync" /\ k <= Len(allEdges) /\ (vtr < MAX_THREAD => ~NeedsChannel)
      /\ IF vtr < MAX_THREAD THEN vtr' = vtr + 1 /\ k' = k ELSE vtr' = 0 /\ k' = k + 1
  BY DEF SkipThread, live
<1>2. /\ Instr' = Instr /\ assigned' = assigned /\ allEdges' = allEdges
      /\ \A t : RelevantBlocks(t)' = RelevantBlocks(t)
  BY <1>1, ProgramSame
<1>3. PhaseInv'
  <2>1. k \in Nat /\ k >= 1 /\ vtr \in Nat /\ vtr <= MAX_THREAD /\ MAX_THREAD \in Nat
    BY PhaseNumbers, Numbers DEF IInv
  <2>2. Len(allEdges) \in Nat
    BY <1>0, EdgeFacts
  <2>3. k' \in 1..Len(allEdges) + 1 /\ vtr' \in 0..MAX_THREAD
    <3> HIDE DEF allEdges
    <3> QED
      BY <1>1, <2>1, <2>2
  <2> QED
    BY <1>1, <1>2, <2>3 DEF IInv, PhaseInv, Building
<1>4. \A t \in Thread : Blocks(t)' = Blocks(t)
  BY <1>1, <1>2 DEF Blocks
<1>5. CopyInv' /\ TargetInv' /\ ChannelInv' /\ ItemInv'
  BY <1>1, <1>4, SameCopies DEF IInv
<1>6. \A t \in Thread, j \in 1..Len(allEdges) :
        Passed(j, t)' <=> Passed(j, t) \/ (vtr < MAX_THREAD /\ j = k /\ t = vtr)
  BY <1>1, PassedNext
<1>7. \A t \in Thread, j \in 1..Len(allEdges) : Needs(allEdges[j], t) => (Passed(j, t)' <=> Passed(j, t))
  BY <1>1, <1>6, NextEdge
<1>8. PlaceInv'
  <2>1. \A f, t : Needs(f, t)' = Needs(f, t)
    BY <1>1, <1>2 DEF Needs
  <2> SUFFICES ASSUME NEW j \in 1..Len(allEdges), NEW t \in Thread,
                      Passed(j, t)', Needs(allEdges[j], t)
               PROVE  parent(allEdges[j].u) \in DOMAIN code[t]
    BY <1>1, <1>2, <2>1 DEF PlaceInv
  <2>2. Passed(j, t)
    BY <1>7
  <2> QED
    BY <1>1, <2>2 DEF IInv, PlaceInv
<1>9. OperandInv'
  <2>1. ASSUME NEW t PROVE Executed(t)' = Executed(t)
    BY <1>1, <1>2 DEF Executed, isConditional, isTerminator
  <2>2. ASSUME NEW w PROVE Registers(w)' = Registers(w)
    BY <1>2 DEF Registers
  <2> SUFFICES ASSUME NEW t \in Thread, NEW u \in Instr \ instMap[t]
               PROVE  Cardinality(Users(t, u)') <= Cardinality(Pending(t, u)')
    BY <1>1, <1>2 DEF OperandInv
  <2>3. Users(t, u)' = Users(t, u)
    BY <1>1, <2>1, <2>2 DEF Users
  <2>4. Pending(t, u)' = Pending(t, u)
    <3>1. ASSUME NEW j \in 1..Len(allEdges), allEdges[j].u = u, allEdges[j].v \in Executed(t)
          PROVE  Passed(j, t)' <=> Passed(j, t)
      <4>1. Needs(allEdges[j], t)
        BY <1>1, <3>1, OperandNeeds
      <4> QED
        BY <1>7, <4>1
    <3> QED
      BY <1>2, <2>1, <3>1 DEF Pending
  <2> QED
    BY <1>1, <2>3, <2>4 DEF IInv, OperandInv
<1> QED
  BY <1>3, <1>5, <1>8, <1>9 DEF IInv

\* The place of the consume, and what a channel does to the code.
LEMMA InsertPlace ==
  ASSUME IInv, phase = "sync", k <= Len(allEdges), vtr < MAX_THREAD, NeedsChannel, HasPlace
  PROVE  /\ utr < vtr /\ e.u \in instMap[utr] /\ insPos \in instMap[vtr] /\ parent(insPos) = parent(e.u)
         /\ parent(e.u) \in DOMAIN code[utr] /\ parent(e.u) \in DOMAIN code[vtr]
<1>1. utr \in Thread /\ vtr \in Thread /\ e.u \in Instr
  BY NextEdge
<1>2. utr < vtr /\ e.u \in instMap[utr]
  BY <1>1, Numbers DEF NeedsChannel, Upwards
<1>3. \A t \in Thread : /\ \A x \in instMap[t] : parent(x) \in DOMAIN code[t]
                        /\ \A x \in DOMAIN placeEquivalents[t] :
                             /\ parent(x) \in DOMAIN code[t]
                             /\ placeEquivalents[t][x] \in instMap[t]
                             /\ parent(placeEquivalents[t][x]) = parent(x)
  BY DEF IInv, CopyInv, Covered
<1>4. CASE e.u \in DOMAIN placeEquivalents[vtr]
  BY <1>1, <1>2, <1>3, <1>4 DEF insPos
<1>5. CASE e.u \notin DOMAIN placeEquivalents[vtr]
  BY <1>1, <1>2, <1>3, <1>5 DEF insPos, HasPlace
<1> QED
  BY <1>4, <1>5

LEMMA InsertItems ==
  ASSUME IInv, InsertChannel
  PROVE  ChannelInv' /\ ItemInv' /\ DOMAIN code' = Thread /\ \A t \in Thread : DOMAIN code'[t] = DOMAIN code[t]
<1> DEFINE c == Len(channels) + 1
           pu == parent(e.u)
           new == [edge |-> e, to |-> vtr]
<1>0. IsProgram(prog)
  BY SplitAssumption DEF IInv, PhaseInv
<1>1. /\ UNCHANGED <<prog, instMap>> /\ channels' = Append(channels, new)
      /\ phase = "sync" /\ k <= Len(allEdges) /\ vtr < MAX_THREAD /\ NeedsChannel /\ HasPlace
      /\ code' = [code EXCEPT ![utr][pu] = WithProduce(@), ![vtr][parent(insPos)] = WithConsume(@)]
  BY DEF InsertChannel
<1>2. /\ k \in 1..Len(allEdges) /\ e = allEdges[k] /\ e.u \in Instr
      /\ utr = assigned[e.u] /\ utr \in Thread /\ vtr \in Thread
  BY <1>1, NextEdge
<1>3. /\ utr < vtr /\ utr # vtr /\ e.u \in instMap[utr] /\ insPos \in instMap[vtr] /\ parent(insPos) = pu
      /\ pu \in DOMAIN code[utr] /\ pu \in DOMAIN code[vtr]
  BY <1>1, <1>2, InsertPlace, Numbers
<1>4. Instr' = Instr /\ assigned' = assigned /\ allEdges' = allEdges
  BY <1>1, ProgramSame
<1>5. DOMAIN code = Thread
  BY DEF IInv, PhaseInv
<1>6. DOMAIN code' = Thread /\ \A t \in Thread : DOMAIN code'[t] = DOMAIN code[t]
  BY <1>1, <1>5
<1>7. /\ code'[utr][pu] = WithProduce(code[utr][pu]) /\ code'[vtr][pu] = WithConsume(code[vtr][pu])
      /\ \A t \in Thread : \A b \in DOMAIN code[t] :
           ~(t = utr /\ b = pu) /\ ~(t = vtr /\ b = pu) => code'[t][b] = code[t][b]
  BY <1>1, <1>2, <1>3, <1>5
<1>8. new \in [edge : Range(allEdges), to : Thread]
  BY <1>0, <1>2, EdgeFacts
<1>9. /\ channels \in Seq([edge : Range(allEdges), to : Thread])
      /\ channels' \in Seq([edge : Range(allEdges), to : Thread])
      /\ Len(channels) \in Nat /\ DOMAIN channels = 1..Len(channels)
      /\ DOMAIN channels' = DOMAIN channels \cup {c} /\ c \notin DOMAIN channels
      /\ channels'[c] = new /\ \A d \in DOMAIN channels : channels'[d] = channels[d]
  <2> DEFINE L == channels
             X == [edge : Range(allEdges), to : Thread]
  <2>1. L \in Seq(X) /\ new \in X /\ channels' = Append(L, new)
    BY <1>1, <1>8 DEF IInv, ChannelInv
  <2> HIDE DEF L, X, new
  <2>2. /\ Append(L, new) \in Seq(X) /\ Len(L) \in Nat /\ DOMAIN L = 1..Len(L)
        /\ DOMAIN Append(L, new) = 1..Len(L) + 1
        /\ Append(L, new)[Len(L) + 1] = new /\ \A d \in 1..Len(L) : Append(L, new)[d] = L[d]
    BY <2>1
  <2>3. 1..Len(L) + 1 = (1..Len(L)) \cup {Len(L) + 1} /\ Len(L) + 1 \notin 1..Len(L)
    BY <2>2
  <2> QED
    BY <2>1, <2>2, <2>3 DEF L, X
<1> HIDE DEF c, pu
<1>10. ChannelInv'
  <2> SUFFICES ASSUME NEW d \in DOMAIN channels'
               PROVE  LET u == channels'[d].edge.u IN
                        /\ assigned[u] < channels'[d].to
                        /\ parent(u) \in DOMAIN code'[assigned[u]] /\ parent(u) \in DOMAIN code'[channels'[d].to]
    BY <1>4, <1>9 DEF ChannelInv, parent
  <2>1. CASE d = c
    <3>1. channels'[d].edge = e /\ channels'[d].to = vtr
      BY <1>9, <2>1
    <3> QED
      BY <1>2, <1>3, <1>6, <3>1 DEF pu
  <2>2. CASE d \in DOMAIN channels
    <3> DEFINE u == channels[d].edge.u
    <3>1. channels'[d] = channels[d] /\ channels[d].to \in Thread /\ u \in Instr /\ assigned[u] \in Thread
      <4>1. channels[d] \in [edge : Range(allEdges), to : Thread]
        <5> DEFINE X == [edge : Range(allEdges), to : Thread]
        <5>1. channels \in Seq(X) /\ d \in 1..Len(channels)
          BY <1>9, <2>2
        <5> HIDE DEF X
        <5>2. channels[d] \in X
          BY <5>1
        <5> QED
          BY <5>2 DEF X
      <4>2. channels[d].edge \in Range(allEdges) /\ channels[d].to \in Thread
        BY <4>1
      <4> QED
        BY <1>0, <1>9, <2>2, <4>2, EdgeFacts
    <3>2. /\ assigned[u] < channels[d].to
          /\ parent(u) \in DOMAIN code[assigned[u]] /\ parent(u) \in DOMAIN code[channels[d].to]
      BY <2>2 DEF IInv, ChannelInv
    <3> QED
      BY <1>6, <3>1, <3>2
  <2> QED
    BY <1>9, <2>1, <2>2
<1>11. ASSUME NEW t \in Thread, NEW b
       PROVE  /\ Clones(t, b)' = Clones(t, b)
              /\ Produces(t, b)' = Produces(t, b) \cup (IF t = utr /\ b = pu THEN {Produce(c)} ELSE {})
              /\ Consumes(t, b)' = Consumes(t, b) \cup (IF t = vtr /\ b = pu THEN {Consume(c)} ELSE {})
  <2>1. Clones(t, b)' = Clones(t, b)
    BY <1>1 DEF Clones, parent
  <2>2. channels'[c].edge = e /\ channels'[c].to = vtr
    BY <1>9
  <2>3. Produces(t, b)' = Produces(t, b) \cup (IF t = utr /\ b = pu THEN {Produce(c)} ELSE {})
    <3> DEFINE Q(d) == assigned[channels'[d].edge.u] = t /\ parent(channels'[d].edge.u) = b
    <3>1. {d \in DOMAIN channels' : Q(d)} = {d \in DOMAIN channels : Q(d)} \cup {d \in {c} : Q(d)}
      BY <1>9
    <3>2. {d \in DOMAIN channels : Q(d)} =
            {d \in DOMAIN channels : assigned[channels[d].edge.u] = t /\ parent(channels[d].edge.u) = b}
      BY <1>9
    <3>3. Q(c) <=> t = utr /\ b = pu
      BY <1>2, <2>2 DEF pu
    <3>4. Produces(t, b)' = {Produce(d) : d \in {d \in DOMAIN channels' : Q(d)}}
      BY <1>4 DEF Produces, parent
    <3> HIDE DEF Q
    <3> QED
      BY <3>1, <3>2, <3>3, <3>4 DEF Produces
  <2>4. Consumes(t, b)' = Consumes(t, b) \cup (IF t = vtr /\ b = pu THEN {Consume(c)} ELSE {})
    <3> DEFINE Q(d) == channels'[d].to = t /\ parent(channels'[d].edge.u) = b
    <3>1. {d \in DOMAIN channels' : Q(d)} = {d \in DOMAIN channels : Q(d)} \cup {d \in {c} : Q(d)}
      BY <1>9
    <3>2. {d \in DOMAIN channels : Q(d)} =
            {d \in DOMAIN channels : channels[d].to = t /\ parent(channels[d].edge.u) = b}
      BY <1>9
    <3>3. Q(c) <=> t = vtr /\ b = pu
      BY <2>2 DEF pu
    <3>4. Consumes(t, b)' = {Consume(d) : d \in {d \in DOMAIN channels' : Q(d)}}
      BY DEF Consumes, parent
    <3> HIDE DEF Q
    <3> QED
      BY <3>1, <3>2, <3>3, <3>4 DEF Consumes
  <2> QED
    BY <2>1, <2>3, <2>4
<1>12. \A t, b : Produce(c) \notin Items(t, b) /\ Consume(c) \notin Items(t, b)
  BY <1>9, ItemsDiffer DEF Items, Clones, Produces, Consumes
<1>13. ASSUME NEW t \in Thread, NEW b \in DOMAIN code[t]
       PROVE  Lists(code'[t][b], Items(t, b)')
  <2>0. Lists(code[t][b], Items(t, b))
    BY DEF IInv, ItemInv
  <2>1. CASE t = utr /\ b = pu
    <3>1. Items(t, b)' = Items(t, b) \cup {Produce(c)}
      BY <1>3, <1>11, <2>1 DEF Items
    <3>2. Clone(e.u) \in Items(t, b)
      BY <1>3, <2>1 DEF Items, Clones, pu
    <3>3. Lists(WithProduce(code[t][b]), Items(t, b) \cup {Produce(c)})
      BY <1>12, <2>0, <3>2, WithProduceLists DEF c
    <3> QED
      BY <1>7, <2>1, <3>1, <3>3
  <2>2. CASE t = vtr /\ b = pu
    <3>1. Items(t, b)' = Items(t, b) \cup {Consume(c)}
      BY <1>3, <1>11, <2>2 DEF Items
    <3>2. Clone(insPos) \in Items(t, b)
      BY <1>3, <2>2 DEF Items, Clones
    <3>3. Lists(WithConsume(code[t][b]), Items(t, b) \cup {Consume(c)})
      BY <1>12, <2>0, <3>2, WithConsumeLists DEF c
    <3> QED
      BY <1>7, <2>2, <3>1, <3>3
  <2>3. CASE ~(t = utr /\ b = pu) /\ ~(t = vtr /\ b = pu)
    <3>1. Items(t, b)' = Items(t, b)
      BY <1>11, <2>3 DEF Items
    <3> QED
      BY <1>7, <2>0, <2>3, <3>1
  <2> QED
    BY <2>1, <2>2, <2>3
<1>14. ItemInv'
  BY <1>6, <1>13 DEF ItemInv
<1> QED
  BY <1>6, <1>10, <1>14

\* A channel for a register takes one dependence off, and one user if there is any.
LEMMA InsertOperands ==
  ASSUME IInv, InsertChannel
  PROVE  OperandInv' /\ DOMAIN operand' = Thread
<1>0. IsProgram(prog)
  BY SplitAssumption DEF IInv, PhaseInv
<1>1. /\ UNCHANGED <<prog, target, instMap, k, phase>> /\ vtr' = vtr + 1
      /\ phase = "sync" /\ k <= Len(allEdges) /\ vtr < MAX_THREAD
  BY DEF InsertChannel
<1>2. IF e.dtype = "REG" /\ Users(vtr, e.u) # {}
      THEN \E user \in Users(vtr, e.u) : operand' = Redirected(user)
      ELSE operand' = operand
  BY DEF InsertChannel
<1>3. k \in 1..Len(allEdges) /\ e = allEdges[k] /\ vtr \in Thread /\ k \in Nat /\ vtr \in Nat
  BY <1>1, NextEdge, PhaseNumbers DEF IInv
<1>4. Instr' = Instr /\ allEdges' = allEdges /\ assigned' = assigned
  BY <1>1, ProgramSame
<1>5. DOMAIN operand = Thread
  BY DEF IInv, PhaseInv
<1>6. ASSUME NEW user, operand' = Redirected(user)
      PROVE  /\ DOMAIN operand' = Thread
             /\ \A t \in Thread : t # vtr => operand'[t] = operand[t]
             /\ DOMAIN operand'[vtr] = {<<user, e.u>>} \cup DOMAIN operand[vtr]
  <2>1. operand' = [operand EXCEPT ![vtr] = Over([x \in {<<user, e.u>>} |-> Len(channels) + 1], operand[vtr])]
    BY <1>6 DEF Redirected
  <2>2. DOMAIN Over([x \in {<<user, e.u>>} |-> Len(channels) + 1], operand[vtr]) = {<<user, e.u>>} \cup DOMAIN operand[vtr]
    BY DEF Over
  <2> QED
    BY <1>3, <1>5, <2>1, <2>2
<1>7. DOMAIN operand' = Thread
  BY <1>2, <1>5, <1>6
<1>8. \A t \in Thread, j \in 1..Len(allEdges) : Passed(j, t)' <=> Passed(j, t) \/ (j = k /\ t = vtr)
  BY <1>1, PassedNext
<1>9. \A t : Executed(t)' = Executed(t)
  BY <1>1, <1>4 DEF Executed, isConditional, isTerminator
<1>10. \A w : Registers(w)' = Registers(w)
  BY <1>4 DEF Registers
<1>11. ~Passed(k, vtr)
  BY <1>3 DEF Passed
<1> SUFFICES ASSUME NEW t \in Thread, NEW u \in Instr \ instMap[t]
             PROVE  Cardinality(Users(t, u)') <= Cardinality(Pending(t, u)')
  BY <1>1, <1>4, <1>7 DEF OperandInv
<1>12. Users(t, u)' = {w \in Executed(t) : u \in Registers(w) \ instMap[t] /\ <<w, u>> \notin DOMAIN operand'[t]}
  BY <1>1, <1>9, <1>10 DEF Users
<1>13. DOMAIN operand[t] \subseteq DOMAIN operand'[t]
  BY <1>2, <1>6
<1>14. Users(t, u)' \subseteq Users(t, u)
  BY <1>12, <1>13 DEF Users
<1>15. Pending(t, u)' = Pending(t, u) \ (IF t = vtr THEN {k} ELSE {})
  <2>1. Pending(t, u)' = {j \in 1..Len(allEdges) : /\ ~Passed(j, t)' /\ allEdges[j].dtype = "REG" /\ allEdges[j].u = u
                                                   /\ allEdges[j].v \in Executed(t)}
    BY <1>4, <1>9 DEF Pending
  <2> QED
    BY <1>8, <2>1 DEF Pending
<1>16. /\ IsFiniteSet(Pending(t, u)) /\ Cardinality(Pending(t, u)) \in Nat
       /\ IsFiniteSet(Users(t, u)) /\ Cardinality(Users(t, u)) \in Nat
       /\ Cardinality(Users(t, u)) <= Cardinality(Pending(t, u))
  BY <1>0, <1>1, PendingFinite DEF IInv, OperandInv
<1>17. Cardinality(Users(t, u)') \in Nat /\ Cardinality(Users(t, u)') <= Cardinality(Users(t, u))
  BY <1>14, <1>16, FS_Subset, FS_CardinalityType
<1>18. CASE t = vtr /\ k \in Pending(t, u)
  <2>1. e.dtype = "REG" /\ e.u = u
    BY <1>3, <1>18 DEF Pending
  <2>2. Pending(t, u)' = Pending(t, u) \ {k} /\ Cardinality(Pending(t, u)') = Cardinality(Pending(t, u)) - 1
    BY <1>15, <1>16, <1>18, FS_RemoveElement
  <2>3. CASE Users(t, u) = {}
    <3>1. Users(t, u)' = {}
      BY <1>14, <2>3
    <3>2. Cardinality(Users(t, u)') = 0
      BY <3>1, FS_EmptySet
    <3>3. Cardinality(Pending(t, u)) # 0
      BY <1>16, <1>18, FS_EmptySet
    <3> QED
      BY <1>16, <2>2, <3>2, <3>3
  <2>4. CASE Users(t, u) # {}
    <3>1. PICK user \in Users(vtr, e.u) : operand' = Redirected(user)
      BY <1>2, <1>18, <2>1, <2>4
    <3>2. user \in Users(t, u) /\ user \notin Users(t, u)'
      BY <1>6, <1>12, <1>18, <2>1, <3>1
    <3>3. Users(t, u)' \subseteq Users(t, u) \ {user}
      BY <1>14, <3>2
    <3>4. /\ Cardinality(Users(t, u) \ {user}) = Cardinality(Users(t, u)) - 1
          /\ IsFiniteSet(Users(t, u) \ {user})
      BY <1>16, <3>2, FS_RemoveElement
    <3>5. Cardinality(Users(t, u)') <= Cardinality(Users(t, u) \ {user})
      BY <3>3, <3>4, FS_Subset
    <3> QED
      BY <1>16, <1>17, <2>2, <3>4, <3>5
  <2> QED
    BY <2>3, <2>4
<1>19. CASE ~(t = vtr /\ k \in Pending(t, u))
  <2>1. Pending(t, u)' = Pending(t, u)
    BY <1>15, <1>19
  <2> QED
    BY <1>16, <1>17, <2>1
<1> QED
  BY <1>18, <1>19

LEMMA InsertInv ==
  ASSUME IInv, InsertChannel PROVE IInv'
<1>0. IsProgram(prog)
  BY SplitAssumption DEF IInv, PhaseInv
<1>1. /\ UNCHANGED <<prog, postidom, target, instMap, placeEquivalents, phase, i, relbb, todo, k>>
      /\ vtr' = vtr + 1 /\ phase = "sync" /\ k <= Len(allEdges) /\ vtr < MAX_THREAD
      /\ NeedsChannel /\ HasPlace
  BY DEF InsertChannel, live
<1>2. /\ Instr' = Instr /\ assigned' = assigned /\ allEdges' = allEdges
      /\ \A t : RelevantBlocks(t)' = RelevantBlocks(t) /\ Own(t)' = Own(t)
      /\ \A b : Terminator(b)' = Terminator(b)
  BY <1>1, ProgramSame
<1>3. ChannelInv' /\ ItemInv' /\ DOMAIN code' = Thread /\ \A t \in Thread : DOMAIN code'[t] = DOMAIN code[t]
  BY InsertItems
<1>4. OperandInv' /\ DOMAIN operand' = Thread
  BY InsertOperands
<1>5. PhaseInv'
  <2>1. vtr' \in 0..MAX_THREAD
    BY <1>1, PhaseNumbers, Numbers DEF IInv
  <2> QED
    BY <1>1, <1>2, <1>3, <1>4, <2>1 DEF IInv, PhaseInv, Building
<1>6. CopyInv'
  <2>1. \A t \in Thread : Covered(t)' = Covered(t)
    BY <1>2, <1>3 DEF Covered, parent
  <2>2. \A t \in Thread : Blocks(t)' = Blocks(t)
    BY <1>1, <1>2 DEF Blocks
  <2> QED
    BY <1>1, <1>2, <1>3, <2>1, <2>2 DEF IInv, CopyInv, parent
<1>7. TargetInv'
  BY <1>1, <1>2, <1>3 DEF IInv, TargetInv
<1>8. PlaceInv'
  <2> SUFFICES ASSUME NEW j \in 1..Len(allEdges), NEW t \in Thread, Passed(j, t)', Needs(allEdges[j], t)
               PROVE  parent(allEdges[j].u) \in DOMAIN code[t]
    <3>1. \A f, t : Needs(f, t)' = Needs(f, t)
      BY <1>1, <1>2 DEF Needs
    <3> QED
      BY <1>1, <1>2, <1>3, <3>1 DEF PlaceInv, parent
  <2>1. CASE Passed(j, t)
    BY <1>1, <2>1 DEF IInv, PlaceInv
  <2>2. CASE ~Passed(j, t)
    <3>1. j = k /\ t = vtr
      BY <1>1, <2>2, PassedNext
    <3> QED
      BY <1>1, <3>1, NextEdge, InsertPlace
  <2> QED
    BY <2>1, <2>2
<1> QED
  BY <1>3, <1>4, <1>5, <1>6, <1>7, <1>8 DEF IInv
-----------------------------------------------------------------------------
(* The step that copies a block *)

LEMMA ListsClones ==
  ASSUME NEW s, NEW S, Lists(s, S)
  PROVE  Lists([n \in 1..Len(s) |-> Clone(s[n])], {Clone(x) : x \in S})
<1> DEFINE r == [n \in 1..Len(s) |-> Clone(s[n])]
           N == Len(s)
           C == {Clone(x) : x \in S}
<1>1. N \in Nat /\ \A n \in 1..N : s[n] \in S
  BY DEF Lists
<1>2. r \in [1..N -> C] /\ \A n \in 1..N : r[n] = Clone(s[n])
  BY <1>1
<1>3. \A x \in S : \E n \in 1..N : s[n] = x
  BY DEF Lists
<1>4. \A n, m \in 1..N : s[n] = s[m] => n = m
  BY DEF Lists
<1>5. \A y \in C : \E n \in 1..N : r[n] = y
  BY <1>2, <1>3
<1>6. \A n, m \in 1..N : r[n] = r[m] => n = m
  BY <1>2, <1>4, ItemsDiffer
<1> HIDE DEF r, N, C
<1>7. r \in Seq(C) /\ Len(r) = N
  BY <1>1, <1>2
<1> QED
  BY <1>5, <1>6, <1>7 DEF Lists, r, N, C

\* The instructions of block b, and those of them the thread at hand copies.
InstrOf(b) == {x \in Instr : parent(x) = b}
CopiedOf(b) == {x \in InstrOf(b) : Copied(x)}
Cloned(b) == Keep(Body(b), {instr \in Range(Body(b)) : Copied(instr)})

LEMMA ClonedLists ==
  ASSUME IsProgram(prog), NEW b \in Block
  PROVE  /\ Range(Body(b)) = InstrOf(b)
         /\ Lists(Cloned(b), CopiedOf(b)) /\ Range(Cloned(b)) = CopiedOf(b)
<1>1. Lists(Body(b), InstrOf(b))
  BY BodyLists DEF InstrOf
<1>2. Range(Body(b)) = InstrOf(b)
  BY <1>1, ListsRange
<1>3. Lists(Cloned(b), InstrOf(b) \cap {instr \in Range(Body(b)) : Copied(instr)})
  BY <1>1, ListsKeep DEF Cloned
<1>4. InstrOf(b) \cap {instr \in Range(Body(b)) : Copied(instr)} = CopiedOf(b)
  BY <1>2 DEF CopiedOf
<1>5. Lists(Cloned(b), CopiedOf(b))
  BY <1>3, <1>4
<1> QED
  BY <1>2, <1>5, ListsRange

LEMMA NextCloneFacts ==
  ASSUME IsProgram(prog), NEW b \in Block, NEW x \in InstrOf(b) \ CopiedOf(b)
  PROVE  /\ NextClone(x) \in CopiedOf(b)
         /\ \A u \in CopiedOf(b) : u[2] > x[2] => u[2] >= NextClone(x)[2]
<1> DEFINE S == {u \in Range(Body(parent(x))) : u[2] > x[2] /\ Copied(u)}
           T == Terminator(b)
<1>1. x \in Instr /\ parent(x) = b /\ ~Copied(x)
  BY DEF InstrOf, CopiedOf
<1>2. Range(Body(parent(x))) = InstrOf(b)
  BY <1>1, ClonedLists
<1>3. T \in InstrOf(b) /\ Copied(T) /\ T[2] = prog.size[b]
  BY InstrFacts DEF Copied, InstrOf, Terminator
<1>4. x[2] \in 1..prog.size[b] /\ x[2] # prog.size[b] /\ prog.size[b] \in Nat
  BY <1>1, InstrFacts DEF Copied, isTerminator
<1>5. T \in S
  <2>1. prog.size[b] > x[2]
    BY <1>4
  <2> QED
    BY <1>2, <1>3, <2>1
<1>6. \A u \in S : u \in CopiedOf(b) /\ u[2] \in Nat
  BY <1>2, InstrFacts DEF CopiedOf, InstrOf
<1>7. NextClone(x) = CHOOSE c \in S : \A u \in Range(Body(parent(x))) : u[2] > x[2] /\ Copied(u) => u[2] >= c[2]
  BY DEF NextClone
<1>8. \A u \in Range(Body(parent(x))) : u[2] > x[2] /\ Copied(u) => u \in S
  OBVIOUS
<1> HIDE DEF S, T
<1>9. PICK n \in {u[2] : u \in S} : \A l \in {u[2] : u \in S} : l >= n
  <2>1. {u[2] : u \in S} \subseteq Nat /\ {u[2] : u \in S} # {}
    BY <1>5, <1>6
  <2> QED
    BY <2>1, Least
<1>10. \E c \in S : \A u \in Range(Body(parent(x))) : u[2] > x[2] /\ Copied(u) => u[2] >= c[2]
  BY <1>8, <1>9
<1>11. NextClone(x) \in S /\ \A u \in Range(Body(parent(x))) : u[2] > x[2] /\ Copied(u) => u[2] >= NextClone(x)[2]
  BY <1>7, <1>10
<1>12. \A u \in CopiedOf(b) : u \in Range(Body(parent(x))) /\ Copied(u)
  BY <1>2 DEF CopiedOf
<1> QED
  BY <1>6, <1>11, <1>12

LEMMA CopyStart ==
  ASSUME IInv, NEW BB \in todo, CopyBlock(BB)
  PROVE  /\ IsProgram(prog) /\ BB \in Block /\ i \in Thread /\ phase = "copy" /\ phase' = "copy"
         /\ channels = <<>>
         /\ UNCHANGED <<prog, postidom, idom, i, relbb, operand, k, vtr, channels, stores>>
         /\ relbb = RelevantBlocks(i) /\ todo \subseteq relbb /\ todo' = todo \ {BB}
         /\ BB \notin DOMAIN code[i] /\ DOMAIN code[i] = relbb \ todo
         /\ code' = [code EXCEPT ![i] =
              Over([b \in {BB} |-> [n \in 1..Len(Cloned(BB)) |-> Clone(Cloned(BB)[n])]], @)]
         /\ target' = [target EXCEPT ![i] =
              Over([x \in {Terminator(BB)} \cup (CopiedOf(BB) \cap DOMAIN prog.phi) |->
                      IF x = Terminator(BB) THEN [s \in prog.cfg[BB] |-> BBMap(postidom, s)]
                      ELSE [q \in DOMAIN prog.phi[x] |-> BBMap(idom, q)]], @)]
         /\ instMap' = [instMap EXCEPT ![i] = @ \cup CopiedOf(BB)]
         /\ placeEquivalents' = [placeEquivalents EXCEPT ![i] =
              Over([instr \in InstrOf(BB) \ CopiedOf(BB) |-> NextClone(instr)], @)]
<1>1. IsProgram(prog)
  BY SplitAssumption DEF IInv, PhaseInv
<1>2. /\ phase = "copy" /\ UNCHANGED <<prog, phase, postidom, idom, i, relbb, operand, k, vtr, channels, stores>>
      /\ todo' = todo \ {BB}
  BY DEF CopyBlock, live
<1>3. i < MAX_THREAD /\ relbb = RelevantBlocks(i) /\ todo \subseteq relbb /\ channels = <<>>
  BY <1>2 DEF IInv, PhaseInv, Building
<1>4. i \in Thread
  BY <1>3, PhaseNumbers, Numbers DEF IInv
<1>5. BB \in Block
  BY <1>1, <1>3, RelevantFacts
<1>6. DOMAIN code[i] = relbb \ todo
  <2>1. Blocks(i) = relbb \ todo
    BY <1>2, <1>4, Numbers DEF Blocks
  <2> QED
    BY <1>4, <2>1 DEF IInv, CopyInv
<1>7. Range(Body(BB)) = InstrOf(BB) /\ Range(Cloned(BB)) = CopiedOf(BB)
  BY <1>1, <1>5, ClonedLists
<1>8. code' = [code EXCEPT ![i] =
             Over([b \in {BB} |-> [n \in 1..Len(Cloned(BB)) |-> Clone(Cloned(BB)[n])]], @)]
  BY DEF CopyBlock, Cloned
<1>9. target' = [target EXCEPT ![i] =
              Over([x \in {Terminator(BB)} \cup (CopiedOf(BB) \cap DOMAIN prog.phi) |->
                      IF x = Terminator(BB) THEN [s \in prog.cfg[BB] |-> BBMap(postidom, s)]
                      ELSE [q \in DOMAIN prog.phi[x] |-> BBMap(idom, q)]], @)]
  BY <1>7 DEF CopyBlock, Cloned
<1>10. instMap' = [instMap EXCEPT ![i] = @ \cup CopiedOf(BB)]
  BY <1>7 DEF CopyBlock, Cloned
<1>11. placeEquivalents' = [placeEquivalents EXCEPT ![i] =
              Over([instr \in InstrOf(BB) \ CopiedOf(BB) |-> NextClone(instr)], @)]
  BY <1>7 DEF CopyBlock, Cloned
<1> QED
  BY <1>1, <1>2, <1>3, <1>4, <1>5, <1>6, <1>8, <1>9, <1>10, <1>11

LEMMA CopySets ==
  ASSUME IInv, NEW BB \in todo, CopyBlock(BB)
  PROVE  /\ PhaseInv' /\ CopyInv'
         /\ \A t \in Thread : DOMAIN code'[t] = DOMAIN code[t] \cup (IF t = i THEN {BB} ELSE {})
         /\ \A t \in Thread : instMap'[t] = instMap[t] \cup (IF t = i THEN CopiedOf(BB) ELSE {})
<1>1. /\ IsProgram(prog) /\ BB \in Block /\ i \in Thread /\ phase = "copy" /\ phase' = "copy"
      /\ UNCHANGED <<prog, postidom, idom, i, relbb, operand, k, vtr, channels>>
      /\ relbb = RelevantBlocks(i) /\ todo \subseteq relbb /\ todo' = todo \ {BB}
      /\ BB \notin DOMAIN code[i] /\ DOMAIN code[i] = relbb \ todo
  BY CopyStart
<1> DEFINE items == [b \in {BB} |-> [n \in 1..Len(Cloned(BB)) |-> Clone(Cloned(BB)[n])]]
           next == [instr \in InstrOf(BB) \ CopiedOf(BB) |-> NextClone(instr)]
<1>2. /\ code' = [code EXCEPT ![i] = Over(items, @)]
      /\ instMap' = [instMap EXCEPT ![i] = @ \cup CopiedOf(BB)]
      /\ placeEquivalents' = [placeEquivalents EXCEPT ![i] = Over(next, @)]
  BY CopyStart
<1>3. \E g : target' = [target EXCEPT ![i] = g]
  BY CopyStart
<1>4. /\ DOMAIN code = Thread /\ DOMAIN target = Thread /\ DOMAIN instMap = Thread
      /\ DOMAIN placeEquivalents = Thread /\ DOMAIN operand = Thread
  BY DEF IInv, PhaseInv
<1>5. DOMAIN items = {BB} /\ DOMAIN next = InstrOf(BB) \ CopiedOf(BB) /\ \A x \in DOMAIN next : next[x] = NextClone(x)
  OBVIOUS
<1> HIDE DEF items, next
<1>6. /\ Instr' = Instr /\ assigned' = assigned /\ allEdges' = allEdges
      /\ \A t : RelevantBlocks(t)' = RelevantBlocks(t) /\ Own(t)' = Own(t)
  BY <1>1, ProgramSame
<1>7. \A t \in Thread : DOMAIN code'[t] = DOMAIN code[t] \cup (IF t = i THEN {BB} ELSE {})
  BY <1>1, <1>2, <1>4, <1>5 DEF Over
<1>8. \A t \in Thread : instMap'[t] = instMap[t] \cup (IF t = i THEN CopiedOf(BB) ELSE {})
  BY <1>1, <1>2, <1>4
<1>9. PhaseInv'
  <2>1. /\ DOMAIN code' = Thread /\ DOMAIN target' = Thread /\ DOMAIN instMap' = Thread
        /\ DOMAIN placeEquivalents' = Thread /\ DOMAIN operand' = Thread
    BY <1>1, <1>2, <1>3, <1>4
  <2>2. todo' \subseteq relbb'
    BY <1>1
  <2> QED
    BY <1>1, <1>6, <2>1, <2>2 DEF IInv, PhaseInv, Building
<1>10. \A t \in Thread : Covered(t)' = Covered(t) \cup (IF t = i THEN InstrOf(BB) ELSE {})
  BY <1>6, <1>7 DEF Covered, InstrOf, parent
<1>11. CopiedOf(BB) = InstrOf(BB) \cap Own(i)
  BY DEF CopiedOf, InstrOf, Copied, Own
<1>12. CopyInv'
  <2> SUFFICES ASSUME NEW t \in Thread
               PROVE  /\ DOMAIN code'[t] = Blocks(t)'
                      /\ instMap'[t] = Covered(t)' \cap Own(t)
                      /\ DOMAIN placeEquivalents'[t] = Covered(t)' \ Own(t)
                      /\ \A x \in DOMAIN placeEquivalents'[t] :
                           placeEquivalents'[t][x] \in instMap'[t] /\ parent(placeEquivalents'[t][x]) = parent(x)
    BY <1>6 DEF CopyInv, parent
  <2>0. /\ DOMAIN code[t] = Blocks(t)
        /\ instMap[t] = Covered(t) \cap Own(t)
        /\ DOMAIN placeEquivalents[t] = Covered(t) \ Own(t)
        /\ \A x \in DOMAIN placeEquivalents[t] :
             placeEquivalents[t][x] \in instMap[t] /\ parent(placeEquivalents[t][x]) = parent(x)
    BY DEF IInv, CopyInv
  <2>1. DOMAIN code'[t] = Blocks(t)'
    <3>1. CASE t = i
      <4>1. ~(t < i)
        BY <3>1, <1>1, Numbers
      <4>2. Blocks(t)' = relbb \ (todo \ {BB})
        BY <1>1, <3>1, <4>1 DEF Blocks
      <4> QED
        BY <1>1, <1>7, <3>1, <4>2
    <3>2. CASE t # i
      <4>1. Blocks(t)' = Blocks(t)
        BY <1>1, <1>6, <3>2 DEF Blocks
      <4> QED
        BY <1>7, <2>0, <3>2, <4>1
    <3> QED
      BY <3>1, <3>2
  <2>2. instMap'[t] = Covered(t)' \cap Own(t)
    BY <1>8, <1>10, <1>11, <2>0
  <2>3. CASE t # i
    <3>1. placeEquivalents'[t] = placeEquivalents[t]
      BY <1>2, <2>3
    <3> QED
      BY <1>8, <1>10, <2>0, <2>1, <2>2, <2>3, <3>1
  <2>4. CASE t = i
    <3>1. placeEquivalents'[t] = Over(next, placeEquivalents[t])
      BY <1>1, <1>2, <1>4, <2>4
    <3>2. /\ DOMAIN placeEquivalents'[t] = DOMAIN next \cup DOMAIN placeEquivalents[t]
          /\ \A x \in DOMAIN next : placeEquivalents'[t][x] = next[x]
          /\ \A x \in DOMAIN placeEquivalents[t] \ DOMAIN next : placeEquivalents'[t][x] = placeEquivalents[t][x]
      BY <3>1 DEF Over
    <3>3. DOMAIN placeEquivalents'[t] = Covered(t)' \ Own(t)
      BY <1>5, <1>10, <1>11, <2>0, <2>4, <3>2
    <3>4. ASSUME NEW x \in DOMAIN placeEquivalents'[t]
          PROVE  placeEquivalents'[t][x] \in instMap'[t] /\ parent(placeEquivalents'[t][x]) = parent(x)
      <4>1. CASE x \in DOMAIN next
        <5>1. NextClone(x) \in CopiedOf(BB)
          BY <1>1, <1>5, <4>1, NextCloneFacts
        <5> QED
          BY <1>5, <1>8, <2>4, <3>2, <4>1, <5>1 DEF CopiedOf, InstrOf
      <4>2. CASE x \notin DOMAIN next
        BY <1>8, <2>0, <3>2, <4>2
      <4> QED
        BY <4>1, <4>2
    <3> QED
      BY <2>1, <2>2, <3>3, <3>4
  <2> QED
    BY <2>3, <2>4
<1> QED
  BY <1>7, <1>8, <1>9, <1>12

\* The branch of the copied block leads to the nearest postdominator with a copy.
LEMMA BBMapNearest ==
  ASSUME IInv, NEW BB \in todo, CopyBlock(BB), NEW s \in prog.cfg[BB]
  PROVE  IsNearest(postidom, RelevantBlocks(i) \cup {predecessor, exit}, s, BBMap(postidom, s))
<1> DEFINE E == EdgesOf(prog.cfg)
           C == relbb \cup {predecessor, exit}
<1>1. /\ IsProgram(prog) /\ BB \in Block /\ relbb = RelevantBlocks(i) /\ postidom = Postdominators(E, exit)
  BY CopyStart DEF IInv, PhaseInv
<1>2. IsFiniteSet(E) /\ AllReach(E, exit) /\ NodesOf(E, exit) = Block \cup {exit}
  BY <1>1, LoopFinite, LoopReaches DEF IsProgram
<1>3. s \in NodesOf(E, exit)
  BY <1>1, <1>2 DEF IsProgram
<1>4. \E y : IsNearest(postidom, C, s, y)
  <2> DEFINE P == postidom
  <2>1. exit \in C /\ P = Postdominators(E, exit)
    BY <1>1
  <2> HIDE DEF E, C, P
  <2>2. \E y : IsNearest(P, C, s, y)
    BY <1>2, <1>3, <2>1, NearestExists
  <2> QED
    BY <2>2 DEF P
<1>5. \E y \in postidom[s] \cap C : \A z \in postidom[s] \cap C : z \in postidom[y]
  BY <1>4 DEF IsNearest
<1>6. BBMap(postidom, s) = CHOOSE y \in postidom[s] \cap C : \A z \in postidom[s] \cap C : z \in postidom[y]
  BY DEF BBMap
<1> HIDE DEF C
<1>7. IsNearest(postidom, C, s, BBMap(postidom, s))
  BY <1>5, <1>6 DEF IsNearest
<1> QED
  BY <1>1, <1>7 DEF C

LEMMA CopyTarget ==
  ASSUME IInv, NEW BB \in todo, CopyBlock(BB)
  PROVE  TargetInv'
<1> DEFINE ways == [s \in prog.cfg[BB] |-> BBMap(postidom, s)]
           new == [x \in {Terminator(BB)} \cup (CopiedOf(BB) \cap DOMAIN prog.phi) |->
                     IF x = Terminator(BB) THEN ways ELSE [q \in DOMAIN prog.phi[x] |-> BBMap(idom, q)]]
<1>1. /\ IsProgram(prog) /\ BB \in Block /\ i \in Thread /\ UNCHANGED <<prog, postidom>>
      /\ BB \notin DOMAIN code[i] /\ target' = [target EXCEPT ![i] = Over(new, @)]
  BY CopyStart
<1>2. /\ \A t : RelevantBlocks(t)' = RelevantBlocks(t)
      /\ \A b : Terminator(b)' = Terminator(b)
  BY <1>1, ProgramSame
<1>3. DOMAIN target = Thread
  BY DEF IInv, PhaseInv
<1>4. \A t \in Thread : DOMAIN code'[t] = DOMAIN code[t] \cup (IF t = i THEN {BB} ELSE {})
  BY CopySets
<1>5. DOMAIN new = {Terminator(BB)} \cup (CopiedOf(BB) \cap DOMAIN prog.phi) /\ new[Terminator(BB)] = ways
  OBVIOUS
<1>6. DOMAIN ways = prog.cfg[BB] /\ \A s \in prog.cfg[BB] : ways[s] = BBMap(postidom, s)
  OBVIOUS
<1> HIDE DEF new, ways
<1> SUFFICES ASSUME NEW t \in Thread, NEW b \in DOMAIN code'[t]
             PROVE  /\ Terminator(b) \in DOMAIN target'[t] /\ DOMAIN target'[t][Terminator(b)] = prog.cfg[b]
                    /\ \A s \in prog.cfg[b] :
                         IsNearest(postidom, RelevantBlocks(t) \cup {predecessor, exit}, s, target'[t][Terminator(b)][s])
  BY <1>1, <1>2 DEF TargetInv, IsNearest
<1>7. CASE t = i /\ b = BB
  <2>1. target'[t] = Over(new, target[t])
    BY <1>1, <1>3, <1>7
  <2>2. Terminator(b) \in DOMAIN target'[t] /\ target'[t][Terminator(b)] = ways
    BY <1>5, <1>7, <2>1 DEF Over
  <2> QED
    BY <1>6, <1>7, <2>2, BBMapNearest
<1>8. CASE ~(t = i /\ b = BB)
  <2>1. b \in DOMAIN code[t]
    BY <1>4, <1>8
  <2>2. /\ Terminator(b) \in DOMAIN target[t] /\ DOMAIN target[t][Terminator(b)] = prog.cfg[b]
        /\ \A s \in prog.cfg[b] :
             IsNearest(postidom, RelevantBlocks(t) \cup {predecessor, exit}, s, target[t][Terminator(b)][s])
    BY <2>1 DEF IInv, TargetInv
  <2>3. CASE t # i
    <3>1. target'[t] = target[t]
      BY <1>1, <2>3
    <3> QED
      BY <2>2, <3>1
  <2>4. CASE t = i
    <3>1. target'[t] = Over(new, target[t])
      BY <1>1, <1>3, <2>4
    <3>2. b \in Block /\ b # BB
      <4>1. DOMAIN code[t] \subseteq relbb /\ relbb \subseteq Block
        BY <1>1, <2>4, CopyStart, RelevantFacts
      <4> QED
        BY <1>8, <2>1, <2>4, <4>1
    <3>3. Terminator(b) \notin DOMAIN new
      <4>1. Terminator(b) # Terminator(BB)
        BY <3>2 DEF Terminator
      <4>2. isTerminator(prog, Terminator(b))
        BY <1>1, <3>2, InstrFacts
      <4> QED
        BY <1>1, <1>5, <4>1, <4>2, EdgeFacts
    <3>4. Terminator(b) \in DOMAIN target'[t] /\ target'[t][Terminator(b)] = target[t][Terminator(b)]
      BY <2>2, <3>1, <3>3 DEF Over
    <3> QED
      BY <2>2, <3>4
  <2> QED
    BY <2>3, <2>4
<1> QED
  BY <1>7, <1>8

LEMMA CopyItems ==
  ASSUME IInv, NEW BB \in todo, CopyBlock(BB)
  PROVE  ItemInv'
<1> DEFINE new == [n \in 1..Len(Cloned(BB)) |-> Clone(Cloned(BB)[n])]
           items == [b \in {BB} |-> new]
<1>1. /\ IsProgram(prog) /\ BB \in Block /\ i \in Thread /\ channels' = <<>> /\ channels = <<>>
      /\ BB \notin DOMAIN code[i] /\ code' = [code EXCEPT ![i] = Over(items, @)] /\ DOMAIN code = Thread
  BY CopyStart DEF IInv, PhaseInv
<1>2. DOMAIN items = {BB} /\ items[BB] = new
  OBVIOUS
<1>3. Lists(new, {Clone(x) : x \in CopiedOf(BB)})
  <2>1. Lists(Cloned(BB), CopiedOf(BB))
    BY <1>1, ClonedLists
  <2> QED
    BY <2>1, ListsClones
<1> HIDE DEF items, new
<1>4. /\ \A t \in Thread : DOMAIN code'[t] = DOMAIN code[t] \cup (IF t = i THEN {BB} ELSE {})
      /\ \A t \in Thread : instMap'[t] = instMap[t] \cup (IF t = i THEN CopiedOf(BB) ELSE {})
  BY CopySets
<1>5. \A t, b : Items(t, b) = Clones(t, b) /\ Items(t, b)' = Clones(t, b)'
  <2>1. DOMAIN <<>> = {}
    OBVIOUS
  <2> QED
    BY <1>1, <2>1 DEF Items, Produces, Consumes
<1> SUFFICES ASSUME NEW t \in Thread, NEW b \in DOMAIN code'[t] PROVE Lists(code'[t][b], Clones(t, b)')
  BY <1>5 DEF ItemInv
<1>6. Clones(t, b)' = {Clone(x) : x \in {y \in instMap'[t] : parent(y) = b}}
  BY DEF Clones, parent
<1>7. \A x \in CopiedOf(BB) : parent(x) = BB
  BY DEF CopiedOf, InstrOf
<1>8. CASE t = i /\ b = BB
  <2>1. code'[t][b] = new
    BY <1>1, <1>2, <1>8 DEF Over
  <2>2. \A x \in instMap[t] : parent(x) # b
    BY <1>1, <1>8 DEF IInv, CopyInv, Covered
  <2>3. {y \in instMap'[t] : parent(y) = b} = CopiedOf(BB)
    BY <1>4, <1>7, <1>8, <2>2
  <2> QED
    BY <1>3, <1>6, <2>1, <2>3
<1>9. CASE ~(t = i /\ b = BB)
  <2>1. b \in DOMAIN code[t]
    BY <1>4, <1>9
  <2>2. code'[t][b] = code[t][b]
    BY <1>1, <1>2, <1>9, <2>1 DEF Over
  <2>3. {y \in instMap'[t] : parent(y) = b} = {y \in instMap[t] : parent(y) = b}
    BY <1>4, <1>7, <1>9
  <2>4. Clones(t, b)' = Clones(t, b)
    BY <1>6, <2>3 DEF Clones
  <2> QED
    BY <1>5, <2>1, <2>2, <2>4 DEF IInv, ItemInv
<1> QED
  BY <1>8, <1>9

LEMMA CopyBlockInv ==
  ASSUME IInv, NEW BB \in todo, CopyBlock(BB)
  PROVE  IInv'
<1>1. PhaseInv' /\ CopyInv'
  BY CopySets
<1>2. TargetInv'
  BY CopyTarget
<1>3. ItemInv'
  BY CopyItems
<1>4. phase' = "copy" /\ channels = <<>> /\ channels' = <<>> /\ prog' = prog
  BY CopyStart
<1>5. ChannelInv'
  <2>1. allEdges' = allEdges /\ DOMAIN <<>> = {}
    BY <1>4, ProgramSame
  <2> QED
    BY <1>4, <2>1 DEF IInv, ChannelInv
<1>6. PlaceInv' /\ OperandInv'
  BY <1>4 DEF PlaceInv, OperandInv
<1> QED
  BY <1>1, <1>2, <1>3, <1>5, <1>6 DEF IInv
-----------------------------------------------------------------------------
(* Cleanup, and the whole *)

LEMMA ChannelFacts ==
  ASSUME IInv, NEW d \in DOMAIN channels
  PROVE  channels[d].edge \in Range(allEdges) /\ channels[d].to \in Thread
<1> DEFINE X == [edge : Range(allEdges), to : Thread]
<1>1. channels \in Seq(X)
  BY DEF IInv, ChannelInv
<1>2. channels[d] \in X
  <2> HIDE DEF X
  <2> QED
    BY <1>1
<1> QED
  BY <1>2

LEMMA CleanupInv ==
  ASSUME IInv, Cleanup PROVE IInv'
<1>0. IsProgram(prog)
  BY SplitAssumption DEF IInv, PhaseInv
<1>1. /\ UNCHANGED <<prog, postidom, i, relbb, todo, target, instMap, placeEquivalents, operand, k, vtr, channels>>
      /\ phase = "sync" /\ phase' = "done" /\ k > Len(allEdges)
      /\ code' = [t \in Thread |-> [b \in DOMAIN code[t] |-> PhisFirst(TerminatorLast(code[t][b], b))]]
  BY DEF Cleanup, live
<1>2. /\ Instr' = Instr /\ assigned' = assigned /\ allEdges' = allEdges
      /\ \A t : RelevantBlocks(t)' = RelevantBlocks(t) /\ Own(t)' = Own(t)
      /\ \A b : Terminator(b)' = Terminator(b)
  BY <1>1, ProgramSame
<1>3. /\ DOMAIN code' = Thread /\ \A t \in Thread : DOMAIN code'[t] = DOMAIN code[t]
      /\ \A t \in Thread : \A b \in DOMAIN code[t] : code'[t][b] = PhisFirst(TerminatorLast(code[t][b], b))
  BY <1>1
<1>4. PhaseInv'
  <2>1. k = Len(allEdges) + 1
    <3>1. k \in 1..Len(allEdges) + 1
      BY DEF IInv, PhaseInv
    <3>2. Len(allEdges) \in Nat
      BY <1>0, EdgeFacts
    <3> HIDE DEF allEdges
    <3> QED
      BY <1>1, <3>1, <3>2
  <2> QED
    BY <1>1, <1>2, <1>3, <2>1 DEF IInv, PhaseInv, Building
<1>5. CopyInv'
  <2>1. \A t \in Thread : Covered(t)' = Covered(t)
    BY <1>2, <1>3 DEF Covered, parent
  <2>2. \A t \in Thread : Blocks(t)' = Blocks(t)
    BY <1>1, <1>2 DEF Blocks
  <2> QED
    BY <1>1, <1>2, <1>3, <2>1, <2>2 DEF IInv, CopyInv, parent
<1>6. TargetInv'
  BY <1>1, <1>2, <1>3 DEF IInv, TargetInv
<1>7. ChannelInv'
  <2> SUFFICES ASSUME NEW d \in DOMAIN channels
               PROVE  LET u == channels[d].edge.u IN
                        /\ assigned[u] < channels[d].to
                        /\ parent(u) \in DOMAIN code'[assigned[u]] /\ parent(u) \in DOMAIN code'[channels[d].to]
    BY <1>1, <1>2 DEF IInv, ChannelInv, parent
  <2>1. channels[d].edge \in Range(allEdges) /\ channels[d].to \in Thread
    BY ChannelFacts
  <2>2. assigned[channels[d].edge.u] \in Thread
    BY <1>0, <2>1, EdgeFacts
  <2> QED
    BY <1>3, <2>1, <2>2 DEF IInv, ChannelInv
<1>8. ItemInv'
  <2> SUFFICES ASSUME NEW t \in Thread, NEW b \in DOMAIN code[t]
               PROVE  Lists(code'[t][b], Items(t, b)')
    BY <1>3 DEF ItemInv
  <2>1. Items(t, b)' = Items(t, b)
    BY <1>1, <1>2 DEF Items, Clones, Produces, Consumes, parent
  <2>2. Lists(code[t][b], Items(t, b))
    BY DEF IInv, ItemInv
  <2>3. b \in Block
    BY <1>0, RelevantFacts, <1>1 DEF IInv, CopyInv, Blocks
  <2>4. Terminator(b) \in instMap[t] /\ parent(Terminator(b)) = b
    <3>1. Terminator(b) \in Instr /\ parent(Terminator(b)) = b /\ isTerminator(prog, Terminator(b))
      BY <1>0, <2>3, InstrFacts
    <3>2. Terminator(b) \in Covered(t) /\ Terminator(b) \in Own(t)
      BY <3>1 DEF Covered, Own
    <3> QED
      BY <3>1, <3>2 DEF IInv, CopyInv
  <2>5. Clone(Terminator(b)) \in Items(t, b)
    BY <2>4 DEF Items, Clones
  <2> QED
    BY <1>3, <2>1, <2>2, <2>5, TerminatorLastLists, PhisFirstLists
<1>9. PlaceInv'
  <2>1. (\A j, t : Passed(j, t)' = Passed(j, t)) /\ (\A f, t : Needs(f, t)' = Needs(f, t))
    BY <1>1, SameOperands
  <2> QED
    BY <1>1, <1>2, <1>3, <2>1 DEF IInv, PlaceInv, parent
<1>10. OperandInv'
  <2>1. \A t, u : Users(t, u)' = Users(t, u) /\ Pending(t, u)' = Pending(t, u)
    BY <1>1, SameOperands
  <2> QED
    BY <1>1, <1>2, <2>1 DEF IInv, OperandInv
<1> QED
  BY <1>4, <1>5, <1>6, <1>7, <1>8, <1>9, <1>10 DEF IInv

LEMMA StutterInv ==
  ASSUME IInv, UNCHANGED split PROVE IInv'
<1>1. UNCHANGED <<prog, phase, postidom, i, relbb, todo, code, target, instMap,
                  placeEquivalents, operand, k, vtr, channels>>
  BY DEF split, live
<1>2. /\ Instr' = Instr /\ assigned' = assigned /\ allEdges' = allEdges
      /\ \A t : RelevantBlocks(t)' = RelevantBlocks(t)
  BY <1>1, ProgramSame
<1>3. \A t \in Thread : Blocks(t)' = Blocks(t)
  BY <1>1, <1>2 DEF Blocks
<1>4. CopyInv' /\ TargetInv' /\ ChannelInv' /\ ItemInv'
  BY <1>1, <1>3, SameCopies DEF IInv
<1>5. PhaseInv'
  BY <1>1, <1>2 DEF IInv, PhaseInv, Building
<1>6. /\ \A t, u : Users(t, u)' = Users(t, u) /\ Pending(t, u)' = Pending(t, u)
      /\ (\A j, t : Passed(j, t)' = Passed(j, t)) /\ (\A f, t : Needs(f, t)' = Needs(f, t))
  BY <1>1, SameOperands
<1>7. PlaceInv' /\ OperandInv'
  BY <1>1, <1>2, <1>6 DEF IInv, PlaceInv, OperandInv
<1> QED
  BY <1>4, <1>5, <1>7 DEF IInv

\* Through every step of DSWP::loopSplit, insertSynchronization and cleanup: a worker
\* has the relevant blocks, each with its clones, produces and consumes once, its
\* branches lead to the nearest copied postdominators, every dependence gone through
\* has a place for its consume, and every operand without one a dependence to come.
THEOREM Inductive == Spec => []IInv
<1>1. Init => IInv
  BY InitInv
<1>2. IInv /\ [Next]_split => IInv'
  <2> SUFFICES ASSUME IInv, [Next]_split PROVE IInv'
    OBVIOUS
  <2>1. CASE GetLiveinfo \/ FindRelevant \/ NextThread \/ CannotInsert
    BY <2>1, NotCopying
  <2>2. CASE \E BB \in todo : CopyBlock(BB)
    BY <2>2, CopyBlockInv
  <2>3. CASE InsertChannel
    BY <2>3, InsertInv
  <2>4. CASE SkipThread
    BY <2>4, SkipInv
  <2>5. CASE Cleanup
    BY <2>5, CleanupInv
  <2>6. CASE UNCHANGED split
    BY <2>6, StutterInv
  <2> QED
    BY <2>1, <2>2, <2>3, <2>4, <2>5, <2>6 DEF Next, Split, Ended
<1> QED
  BY <1>1, <1>2, PTL DEF Spec

\* ChannelsBalanced, from what a finished copy of a block lists.
LEMMA BalancedAtEnd == IInv => ChannelsBalanced
<1> SUFFICES ASSUME IInv, NEW c \in DOMAIN channels, NEW t \in Thread, NEW b \in DOMAIN code[t]
             PROVE  /\ Cardinality({n \in DOMAIN code[t][b] : code[t][b][n] = Produce(c)}) =
                         IF t = assigned[channels[c].edge.u] /\ b = parent(channels[c].edge.u) THEN 1 ELSE 0
                    /\ Cardinality({n \in DOMAIN code[t][b] : code[t][b][n] = Consume(c)}) =
                         IF t = channels[c].to /\ b = parent(channels[c].edge.u) THEN 1 ELSE 0
  BY DEF ChannelsBalanced
<1>1. Lists(code[t][b], Items(t, b))
  BY DEF IInv, ItemInv
<1>2. Produce(c) \in Items(t, b) <=> t = assigned[channels[c].edge.u] /\ b = parent(channels[c].edge.u)
  BY ItemsDiffer DEF Items, Clones, Produces, Consumes
<1>3. Consume(c) \in Items(t, b) <=> t = channels[c].to /\ b = parent(channels[c].edge.u)
  BY ItemsDiffer DEF Items, Clones, Produces, Consumes
<1>4. Cardinality({n \in DOMAIN code[t][b] : code[t][b][n] = Produce(c)}) = IF Produce(c) \in Items(t, b) THEN 1 ELSE 0
  BY <1>1, ListsCount
<1>5. Cardinality({n \in DOMAIN code[t][b] : code[t][b][n] = Consume(c)}) = IF Consume(c) \in Items(t, b) THEN 1 ELSE 0
  BY <1>1, ListsCount
<1> QED
  BY <1>2, <1>3, <1>4, <1>5

\* Every channel has one produce and one consume, in the copies of one block, in every
\* program (DSWP_5.cpp:34-36).
THEOREM Balanced == Spec => []ChannelsBalanced
BY Inductive, BalancedAtEnd, PTL

\* At the end no dependence is left, so that no user is.
LEMMA OperandsAtEnd == IInv => OperandsThere
<1> SUFFICES ASSUME IInv, phase = "done", NEW t \in Thread, NEW v \in Executed(t), NEW u \in Registers(v),
                    u \notin instMap[t], <<v, u>> \notin DOMAIN operand[t]
             PROVE  FALSE
  BY DEF OperandsThere
<1>1. IsProgram(prog) /\ k = Len(allEdges) + 1
  BY SplitAssumption DEF IInv, PhaseInv
<1>2. v \in Users(t, u)
  BY DEF Users
<1>3. u \in Instr
  BY <1>1, EdgeFacts DEF Registers
<1>4. Pending(t, u) = {}
  <2>1. Len(allEdges) \in Nat
    BY <1>1, EdgeFacts
  <2>2. \A j \in 1..Len(allEdges) : j < k
    <3> HIDE DEF allEdges
    <3> QED
      BY <1>1, <2>1
  <2> QED
    BY <2>2 DEF Pending, Passed
<1>5. Cardinality(Pending(t, u)) = 0
  BY <1>4, FS_EmptySet
<1>6. Cardinality(Users(t, u)) <= 0
  BY <1>3, <1>5 DEF IInv, OperandInv
<1>7. IsFiniteSet(Users(t, u)) /\ Cardinality(Users(t, u)) \in Nat /\ Cardinality(Users(t, u)) # 0
  BY <1>1, <1>2, PendingFinite, FS_EmptySet
<1> QED
  BY <1>6, <1>7

\* No operand of a worker is left undefined, whichever user each channel redirects
\* (DSWP_5.cpp:142-160), in every program.
THEOREM Operands == Spec => []OperandsThere
BY Inductive, OperandsAtEnd, PTL

\* A branch that decides about a copied block is copied.
LEMMA CopiesDecided ==
  ASSUME IInv, phase = "done", NEW t \in Thread, NEW x \in Block, NEW y \in DOMAIN code[t],
         Decides(EdgesOf(prog.cfg), postidom, x, y)
  PROVE  x \in DOMAIN code[t]
<1>1. IsProgram(prog) /\ k = Len(allEdges) + 1 /\ postidom = Postdominators(EdgesOf(prog.cfg), exit)
  BY SplitAssumption DEF IInv, PhaseInv
<1>2. DOMAIN code[t] = RelevantBlocks(t)
  BY Complete, Numbers
<1>3. assigned[Terminator(x)] <= t
  BY <1>1, <1>2, DecidedRelevant
<1>4. Terminator(x) \in Instr /\ parent(Terminator(x)) = x /\ isTerminator(prog, Terminator(x))
  BY <1>1, InstrFacts
<1>5. CASE assigned[Terminator(x)] = t
  BY <1>1, <1>2, <1>4, <1>5, RelevantFacts
<1>6. CASE assigned[Terminator(x)] # t
  <2> DEFINE q == assigned[Terminator(x)]
             w == Terminator(y)
  <2>1. q \in Thread /\ t > q
    <3>1. q \in Thread
      BY <1>1, <1>4, EdgeFacts
    <3> QED
      BY <1>3, <1>6, <3>1, Numbers
  <2>2. y \in Block
    BY <1>1, <1>2, RelevantFacts
  <2>3. w \in Instr /\ parent(w) = y /\ isTerminator(prog, w)
    BY <1>1, <2>2, InstrFacts
  <2>4. w \in instMap[t]
    BY <2>3 DEF IInv, CopyInv, Covered, Own
  <2>5. PICK f \in Range(allEdges) : f.u = Terminator(x) /\ f.v = w
    BY <1>1, <2>2, <2>3, ControlCovered
  <2>6. PICK j \in 1..Len(allEdges) : allEdges[j] = f
    BY <1>1, EdgeFacts
  <2>7. DOMAIN code[q] = RelevantBlocks(q)
    <3>1. q <= t
      BY <1>3
    <3> QED
      BY <2>1, <3>1, Complete
  <2>8. Terminator(x) \in instMap[q]
    <3>1. x \in RelevantBlocks(q)
      BY <1>1, <1>4, RelevantFacts
    <3> QED
      BY <1>4, <2>1, <2>7, <3>1 DEF IInv, CopyInv, Covered, Own
  <2>9. Needs(allEdges[j], t)
    BY <2>1, <2>4, <2>5, <2>6, <2>8 DEF Needs
  <2>10. Passed(j, t)
    <3>1. Len(allEdges) \in Nat
      BY <1>1, EdgeFacts
    <3>2. j < k
      <4> HIDE DEF allEdges
      <4> QED
        BY <1>1, <3>1
    <3> QED
      BY <3>2 DEF Passed
  <2>11. parent(allEdges[j].u) \in DOMAIN code[t]
    BY <2>9, <2>10 DEF IInv, PlaceInv
  <2> QED
    BY <1>4, <2>5, <2>6, <2>11
<1> QED
  BY <1>5, <1>6

LEMMA PathsAtEnd == IInv => FollowsPath
<1> SUFFICES ASSUME IInv, phase = "done", NEW t \in Thread, NEW b \in DOMAIN code[t], NEW s \in prog.cfg[b]
             PROVE  FirstMet(t, s) = {target[t][Terminator(b)][s]}
  BY DEF FollowsPath
<1> DEFINE E == EdgesOf(prog.cfg)
           V == NodesOf(E, exit)
           C == DOMAIN code[t] \cup {exit}
           y == target[t][Terminator(b)][s]
<1>1. IsProgram(prog) /\ postidom = Postdominators(E, exit)
  BY SplitAssumption DEF IInv, PhaseInv
<1>2. DOMAIN code[t] = RelevantBlocks(t) /\ DOMAIN code[t] \subseteq Block
  <2>1. DOMAIN code[t] = RelevantBlocks(t)
    BY Complete, Numbers
  <2> QED
    BY <1>1, <2>1, RelevantFacts
<1>3. /\ IsFiniteSet(E) /\ E \subseteq Block \X (Block \cup {exit}) /\ exit \notin Block
      /\ AllReach(E, exit) /\ V = Block \cup {exit} /\ predecessor \notin Block /\ predecessor # exit
  BY <1>1, LoopFinite, LoopReaches DEF IsProgram, predecessor
<1>4. s \in V /\ predecessor \notin V /\ exit \in C /\ C \subseteq V /\ \A f \in E : f = <<f[1], f[2]>>
  <2>1. s \in Block \cup {exit}
    BY <1>1, <1>2 DEF IsProgram
  <2> QED
    BY <1>2, <1>3, <2>1
<1>5. IsNearest(postidom, C, s, y)
  <2>1. IsNearest(postidom, RelevantBlocks(t) \cup {predecessor, exit}, s, y)
    BY DEF IInv, TargetInv
  <2>2. postidom[s] \subseteq V
    BY <1>1, <1>4, PdDef
  <2>3. postidom[s] \cap (RelevantBlocks(t) \cup {predecessor, exit}) = postidom[s] \cap C
    BY <1>2, <1>4, <2>2
  <2> QED
    BY <2>1, <2>3 DEF IsNearest
<1>6. ASSUME NEW x \in V \ C, NEW z \in C, Decides(E, postidom, x, z) PROVE FALSE
  <2>1. x \in Block /\ x \notin DOMAIN code[t] /\ x # exit
    BY <1>3, <1>6
  <2>2. CASE z = exit
    <3>1. exit \in postidom[x]
      BY <1>1, <1>3, <2>1, PdSelf
    <3> QED
      BY <1>6, <2>1, <2>2, <3>1 DEF Decides
  <2>3. CASE z \in DOMAIN code[t]
    BY <1>6, <2>1, <2>3, CopiesDecided
  <2> QED
    BY <2>2, <2>3
<1>7. {z \in C : s \in Reaching({f \in E : f[1] \notin C}, z, predecessor)} = {y}
  <2> DEFINE P == postidom
  <2>1. P = Postdominators(E, exit) /\ IsNearest(P, C, s, y)
    BY <1>1, <1>5
  <2>2. \A x \in V \ C : \A z \in C : ~Decides(E, P, x, z)
    BY <1>6
  <2> HIDE DEF E, C, P, y
  <2> QED
    BY <1>3, <1>4, <2>1, <2>2, FirstIsNearest
<1> QED
  BY <1>7 DEF FirstMet

\* Every worker goes through its copies in the order in which the loop goes through the
\* blocks, whichever way it branches (DSWP_4.cpp:315-328), in every program.
THEOREM PathsFollowed == Spec => []FollowsPath
BY Inductive, PathsAtEnd, PTL

-----------------------------------------------------------------------------
(* The order of items in a sequence *)

Precedes(s, x, y) == \E l, m \in 1..Len(s) : l < m /\ s[l] = x /\ s[m] = y

LEMMA PrecedesConcat ==
  ASSUME NEW S, NEW s \in Seq(S), NEW r \in Seq(S)
  PROVE  /\ \A x, y : Precedes(s, x, y) => Precedes(s \o r, x, y)
         /\ \A x, y : Precedes(r, x, y) => Precedes(s \o r, x, y)
         /\ \A l \in 1..Len(s), m \in 1..Len(r) : Precedes(s \o r, s[l], r[m])
<1> DEFINE t == s \o r
<1>1. /\ Len(s) \in Nat /\ Len(r) \in Nat /\ Len(t) = Len(s) + Len(r)
      /\ \A n \in 1..Len(s) + Len(r) : t[n] = IF n <= Len(s) THEN s[n] ELSE r[n - Len(s)]
  BY ConcatProperties
<1> HIDE DEF t
<1>2. \A l \in 1..Len(s) : l \in 1..Len(t) /\ t[l] = s[l]
  BY <1>1
<1>3. ASSUME NEW l \in 1..Len(r)
      PROVE  Len(s) + l \in 1..Len(t) /\ t[Len(s) + l] = r[l]
  <2>1. Len(s) + l \in 1..Len(s) + Len(r) /\ ~(Len(s) + l <= Len(s)) /\ (Len(s) + l) - Len(s) = l
    BY <1>1
  <2> QED
    BY <1>1, <2>1
<1>4. ASSUME NEW x, NEW y, Precedes(s, x, y) PROVE Precedes(t, x, y)
  <2>1. PICK l \in 1..Len(s), m \in 1..Len(s) : l < m /\ s[l] = x /\ s[m] = y
    BY <1>4 DEF Precedes
  <2> QED
    BY <1>2, <2>1 DEF Precedes
<1>5. ASSUME NEW x, NEW y, Precedes(r, x, y) PROVE Precedes(t, x, y)
  <2>1. PICK l \in 1..Len(r), m \in 1..Len(r) : l < m /\ r[l] = x /\ r[m] = y
    BY <1>5 DEF Precedes
  <2>2. Len(s) + l < Len(s) + m
    BY <1>1, <2>1
  <2> QED
    BY <1>3, <2>1, <2>2 DEF Precedes
<1>6. ASSUME NEW l \in 1..Len(s), NEW m \in 1..Len(r) PROVE Precedes(t, s[l], r[m])
  <2>1. l < Len(s) + m
    BY <1>1
  <2> QED
    BY <1>2, <1>3, <2>1 DEF Precedes
<1> QED
  BY <1>4, <1>5, <1>6 DEF t

LEMMA PrecedesSub ==
  ASSUME NEW S, NEW s \in Seq(S), NEW p \in 1..Len(s) + 1, NEW q \in 0..Len(s)
  PROVE  /\ SubSeq(s, p, q) \in Seq(S)
         /\ \A l \in p..q : \E n \in 1..Len(SubSeq(s, p, q)) : SubSeq(s, p, q)[n] = s[l]
         /\ \A l, m \in p..q : l < m => Precedes(SubSeq(s, p, q), s[l], s[m])
<1> DEFINE r == SubSeq(s, p, q)
<1>1. Len(s) \in Nat /\ \A n \in 1..Len(s) : s[n] \in S
  OBVIOUS
<1>2. r = [n \in 1..(1 + q) - p |-> s[(p + n) - 1]]
  BY <1>1
<1> HIDE DEF r
<1>3. CASE q < p
  <2>1. p..q = {} /\ 1..(1 + q) - p = {}
    BY <1>1, <1>3
  <2>2. r \in Seq(S)
    <3>1. r = << >>
      BY <1>2, <2>1
    <3> QED
      BY <3>1
  <2> QED
    BY <2>1, <2>2 DEF r
<1>4. CASE p <= q
  <2>1. (1 + q) - p \in Nat
    BY <1>1, <1>4
  <2>2. r \in [1..(1 + q) - p -> S]
    BY <1>1, <1>2, <1>4
  <2>3. r \in Seq(S) /\ Len(r) = (1 + q) - p
    BY <2>1, <2>2
  <2>4. ASSUME NEW l \in p..q
        PROVE  (l - p) + 1 \in 1..Len(r) /\ r[(l - p) + 1] = s[l]
    <3>1. (l - p) + 1 \in 1..(1 + q) - p /\ (p + ((l - p) + 1)) - 1 = l
      BY <1>1, <1>4
    <3> QED
      BY <1>2, <2>3, <3>1
  <2>5. ASSUME NEW l \in p..q, NEW m \in p..q, l < m PROVE Precedes(r, s[l], s[m])
    <3>1. (l - p) + 1 < (m - p) + 1
      BY <1>1, <2>5
    <3> QED
      BY <2>4, <3>1 DEF Precedes
  <2> QED
    BY <2>3, <2>4, <2>5 DEF r
<1>5. q < p \/ p <= q
  BY <1>1
<1> QED
  BY <1>3, <1>4, <1>5, Zenon

LEMMA PrecedesInsert ==
  ASSUME NEW S, NEW s \in Seq(S), NEW n \in 1..Len(s) + 1, NEW z
  PROVE  /\ \A x, y : Precedes(s, x, y) => Precedes(InsertAt(s, n, z), x, y)
         /\ \A l \in 1..Len(s) : l < n => Precedes(InsertAt(s, n, z), s[l], z)
         /\ \A l \in 1..Len(s) : l >= n => Precedes(InsertAt(s, n, z), z, s[l])
<1> DEFINE A == SubSeq(s, 1, n - 1)
           B == SubSeq(s, n, Len(s))
           U == S \cup {z}
<1>1. Len(s) \in Nat /\ n - 1 \in 0..Len(s) /\ 1 \in 1..Len(s) + 1 /\ Len(s) \in 0..Len(s) /\ s \in Seq(U)
  OBVIOUS
<1>2. InsertAt(s, n, z) = (A \o <<z>>) \o B
  BY DEF InsertAt
<1> HIDE DEF U
<1>3. /\ A \in Seq(U)
      /\ \A l \in 1..n - 1 : \E m \in 1..Len(A) : A[m] = s[l]
      /\ \A l, m \in 1..n - 1 : l < m => Precedes(A, s[l], s[m])
  BY <1>1, PrecedesSub
<1>4. /\ B \in Seq(U)
      /\ \A l \in n..Len(s) : \E m \in 1..Len(B) : B[m] = s[l]
      /\ \A l, m \in n..Len(s) : l < m => Precedes(B, s[l], s[m])
  BY <1>1, PrecedesSub
<1> HIDE DEF A, B
<1>5. <<z>> \in Seq(U) /\ Len(<<z>>) = 1 /\ <<z>>[1] = z
  BY DEF U
<1> DEFINE C == A \o <<z>>
           D == C \o B
<1>6. /\ C \in Seq(U) /\ Len(A) \in Nat /\ Len(C) = Len(A) + 1
      /\ \A m \in 1..Len(A) + 1 : C[m] = IF m <= Len(A) THEN A[m] ELSE <<z>>[m - Len(A)]
  BY <1>3, <1>5, ConcatProperties
<1>7. /\ \A x, y : Precedes(A, x, y) => Precedes(C, x, y)
      /\ \A l \in 1..Len(A), m \in 1..Len(<<z>>) : Precedes(C, A[l], <<z>>[m])
  BY <1>3, <1>5, PrecedesConcat
<1> HIDE DEF C
<1>8. /\ \A x, y : Precedes(C, x, y) => Precedes(D, x, y)
      /\ \A x, y : Precedes(B, x, y) => Precedes(D, x, y)
      /\ \A l \in 1..Len(C), m \in 1..Len(B) : Precedes(D, C[l], B[m])
  BY <1>4, <1>6, PrecedesConcat
<1> HIDE DEF D
<1>9. C[Len(A) + 1] = z /\ Len(A) + 1 \in 1..Len(C)
  <2>1. Len(A) + 1 \in 1..Len(A) + 1 /\ ~(Len(A) + 1 <= Len(A)) /\ (Len(A) + 1) - Len(A) = 1
    BY <1>6
  <2> QED
    BY <1>5, <1>6, <2>1
<1>10. ASSUME NEW l \in 1..n - 1 PROVE \E m \in 1..Len(C) : C[m] = s[l]
  <2>1. PICK m \in 1..Len(A) : A[m] = s[l]
    BY <1>3
  <2>2. m \in 1..Len(C) /\ C[m] = A[m]
    BY <1>6, <2>1
  <2> QED
    BY <2>1, <2>2
<1>11. ASSUME NEW l \in 1..Len(s), l < n PROVE Precedes(D, s[l], z)
  <2>1. l \in 1..n - 1 /\ 1 \in 1..Len(<<z>>)
    BY <1>1, <1>5, <1>11
  <2>2. PICK m \in 1..Len(A) : A[m] = s[l]
    BY <1>3, <2>1
  <2>3. Precedes(C, s[l], z)
    BY <1>5, <1>7, <2>1, <2>2
  <2> QED
    BY <1>8, <2>3
<1>12. ASSUME NEW l \in 1..Len(s), l >= n PROVE Precedes(D, z, s[l])
  <2>1. PICK m \in 1..Len(B) : B[m] = s[l]
    BY <1>1, <1>4, <1>12
  <2> QED
    BY <1>8, <1>9, <2>1
<1>13. ASSUME NEW x, NEW y, Precedes(s, x, y) PROVE Precedes(D, x, y)
  <2>1. PICK l \in 1..Len(s), m \in 1..Len(s) : l < m /\ s[l] = x /\ s[m] = y
    BY <1>13 DEF Precedes
  <2>2. CASE m < n
    <3>1. l \in 1..n - 1 /\ m \in 1..n - 1
      BY <1>1, <2>1, <2>2
    <3> QED
      BY <1>3, <1>7, <1>8, <2>1, <3>1
  <2>3. CASE l >= n
    <3>1. l \in n..Len(s) /\ m \in n..Len(s)
      BY <1>1, <2>1, <2>3
    <3> QED
      BY <1>4, <1>8, <2>1, <3>1
  <2>4. CASE l < n /\ m >= n
    <3>1. l \in 1..n - 1 /\ m \in n..Len(s)
      BY <1>1, <2>1, <2>4
    <3>2. \E p \in 1..Len(C) : C[p] = s[l]
      BY <1>10, <3>1
    <3>3. \E p \in 1..Len(B) : B[p] = s[m]
      BY <1>4, <3>1
    <3> QED
      BY <1>8, <2>1, <3>2, <3>3
  <2> QED
    BY <1>1, <2>1, <2>2, <2>3, <2>4
<1> QED
  BY <1>2, <1>11, <1>12, <1>13 DEF C, D

LEMMA PrecedesAppend ==
  ASSUME NEW S, NEW s \in Seq(S), NEW z \in S
  PROVE  /\ Append(s, z) \in Seq(S) /\ Len(Append(s, z)) = Len(s) + 1 /\ Append(s, z)[Len(s) + 1] = z
         /\ \A n \in 1..Len(s) : Append(s, z)[n] = s[n]
         /\ \A x, y : Precedes(s, x, y) => Precedes(Append(s, z), x, y)
         /\ \A n \in 1..Len(s) : Precedes(Append(s, z), s[n], z)
<1> DEFINE t == Append(s, z)
<1>1. Len(s) \in Nat /\ t \in Seq(S) /\ Len(t) = Len(s) + 1 /\ t[Len(s) + 1] = z
      /\ \A n \in 1..Len(s) : t[n] = s[n]
  OBVIOUS
<1> HIDE DEF t
<1>2. \A n \in 1..Len(s) : n \in 1..Len(t) /\ n < Len(s) + 1
  BY <1>1
<1>3. Len(s) + 1 \in 1..Len(t)
  BY <1>1
<1>4. \A n \in 1..Len(s) : Precedes(t, s[n], z)
  BY <1>1, <1>2, <1>3 DEF Precedes
<1>5. ASSUME NEW x, NEW y, Precedes(s, x, y) PROVE Precedes(t, x, y)
  BY <1>1, <1>2, <1>5 DEF Precedes
<1> QED
  BY <1>1, <1>4, <1>5 DEF t

LEMMA KeepIs ==
  ASSUME NEW s, Len(s) \in Nat, NEW T
  PROVE  \E f : Keeps(s, T, Len(s), f) /\ Keep(s, T) = f[Len(s)]
<1> DEFINE N == Len(s)
           g == CHOOSE g : g = [m \in 0..Len(s) |-> IF m = 0 THEN <<>>
                                    ELSE IF s[m] \in T THEN Append(g[m - 1], s[m]) ELSE g[m - 1]]
<1>1. \E f : Keeps(s, T, N, f)
  <2>1. N \in Nat
    OBVIOUS
  <2> HIDE DEF N
  <2> QED
    BY <2>1, KeptExists
<1>2. \E f : f = [m \in 0..N |-> IF m = 0 THEN <<>>
                        ELSE IF s[m] \in T THEN Append(f[m - 1], s[m]) ELSE f[m - 1]]
  BY <1>1 DEF Keeps
<1>3. g = [m \in 0..N |-> IF m = 0 THEN <<>>
                        ELSE IF s[m] \in T THEN Append(g[m - 1], s[m]) ELSE g[m - 1]]
  BY <1>2, Zenon
<1>4. Keep(s, T) = g[N]
  BY DEF Keep
<1> HIDE DEF g, N
<1>5. Keeps(s, T, N, g)
  BY <1>3 DEF Keeps
<1> QED
  BY <1>4, <1>5 DEF N

LEMMA KeepPrecedes ==
  ASSUME NEW S, NEW s \in Seq(S), NEW T
  PROVE  /\ Keep(s, T) \in Seq(S \cap T)
         /\ \A n \in 1..Len(s) : s[n] \in T => \E m \in 1..Len(Keep(s, T)) : Keep(s, T)[m] = s[n]
         /\ \A x, y : Precedes(s, x, y) /\ x \in T /\ y \in T => Precedes(Keep(s, T), x, y)
<1> DEFINE N == Len(s)
           U == S \cap T
           Good(r, m) ==
             /\ r \in Seq(U)
             /\ \A n \in 1..m : s[n] \in T => \E p \in 1..Len(r) : r[p] = s[n]
             /\ \A l, n \in 1..m : l < n /\ s[l] \in T /\ s[n] \in T => Precedes(r, s[l], s[n])
<1>1. N \in Nat /\ \A n \in 1..N : s[n] \in S
  OBVIOUS
<1>2. PICK f : Keeps(s, T, N, f) /\ Keep(s, T) = f[N]
  BY <1>1, KeepIs
<1>3. f = [m \in 0..N |-> IF m = 0 THEN <<>>
                          ELSE IF s[m] \in T THEN Append(f[m - 1], s[m]) ELSE f[m - 1]]
  BY <1>2 DEF Keeps
<1> DEFINE W == {m \in Nat : m <= N => Good(f[m], m)}
<1>4. 0 \in W
  <2>1. f[0] = <<>>
    BY <1>1, <1>3
  <2>2. <<>> \in Seq(U) /\ 1..0 = {}
    OBVIOUS
  <2>3. Good(<<>>, 0)
    BY <2>2
  <2> QED
    BY <2>1, <2>3
<1>5. ASSUME NEW m \in Nat, m \in W PROVE m + 1 \in W
  <2> SUFFICES ASSUME m + 1 <= N PROVE Good(f[m + 1], m + 1)
    OBVIOUS
  <2>1. /\ m + 1 \in 0..N /\ m + 1 # 0 /\ (m + 1) - 1 = m /\ m <= N
        /\ m + 1 \in 1..N /\ 1..m + 1 = (1..m) \cup {m + 1}
        /\ \A l \in 1..m : ~(m + 1 < l) /\ l # m + 1
    BY <1>1
  <2>2. f[m + 1] = IF s[m + 1] \in T THEN Append(f[m], s[m + 1]) ELSE f[m]
    BY <1>3, <2>1
  <2>3. Good(f[m], m)
    BY <1>5, <2>1
  <2>4. CASE s[m + 1] \in T
    <3> DEFINE r == f[m]
               q == Append(r, s[m + 1])
    <3>1. s[m + 1] \in U /\ r \in Seq(U)
      BY <1>1, <2>1, <2>3, <2>4
    <3>2. /\ q \in Seq(U) /\ Len(q) = Len(r) + 1 /\ q[Len(r) + 1] = s[m + 1] /\ Len(r) \in Nat
          /\ \A n \in 1..Len(r) : q[n] = r[n]
          /\ \A x, y : Precedes(r, x, y) => Precedes(q, x, y)
          /\ \A n \in 1..Len(r) : Precedes(q, r[n], s[m + 1])
      BY <3>1, PrecedesAppend
    <3>3. Len(r) + 1 \in 1..Len(q) /\ \A n \in 1..Len(r) : n \in 1..Len(q)
      BY <3>2
    <3> HIDE DEF q, U
    <3>4. \A n \in 1..m : s[n] \in T => \E p \in 1..Len(r) : r[p] = s[n]
      BY <2>3
    <3>5. \A l, n \in 1..m : l < n /\ s[l] \in T /\ s[n] \in T => Precedes(r, s[l], s[n])
      BY <2>3
    <3> HIDE DEF r
    <3>6. \A n \in 1..m + 1 : s[n] \in T => \E p \in 1..Len(q) : q[p] = s[n]
      BY <2>1, <3>2, <3>3, <3>4
    <3>7. \A l, n \in 1..m + 1 : l < n /\ s[l] \in T /\ s[n] \in T => Precedes(q, s[l], s[n])
      <4> TAKE l, n \in 1..m + 1
      <4> HAVE l < n /\ s[l] \in T /\ s[n] \in T
      <4>1. l \in 1..m
        BY <1>1, <2>1
      <4>2. CASE n \in 1..m
        BY <3>2, <3>5, <4>1, <4>2
      <4>3. CASE n = m + 1
        BY <3>2, <3>4, <4>1, <4>3
      <4> QED
        BY <2>1, <4>2, <4>3
    <3>8. Good(q, m + 1)
      BY <3>2, <3>6, <3>7
    <3> QED
      BY <2>2, <2>4, <3>8 DEF q, r
  <2>5. CASE s[m + 1] \notin T
    <3>1. Good(f[m], m + 1)
      BY <2>1, <2>3, <2>5
    <3> QED
      BY <2>2, <2>5, <3>1
  <2> QED
    BY <2>4, <2>5
<1>6. Nat \subseteq W
  <2> HIDE DEF W
  <2> QED
    BY <1>4, <1>5, SetInduction
<1>7. Good(f[N], N)
  <2>1. N \in W
    <3> HIDE DEF N, W
    <3> QED
      BY <1>1, <1>6
  <2> HIDE DEF Good, N
  <2> QED
    BY <1>1, <2>1
<1>8. Good(Keep(s, T), N)
  BY <1>2, <1>7
<1> QED
  BY <1>8 DEF Precedes

LEMMA PrecedesTwice ==
  ASSUME NEW s, NEW S, Lists(s, S), NEW x, NEW y
  PROVE  /\ \A z : Precedes(s, x, y) /\ Precedes(s, y, z) => Precedes(s, x, z)
         /\ ~(Precedes(s, x, y) /\ Precedes(s, y, x))
         /\ Precedes(s, x, y) => x \in S /\ y \in S /\ x # y
<1>1. Len(s) \in Nat /\ \A n \in 1..Len(s) : s[n] \in S
  BY DEF Lists
<1>2. \A n, m \in 1..Len(s) : s[n] = s[m] => n = m
  BY DEF Lists
<1>3. ASSUME NEW z, Precedes(s, x, y), Precedes(s, y, z) PROVE Precedes(s, x, z)
  <2>1. PICK l \in 1..Len(s), m \in 1..Len(s) : l < m /\ s[l] = x /\ s[m] = y
    BY <1>3 DEF Precedes
  <2>2. PICK n \in 1..Len(s), p \in 1..Len(s) : n < p /\ s[n] = y /\ s[p] = z
    BY <1>3 DEF Precedes
  <2>3. n = m
    BY <1>2, <2>1, <2>2
  <2>4. l < p
    BY <1>1, <2>1, <2>2, <2>3
  <2> QED
    BY <2>1, <2>2, <2>4 DEF Precedes
<1>4. ASSUME Precedes(s, x, y)
      PROVE  ~Precedes(s, y, x) /\ x \in S /\ y \in S /\ x # y
  <2>1. PICK l \in 1..Len(s), m \in 1..Len(s) : l < m /\ s[l] = x /\ s[m] = y
    BY <1>4 DEF Precedes
  <2>2. ASSUME Precedes(s, y, x) PROVE FALSE
    <3>1. PICK n \in 1..Len(s), p \in 1..Len(s) : n < p /\ s[n] = y /\ s[p] = x
      BY <2>2 DEF Precedes
    <3>2. n = m /\ p = l
      BY <1>2, <2>1, <3>1
    <3> QED
      BY <1>1, <2>1, <3>1, <3>2
  <2>3. l # m
    BY <1>1, <2>1
  <2> QED
    BY <1>1, <1>2, <2>1, <2>2, <2>3
<1> QED
  BY <1>3, <1>4

LEMMA TerminatorLastPrecedes ==
  ASSUME NEW items, NEW S, Lists(items, S), NEW b, Clone(Terminator(b)) \in S
  PROVE  /\ \A x, y : Precedes(items, x, y) /\ (y = Clone(Terminator(b)) \/ Precedes(items, x, Clone(Terminator(b))))
                        => Precedes(TerminatorLast(items, b), x, y)
         /\ \A x \in S : x # Clone(Terminator(b)) => Precedes(TerminatorLast(items, b), x, Clone(Terminator(b)))
<1> DEFINE n == IndexOf(items, Terminator(b))
           A == SubSeq(items, 1, n - 1)
           C == SubSeq(items, n + 1, Len(items))
           B == Reverse(C)
           T == Clone(Terminator(b))
           z == items[n]
           p1 == n + 1
<1>1. n \in 1..Len(items) /\ z = T /\ T \in S
  BY IndexFacts
<1>2. TerminatorLast(items, b) = (A \o B) \o <<z>>
  BY DEF TerminatorLast
<1> HIDE DEF n, T
<1>3. /\ items \in Seq(S) /\ Len(items) \in Nat
      /\ \A l, m \in 1..Len(items) : items[l] = items[m] => l = m
      /\ \A x \in S : \E l \in 1..Len(items) : items[l] = x
  BY DEF Lists
<1>4. /\ n - 1 \in 0..Len(items) /\ 1 \in 1..Len(items) + 1 /\ n + 1 \in 1..Len(items) + 1
      /\ Len(items) \in 0..Len(items)
  BY <1>1, <1>3
<1>5. /\ A \in Seq(S)
      /\ \A l \in 1..n - 1 : \E m \in 1..Len(A) : A[m] = items[l]
      /\ \A l, m \in 1..n - 1 : l < m => Precedes(A, items[l], items[m])
  BY <1>3, <1>4, PrecedesSub
<1>6. /\ C \in Seq(S)
      /\ \A l \in n + 1..Len(items) : \E m \in 1..Len(C) : C[m] = items[l]
  <2>1. p1 \in 1..Len(items) + 1 /\ C = SubSeq(items, p1, Len(items)) /\ p1 = n + 1
    BY <1>4
  <2> HIDE DEF p1, C
  <2>2. /\ SubSeq(items, p1, Len(items)) \in Seq(S)
        /\ \A l \in p1..Len(items) : \E m \in 1..Len(SubSeq(items, p1, Len(items))) :
             SubSeq(items, p1, Len(items))[m] = items[l]
    BY <1>3, <1>4, <2>1, PrecedesSub
  <2> QED
    BY <2>1, <2>2
<1> HIDE DEF A, C
<1>7. /\ B \in Seq(S)
      /\ \A l \in n + 1..Len(items) : \E m \in 1..Len(B) : B[m] = items[l]
  <2>1. B = [m \in 1..Len(C) |-> C[(Len(C) - m) + 1]]
    BY DEF Reverse
  <2>2. Len(C) \in Nat /\ \A m \in 1..Len(C) : C[m] \in S /\ (Len(C) - m) + 1 \in 1..Len(C)
                                              /\ (Len(C) - ((Len(C) - m) + 1)) + 1 = m
    BY <1>6
  <2> HIDE DEF B
  <2>3. B \in [1..Len(C) -> S]
    BY <2>1, <2>2
  <2>4. B \in Seq(S) /\ Len(B) = Len(C)
    BY <2>2, <2>3
  <2>5. \A m \in 1..Len(C) : \E p \in 1..Len(B) : B[p] = C[m]
    <3> TAKE m \in 1..Len(C)
    <3>1. B[(Len(C) - m) + 1] = C[m]
      BY <2>1, <2>2
    <3> QED
      BY <2>2, <2>4, <3>1
  <2> QED
    BY <1>6, <2>4, <2>5
<1> HIDE DEF B
<1>8. <<z>> \in Seq(S) /\ Len(<<z>>) = 1 /\ <<z>>[1] = z
  BY <1>1, <1>3
<1> DEFINE D == A \o B
           R == D \o <<z>>
<1>9. /\ \A x, y : Precedes(A, x, y) => Precedes(D, x, y)
      /\ \A l \in 1..Len(A), m \in 1..Len(B) : Precedes(D, A[l], B[m])
  BY <1>5, <1>7, PrecedesConcat
<1>10. /\ D \in Seq(S) /\ Len(D) = Len(A) + Len(B) /\ Len(A) \in Nat /\ Len(B) \in Nat
       /\ \A m \in 1..Len(A) + Len(B) : D[m] = IF m <= Len(A) THEN A[m] ELSE B[m - Len(A)]
  BY <1>5, <1>7, ConcatProperties
<1> HIDE DEF D
<1>11. /\ \A x, y : Precedes(D, x, y) => Precedes(R, x, y)
       /\ \A l \in 1..Len(D), m \in 1..Len(<<z>>) : Precedes(R, D[l], <<z>>[m])
  BY <1>8, <1>10, PrecedesConcat
<1> HIDE DEF R
<1>12. \A l \in 1..n - 1 : \E m \in 1..Len(D) : D[m] = items[l]
  <2> TAKE l \in 1..n - 1
  <2>1. PICK m \in 1..Len(A) : A[m] = items[l]
    BY <1>5
  <2>2. m \in 1..Len(A) + Len(B) /\ m <= Len(A)
    BY <1>10
  <2> QED
    BY <1>10, <2>1, <2>2
<1>13. \A l \in n + 1..Len(items) : \E m \in 1..Len(D) : D[m] = items[l]
  <2> TAKE l \in n + 1..Len(items)
  <2>1. PICK m \in 1..Len(B) : B[m] = items[l]
    BY <1>7
  <2>2. Len(A) + m \in 1..Len(A) + Len(B) /\ ~(Len(A) + m <= Len(A)) /\ (Len(A) + m) - Len(A) = m
    BY <1>10
  <2> QED
    BY <1>10, <2>1, <2>2
<1>14. \A l \in 1..Len(items) : l # n => Precedes(R, items[l], z)
  <2> TAKE l \in 1..Len(items)
  <2> HAVE l # n
  <2>1. l \in 1..n - 1 \/ l \in n + 1..Len(items)
    BY <1>1, <1>3
  <2>2. PICK m \in 1..Len(D) : D[m] = items[l]
    BY <1>12, <1>13, <2>1
  <2>3. 1 \in 1..Len(<<z>>)
    BY <1>8
  <2> QED
    BY <1>8, <1>11, <2>2, <2>3
<1>15. ASSUME NEW x \in S, x # T PROVE Precedes(R, x, T)
  BY <1>1, <1>3, <1>14, <1>15
<1>16. ASSUME NEW x, NEW y, Precedes(items, x, y), y = T \/ Precedes(items, x, T)
       PROVE  Precedes(R, x, y)
  <2>1. PICK l \in 1..Len(items), m \in 1..Len(items) : l < m /\ items[l] = x /\ items[m] = y
    BY <1>16 DEF Precedes
  <2>2. l < n
    <3>1. CASE y = T
      BY <1>1, <1>3, <2>1, <3>1
    <3>2. CASE Precedes(items, x, T)
      <4>1. PICK p \in 1..Len(items), q \in 1..Len(items) : p < q /\ items[p] = x /\ items[q] = T
        BY <3>2 DEF Precedes
      <4>2. p = l /\ q = n
        BY <1>1, <1>3, <2>1, <4>1
      <4> QED
        BY <4>1, <4>2
    <3> QED
      BY <1>16, <3>1, <3>2
  <2>3. l \in 1..n - 1
    BY <1>1, <1>3, <2>2
  <2>4. CASE m < n
    <3>1. m \in 1..n - 1
      BY <1>1, <1>3, <2>4
    <3> QED
      BY <1>5, <1>9, <1>11, <2>1, <2>3, <3>1
  <2>5. CASE m = n
    <3>0. y = items[n]
      BY <2>1, <2>5
    <3>1. y = z /\ l # n
      BY <1>1, <1>3, <2>2, <3>0
    <3>2. Precedes(R, items[l], z)
      BY <1>14, <3>1
    <3> QED
      BY <2>1, <3>1, <3>2
  <2>6. CASE m > n
    <3>1. m \in n + 1..Len(items)
      BY <1>1, <1>3, <2>6
    <3>2. \E p \in 1..Len(B) : B[p] = items[m]
      BY <1>7, <3>1
    <3>3. \E p \in 1..Len(A) : A[p] = items[l]
      BY <1>5, <2>3
    <3> QED
      BY <1>9, <1>11, <2>1, <3>2, <3>3
  <2> QED
    BY <1>1, <1>3, <2>4, <2>5, <2>6
<1> QED
  BY <1>2, <1>15, <1>16 DEF R, D, T

LEMMA PhisFirstPrecedes ==
  ASSUME NEW items, NEW S, Lists(items, S)
  PROVE  /\ \A x, y : Precedes(items, x, y) /\ (x \in Phis \/ y \notin Phis) => Precedes(PhisFirst(items), x, y)
         /\ \A x \in S \cap Phis, y \in S \ Phis : Precedes(PhisFirst(items), x, y)
<1> DEFINE U == Range(items) \ Phis
           A == Keep(items, Phis)
           B == Keep(items, U)
           R == A \o B
<1>1. /\ items \in Seq(S) /\ Range(items) = S
      /\ \A x \in S : \E l \in 1..Len(items) : items[l] = x
  BY ListsRange DEF Lists
<1>2. /\ A \in Seq(S \cap Phis)
      /\ \A n \in 1..Len(items) : items[n] \in Phis => \E m \in 1..Len(A) : A[m] = items[n]
      /\ \A x, y : Precedes(items, x, y) /\ x \in Phis /\ y \in Phis => Precedes(A, x, y)
  <2>1. items \in Seq(S)
    BY <1>1
  <2> HIDE DEF U
  <2> QED
    BY <2>1, KeepPrecedes
<1>3. /\ B \in Seq(S \cap U)
      /\ \A n \in 1..Len(items) : items[n] \in U => \E m \in 1..Len(B) : B[m] = items[n]
      /\ \A x, y : Precedes(items, x, y) /\ x \in U /\ y \in U => Precedes(B, x, y)
  <2>1. items \in Seq(S)
    BY <1>1
  <2> HIDE DEF U
  <2> QED
    BY <2>1, KeepPrecedes
<1> HIDE DEF A, B
<1>4. A \in Seq(S) /\ B \in Seq(S)
  BY <1>2, <1>3
<1>5. /\ \A x, y : Precedes(A, x, y) => Precedes(R, x, y)
      /\ \A x, y : Precedes(B, x, y) => Precedes(R, x, y)
      /\ \A l \in 1..Len(A), m \in 1..Len(B) : Precedes(R, A[l], B[m])
  BY <1>4, PrecedesConcat
<1> HIDE DEF R
<1>6. ASSUME NEW x \in S \cap Phis, NEW y \in S \ Phis PROVE Precedes(R, x, y)
  <2>1. \E m \in 1..Len(A) : A[m] = x
    BY <1>1, <1>2
  <2>2. \E m \in 1..Len(B) : B[m] = y
    BY <1>1, <1>3
  <2> QED
    BY <1>5, <2>1, <2>2
<1>7. ASSUME NEW x, NEW y, Precedes(items, x, y), x \in Phis \/ y \notin Phis PROVE Precedes(R, x, y)
  <2>1. x \in S /\ y \in S
    BY <1>7, PrecedesTwice
  <2>2. CASE x \in Phis /\ y \in Phis
    BY <1>2, <1>5, <1>7, <2>2
  <2>3. CASE x \in Phis /\ y \notin Phis
    BY <1>6, <2>1, <2>3
  <2>4. CASE x \notin Phis /\ y \notin Phis
    BY <1>1, <1>3, <1>5, <1>7, <2>1, <2>4
  <2> QED
    BY <1>7, <2>2, <2>3, <2>4
<1>8. PhisFirst(items) = R
  BY DEF PhisFirst, A, B, R
<1> QED
  BY <1>6, <1>7, <1>8

-----------------------------------------------------------------------------
(* The order of the items in a copy of a block *)

\* Where a consume goes is the next clone.
PlaceNext ==
  \A t \in Thread : \A x \in DOMAIN placeEquivalents[t] : \A v \in instMap[t] :
    parent(v) = parent(x) /\ v[2] > x[2] => v[2] >= placeEquivalents[t][x][2]

Finished == phase = "done"

\* Clones are in the order of the loop; a value is computed before it is sent, and
\* received before the instructions that come after it in the loop.
KeptInv ==
  \A t \in Thread : \A b \in DOMAIN code[t] : \A x, y \in instMap[t] :
    parent(x) = b /\ parent(y) = b /\ x[2] < y[2] => Precedes(code[t][b], Clone(x), Clone(y))

SentInv ==
  \A c \in DOMAIN channels :
    LET u == channels[c].edge.u IN
      ~(Finished /\ isTerminator(prog, u)) =>
        Precedes(code[assigned[u]][parent(u)], Clone(u), Produce(c))

GotInv ==
  \A c \in DOMAIN channels :
    LET u == channels[c].edge.u
        t == channels[c].to IN
      \A v \in instMap[t] :
        parent(v) = parent(u) /\ u[2] < v[2] /\ ~(Finished /\ v \in DOMAIN prog.phi) =>
          Precedes(code[t][parent(u)], Consume(c), Clone(v))

\* In the end the phi nodes are first and the terminator is last.
EndsInv ==
  Finished =>
    \A t \in Thread : \A b \in DOMAIN code[t] : \A x \in Items(t, b) :
      /\ x # Clone(Terminator(b)) => Precedes(code[t][b], x, Clone(Terminator(b)))
      /\ x \in Phis => \A y \in Items(t, b) \ Phis : Precedes(code[t][b], x, y)

OrderInv == PlaceNext /\ KeptInv /\ SentInv /\ GotInv /\ EndsInv

LEMMA OrderInit == Init => OrderInv
<1> SUFFICES ASSUME Init PROVE OrderInv
  OBVIOUS
<1>1. /\ channels = <<>> /\ phase = "live"
      /\ code = [t \in Thread |-> <<>>] /\ placeEquivalents = [t \in Thread |-> <<>>]
  BY DEF Init
<1>2. DOMAIN channels = {} /\ \A t \in Thread : DOMAIN code[t] = {} /\ DOMAIN placeEquivalents[t] = {}
  BY <1>1
<1> QED
  BY <1>1, <1>2 DEF OrderInv, PlaceNext, KeptInv, SentInv, GotInv, EndsInv, Finished

\* Steps that change no copy.
LEMMA OrderSame ==
  ASSUME OrderInv, UNCHANGED <<prog, code, instMap, placeEquivalents, channels>>,
         phase' = phase \/ "done" \notin {phase, phase'}
  PROVE  OrderInv'
<1>1. Instr' = Instr /\ assigned' = assigned /\ \A b : Terminator(b)' = Terminator(b)
  BY ProgramSame
<1>2. Finished' = Finished
  BY DEF Finished
<1>3. \A t, b : Items(t, b)' = Items(t, b)
  BY <1>1 DEF Items, Clones, Produces, Consumes, parent
<1>4. Phis' = Phis
  BY DEF Phis
<1>5. PlaceNext' /\ KeptInv'
  BY <1>1 DEF OrderInv, PlaceNext, KeptInv, parent
<1>6. SentInv'
  BY <1>1, <1>2 DEF OrderInv, SentInv, parent, isTerminator
<1>7. GotInv'
  BY <1>1, <1>2 DEF OrderInv, GotInv, parent
<1>8. EndsInv'
  BY <1>1, <1>2, <1>3, <1>4 DEF OrderInv, EndsInv
<1> QED
  BY <1>5, <1>6, <1>7, <1>8 DEF OrderInv

\* An own instruction in a copied block has a clone.
LEMMA CloneThere ==
  ASSUME IInv, NEW t \in Thread
  PROVE  /\ \A x \in instMap[t] : x \in Instr /\ parent(x) \in DOMAIN code[t] /\ (assigned[x] = t \/ isTerminator(prog, x))
         /\ \A x \in Instr : parent(x) \in DOMAIN code[t] /\ (assigned[x] = t \/ isTerminator(prog, x)) => x \in instMap[t]
         /\ \A b \in DOMAIN code[t] : /\ b \in Block /\ Terminator(b) \in instMap[t] /\ parent(Terminator(b)) = b
                                      /\ Clone(Terminator(b)) \in Items(t, b)
         /\ \A x \in instMap[t] : Clone(x) \in Items(t, parent(x))
<1>0. IsProgram(prog)
  BY SplitAssumption DEF IInv, PhaseInv
<1>1. instMap[t] = Covered(t) \cap Own(t) /\ DOMAIN code[t] = Blocks(t)
  BY DEF IInv, CopyInv
<1>2. DOMAIN code[t] \subseteq Block
  <2>1. phase = "copy" => relbb = RelevantBlocks(i)
    BY DEF IInv, PhaseInv
  <2> QED
    BY <1>0, <1>1, <2>1, RelevantFacts DEF Blocks
<1>3. \A x \in instMap[t] : x \in Instr /\ parent(x) \in DOMAIN code[t] /\ (assigned[x] = t \/ isTerminator(prog, x))
  BY <1>1 DEF Covered, Own
<1>4. \A x \in Instr : parent(x) \in DOMAIN code[t] /\ (assigned[x] = t \/ isTerminator(prog, x)) => x \in instMap[t]
  BY <1>1 DEF Covered, Own
<1>5. \A x \in instMap[t] : Clone(x) \in Items(t, parent(x))
  BY DEF Items, Clones
<1>6. ASSUME NEW b \in DOMAIN code[t]
      PROVE  b \in Block /\ Terminator(b) \in instMap[t] /\ parent(Terminator(b)) = b
  <2>1. b \in Block
    BY <1>2
  <2> QED
    BY <1>0, <1>4, <2>1, InstrFacts
<1> QED
  BY <1>3, <1>4, <1>5, <1>6

LEMMA ClonesPrecede ==
  ASSUME IsProgram(prog), NEW b \in Block, NEW x \in CopiedOf(b), NEW y \in CopiedOf(b), x[2] < y[2]
  PROVE  Precedes([n \in 1..Len(Cloned(b)) |-> Clone(Cloned(b)[n])], Clone(x), Clone(y))
<1> DEFINE S == InstrOf(b)
           T == {z \in Range(Body(b)) : Copied(z)}
           r == [n \in 1..Len(Cloned(b)) |-> Clone(Cloned(b)[n])]
<1>1. x \in S /\ y \in S /\ Copied(x) /\ Copied(y)
  BY DEF CopiedOf
<1>2. Range(Body(b)) = S /\ Lists(Body(b), S) /\ Lists(Cloned(b), CopiedOf(b))
  BY ClonedLists, BodyLists DEF InstrOf
<1>3. Body(b) \in Seq(S) /\ Len(Cloned(b)) \in Nat
  BY <1>2 DEF Lists
<1>4. Precedes(Body(b), x, y)
  <2>1. /\ x[2] \in 1..prog.size[b] /\ y[2] \in 1..prog.size[b] /\ x = <<b, x[2]>> /\ y = <<b, y[2]>>
        /\ prog.size[b] \in Nat
    BY <1>1, InstrFacts DEF InstrOf, parent
  <2>2. Body(b) = [n \in 1..prog.size[b] |-> <<b, n>>]
    BY DEF Body
  <2>3. Len(Body(b)) = prog.size[b]
    BY <2>1, <2>2
  <2>4. Body(b)[x[2]] = x /\ Body(b)[y[2]] = y
    BY <2>1, <2>2
  <2> QED
    BY <2>1, <2>3, <2>4 DEF Precedes
<1>5. x \in T /\ y \in T
  BY <1>1, <1>2
<1>6. Precedes(Cloned(b), x, y)
  <2>1. Cloned(b) = Keep(Body(b), T)
    BY DEF Cloned
  <2> HIDE DEF T, S
  <2> QED
    BY <1>3, <1>4, <1>5, <2>1, KeepPrecedes
<1>7. Len(r) = Len(Cloned(b)) /\ \A n \in 1..Len(Cloned(b)) : r[n] = Clone(Cloned(b)[n])
  <2>1. DOMAIN r = 1..Len(Cloned(b))
    OBVIOUS
  <2>2. r \in Seq({r[n] : n \in 1..Len(Cloned(b))})
    BY <1>3
  <2> QED
    BY <1>3, <2>1, <2>2
<1> HIDE DEF r
<1> QED
  BY <1>6, <1>7 DEF Precedes, r

LEMMA OrderCopy ==
  ASSUME IInv, OrderInv, NEW BB \in todo, CopyBlock(BB)
  PROVE  OrderInv'
<1> DEFINE new == [n \in 1..Len(Cloned(BB)) |-> Clone(Cloned(BB)[n])]
           items == [b \in {BB} |-> new]
           next == [x \in InstrOf(BB) \ CopiedOf(BB) |-> NextClone(x)]
<1>1. /\ IsProgram(prog) /\ BB \in Block /\ i \in Thread /\ channels' = <<>> /\ phase' = "copy"
      /\ BB \notin DOMAIN code[i] /\ code' = [code EXCEPT ![i] = Over(items, @)] /\ DOMAIN code = Thread
      /\ placeEquivalents' = [placeEquivalents EXCEPT ![i] = Over(next, @)]
      /\ DOMAIN placeEquivalents = Thread
  BY CopyStart DEF IInv, PhaseInv
<1>2. DOMAIN items = {BB} /\ items[BB] = new /\ DOMAIN next = InstrOf(BB) \ CopiedOf(BB)
      /\ \A x \in InstrOf(BB) \ CopiedOf(BB) : next[x] = NextClone(x)
  OBVIOUS
<1> HIDE DEF items, next
<1>3. /\ \A t \in Thread : DOMAIN code'[t] = DOMAIN code[t] \cup (IF t = i THEN {BB} ELSE {})
      /\ \A t \in Thread : instMap'[t] = instMap[t] \cup (IF t = i THEN CopiedOf(BB) ELSE {})
  BY CopySets
<1>4. \A x \in CopiedOf(BB) : parent(x) = BB
  BY DEF CopiedOf, InstrOf
<1>5. /\ \A t \in Thread : \A x \in instMap[t] : parent(x) \in DOMAIN code[t]
      /\ \A t \in Thread : \A x \in DOMAIN placeEquivalents[t] : parent(x) \in DOMAIN code[t]
  BY DEF IInv, CopyInv, Covered
<1>6. \A x \in instMap[i] : parent(x) # BB
  BY <1>1, <1>5
<1>7. PlaceNext'
  <2> SUFFICES ASSUME NEW t \in Thread, NEW x \in DOMAIN placeEquivalents'[t], NEW v \in instMap'[t],
                      parent(v) = parent(x), v[2] > x[2]
               PROVE  v[2] >= placeEquivalents'[t][x][2]
    BY DEF PlaceNext, parent
  <2>1. CASE t # i
    BY <1>1, <1>3, <2>1 DEF OrderInv, PlaceNext
  <2>2. CASE t = i /\ x \in InstrOf(BB) \ CopiedOf(BB)
    <3>1. parent(x) = BB
      BY <2>2 DEF InstrOf
    <3>2. v \in CopiedOf(BB)
      BY <1>3, <1>6, <2>2, <3>1
    <3>3. placeEquivalents'[t][x] = NextClone(x)
      BY <1>1, <1>2, <2>2 DEF Over
    <3> QED
      BY <1>1, <2>2, <3>2, <3>3, NextCloneFacts
  <2>3. CASE t = i /\ x \notin InstrOf(BB) \ CopiedOf(BB)
    <3>1. x \in DOMAIN placeEquivalents[t] /\ placeEquivalents'[t][x] = placeEquivalents[t][x]
      BY <1>1, <1>2, <2>3 DEF Over
    <3>2. parent(x) # BB
      BY <1>1, <1>5, <2>3, <3>1
    <3>3. v \in instMap[t]
      BY <1>3, <1>4, <3>2
    <3> QED
      BY <3>1, <3>3 DEF OrderInv, PlaceNext
  <2> QED
    BY <2>1, <2>2, <2>3
<1>8. KeptInv'
  <2> SUFFICES ASSUME NEW t \in Thread, NEW b \in DOMAIN code'[t], NEW x \in instMap'[t], NEW y \in instMap'[t],
                      parent(x) = b, parent(y) = b, x[2] < y[2]
               PROVE  Precedes(code'[t][b], Clone(x), Clone(y))
    BY DEF KeptInv, parent
  <2>1. CASE t = i /\ b = BB
    <3>1. code'[t][b] = new
      BY <1>1, <1>2, <2>1 DEF Over
    <3>2. x \in CopiedOf(BB) /\ y \in CopiedOf(BB)
      BY <1>3, <1>6, <2>1
    <3> QED
      BY <1>1, <3>1, <3>2, ClonesPrecede
  <2>2. CASE ~(t = i /\ b = BB)
    <3>1. b \in DOMAIN code[t] /\ x \in instMap[t] /\ y \in instMap[t]
      BY <1>3, <1>4, <2>2
    <3>2. code'[t][b] = code[t][b]
      BY <1>1, <1>2, <2>2, <3>1 DEF Over
    <3> QED
      BY <3>1, <3>2 DEF OrderInv, KeptInv
  <2> QED
    BY <2>1, <2>2
<1>9. DOMAIN channels' = {} /\ ~Finished'
  <2>1. DOMAIN <<>> = {}
    OBVIOUS
  <2> QED
    BY <1>1, <2>1 DEF Finished
<1>10. SentInv' /\ GotInv' /\ EndsInv'
  BY <1>9 DEF SentInv, GotInv, EndsInv
<1> QED
  BY <1>7, <1>8, <1>10 DEF OrderInv

\* What a channel changes.
LEMMA InsertStart ==
  ASSUME IInv, InsertChannel
  PROVE  /\ IsProgram(prog) /\ UNCHANGED <<prog, instMap, placeEquivalents, phase>> /\ phase = "sync"
         /\ k \in 1..Len(allEdges) /\ e = allEdges[k] /\ e.u \in Instr /\ utr = assigned[e.u]
         /\ utr \in Thread /\ vtr \in Thread /\ utr # vtr /\ e.u \in instMap[utr]
         /\ insPos \in instMap[vtr] /\ parent(insPos) = parent(e.u)
         /\ parent(e.u) \in DOMAIN code[utr] /\ parent(e.u) \in DOMAIN code[vtr]
         /\ \A t \in Thread : DOMAIN code'[t] = DOMAIN code[t]
         /\ code'[utr][parent(e.u)] = WithProduce(code[utr][parent(e.u)])
         /\ code'[vtr][parent(e.u)] = WithConsume(code[vtr][parent(e.u)])
         /\ \A t \in Thread : \A b \in DOMAIN code[t] :
              ~(t = utr /\ b = parent(e.u)) /\ ~(t = vtr /\ b = parent(e.u)) => code'[t][b] = code[t][b]
         /\ Len(channels) \in Nat /\ DOMAIN channels = 1..Len(channels)
         /\ DOMAIN channels' = DOMAIN channels \cup {Len(channels) + 1}
         /\ Len(channels) + 1 \notin DOMAIN channels
         /\ channels'[Len(channels) + 1] = [edge |-> e, to |-> vtr]
         /\ \A d \in DOMAIN channels : channels'[d] = channels[d]
<1>0. IsProgram(prog)
  BY SplitAssumption DEF IInv, PhaseInv
<1>1. /\ UNCHANGED <<prog, instMap, placeEquivalents, phase>>
      /\ channels' = Append(channels, [edge |-> e, to |-> vtr])
      /\ phase = "sync" /\ k <= Len(allEdges) /\ vtr < MAX_THREAD /\ NeedsChannel /\ HasPlace
      /\ code' = [code EXCEPT ![utr][parent(e.u)] = WithProduce(@), ![vtr][parent(insPos)] = WithConsume(@)]
  BY DEF InsertChannel
<1>2. /\ k \in 1..Len(allEdges) /\ e = allEdges[k] /\ e.u \in Instr
      /\ utr = assigned[e.u] /\ utr \in Thread /\ vtr \in Thread
  BY <1>1, NextEdge
<1>3. /\ utr < vtr /\ utr # vtr /\ e.u \in instMap[utr] /\ insPos \in instMap[vtr] /\ parent(insPos) = parent(e.u)
      /\ parent(e.u) \in DOMAIN code[utr] /\ parent(e.u) \in DOMAIN code[vtr]
  BY <1>1, <1>2, InsertPlace, Numbers
<1>4. DOMAIN code = Thread
  BY DEF IInv, PhaseInv
<1>5. \A t \in Thread : DOMAIN code'[t] = DOMAIN code[t]
  BY <1>1, <1>4
<1> DEFINE pu == parent(e.u)
<1> HIDE DEF pu
<1>6. code' = [code EXCEPT ![utr][pu] = WithProduce(@), ![vtr][pu] = WithConsume(@)]
  BY <1>1, <1>3 DEF pu
<1>7. /\ code'[utr][pu] = WithProduce(code[utr][pu]) /\ code'[vtr][pu] = WithConsume(code[vtr][pu])
      /\ \A t \in Thread : \A b \in DOMAIN code[t] :
           ~(t = utr /\ b = pu) /\ ~(t = vtr /\ b = pu) => code'[t][b] = code[t][b]
  <2>1. pu \in DOMAIN code[utr] /\ pu \in DOMAIN code[vtr]
    BY <1>3 DEF pu
  <2> QED
    BY <1>2, <1>3, <1>4, <1>6, <2>1
<1>8. /\ Len(channels) \in Nat /\ DOMAIN channels = 1..Len(channels)
      /\ DOMAIN channels' = DOMAIN channels \cup {Len(channels) + 1}
      /\ Len(channels) + 1 \notin DOMAIN channels
      /\ channels'[Len(channels) + 1] = [edge |-> e, to |-> vtr]
      /\ \A d \in DOMAIN channels : channels'[d] = channels[d]
  <2> DEFINE L == channels
             X == [edge : Range(allEdges), to : Thread]
             new == [edge |-> e, to |-> vtr]
  <2>1. new \in X
    BY <1>0, <1>2, EdgeFacts
  <2>2. L \in Seq(X) /\ channels' = Append(L, new)
    BY <1>1 DEF IInv, ChannelInv
  <2> HIDE DEF L, X, new
  <2>3. /\ Append(L, new) \in Seq(X) /\ Len(L) \in Nat /\ DOMAIN L = 1..Len(L)
        /\ DOMAIN Append(L, new) = 1..Len(L) + 1
        /\ Append(L, new)[Len(L) + 1] = new /\ \A d \in 1..Len(L) : Append(L, new)[d] = L[d]
    BY <2>1, <2>2
  <2>4. 1..Len(L) + 1 = (1..Len(L)) \cup {Len(L) + 1} /\ Len(L) + 1 \notin 1..Len(L)
    BY <2>3
  <2> QED
    BY <2>2, <2>3, <2>4 DEF L, new
<1> QED
  BY <1>0, <1>1, <1>2, <1>3, <1>5, <1>7, <1>8 DEF pu

\* What inserting keeps, and where the calls are.
LEMMA InsertPrecedes ==
  ASSUME NEW s, NEW S, Lists(s, S)
  PROVE  /\ Clone(e.u) \in S => /\ \A x, y : Precedes(s, x, y) => Precedes(WithProduce(s), x, y)
                                /\ Precedes(WithProduce(s), Clone(e.u), Produce(Len(channels) + 1))
         /\ Clone(insPos) \in S => /\ \A x, y : Precedes(s, x, y) => Precedes(WithConsume(s), x, y)
                                   /\ Precedes(WithConsume(s), Consume(Len(channels) + 1), Clone(insPos))
                                   /\ \A y : Precedes(s, Clone(insPos), y) =>
                                        Precedes(WithConsume(s), Consume(Len(channels) + 1), y)
<1>1. s \in Seq(S) /\ Len(s) \in Nat /\ \A n, m \in 1..Len(s) : s[n] = s[m] => n = m
  BY DEF Lists
<1>2. ASSUME Clone(e.u) \in S
      PROVE  /\ \A x, y : Precedes(s, x, y) => Precedes(WithProduce(s), x, y)
             /\ Precedes(WithProduce(s), Clone(e.u), Produce(Len(channels) + 1))
  <2> DEFINE n == IndexOf(s, e.u)
             m == n + 1
             z == Produce(Len(channels) + 1)
  <2>1. n \in 1..Len(s) /\ s[n] = Clone(e.u)
    BY <1>2, IndexFacts
  <2>2. WithProduce(s) = InsertAt(s, m, z)
    BY DEF WithProduce
  <2>3. m \in 1..Len(s) + 1 /\ n < m
    BY <1>1, <2>1
  <2> HIDE DEF n, m, z
  <2>4. /\ \A x, y : Precedes(s, x, y) => Precedes(InsertAt(s, m, z), x, y)
        /\ \A l \in 1..Len(s) : l < m => Precedes(InsertAt(s, m, z), s[l], z)
    BY <1>1, <2>3, PrecedesInsert
  <2> QED
    BY <2>1, <2>2, <2>3, <2>4 DEF z
<1>3. ASSUME Clone(insPos) \in S
      PROVE  /\ \A x, y : Precedes(s, x, y) => Precedes(WithConsume(s), x, y)
             /\ Precedes(WithConsume(s), Consume(Len(channels) + 1), Clone(insPos))
             /\ \A y : Precedes(s, Clone(insPos), y) => Precedes(WithConsume(s), Consume(Len(channels) + 1), y)
  <2> DEFINE n == IndexOf(s, insPos)
             z == Consume(Len(channels) + 1)
  <2>1. n \in 1..Len(s) /\ s[n] = Clone(insPos)
    BY <1>3, IndexFacts
  <2>2. WithConsume(s) = InsertAt(s, n, z)
    BY DEF WithConsume
  <2>3. n \in 1..Len(s) + 1 /\ n >= n
    BY <1>1, <2>1
  <2> HIDE DEF n, z
  <2>4. /\ \A x, y : Precedes(s, x, y) => Precedes(InsertAt(s, n, z), x, y)
        /\ \A l \in 1..Len(s) : l >= n => Precedes(InsertAt(s, n, z), z, s[l])
    BY <1>1, <2>3, PrecedesInsert
  <2>5. ASSUME NEW y, Precedes(s, Clone(insPos), y) PROVE Precedes(InsertAt(s, n, z), z, y)
    <3>1. PICK l \in 1..Len(s), p \in 1..Len(s) : l < p /\ s[l] = Clone(insPos) /\ s[p] = y
      BY <2>5 DEF Precedes
    <3>2. l = n
      BY <1>1, <2>1, <3>1
    <3>3. p >= n
      BY <1>1, <3>1, <3>2
    <3> QED
      BY <2>4, <3>1, <3>3
  <2> QED
    BY <2>1, <2>2, <2>3, <2>4, <2>5 DEF z
<1> QED
  BY <1>2, <1>3

LEMMA OrderInsert ==
  ASSUME IInv, OrderInv, InsertChannel
  PROVE  OrderInv'
<1> DEFINE c == Len(channels) + 1
           pu == parent(e.u)
<1>1. /\ IsProgram(prog) /\ UNCHANGED <<prog, instMap, placeEquivalents, phase>> /\ phase = "sync"
      /\ e.u \in Instr /\ utr = assigned[e.u]
      /\ utr \in Thread /\ vtr \in Thread /\ utr # vtr /\ e.u \in instMap[utr]
      /\ insPos \in instMap[vtr] /\ parent(insPos) = pu
      /\ pu \in DOMAIN code[utr] /\ pu \in DOMAIN code[vtr]
      /\ \A t \in Thread : DOMAIN code'[t] = DOMAIN code[t]
      /\ code'[utr][pu] = WithProduce(code[utr][pu])
      /\ code'[vtr][pu] = WithConsume(code[vtr][pu])
      /\ \A t \in Thread : \A b \in DOMAIN code[t] :
           ~(t = utr /\ b = pu) /\ ~(t = vtr /\ b = pu) => code'[t][b] = code[t][b]
      /\ DOMAIN channels' = DOMAIN channels \cup {c}
      /\ channels'[c] = [edge |-> e, to |-> vtr]
      /\ \A d \in DOMAIN channels : channels'[d] = channels[d]
  BY InsertStart
<1>2. Instr' = Instr /\ assigned' = assigned
  BY <1>1, ProgramSame
<1>3. ~Finished'
  BY <1>1 DEF Finished
<1>4. /\ Lists(code[utr][pu], Items(utr, pu)) /\ Clone(e.u) \in Items(utr, pu)
      /\ Lists(code[vtr][pu], Items(vtr, pu)) /\ Clone(insPos) \in Items(vtr, pu)
  BY <1>1, CloneThere DEF IInv, ItemInv
<1>5. /\ \A x, y : Precedes(code[utr][pu], x, y) => Precedes(code'[utr][pu], x, y)
      /\ Precedes(code'[utr][pu], Clone(e.u), Produce(c))
  BY <1>1, <1>4, InsertPrecedes
<1>6. /\ \A x, y : Precedes(code[vtr][pu], x, y) => Precedes(code'[vtr][pu], x, y)
      /\ Precedes(code'[vtr][pu], Consume(c), Clone(insPos))
      /\ \A y : Precedes(code[vtr][pu], Clone(insPos), y) => Precedes(code'[vtr][pu], Consume(c), y)
  BY <1>1, <1>4, InsertPrecedes
<1> HIDE DEF c, pu
<1>7. \A t \in Thread : \A b \in DOMAIN code[t] : \A x, y :
        Precedes(code[t][b], x, y) => Precedes(code'[t][b], x, y)
  BY <1>1, <1>5, <1>6
<1>8. PlaceNext'
  BY <1>1 DEF OrderInv, PlaceNext, parent
<1>9. KeptInv'
  BY <1>1, <1>7 DEF OrderInv, KeptInv, parent
<1>10. ASSUME NEW d \in DOMAIN channels
       PROVE  LET u == channels[d].edge.u IN
                /\ assigned[u] \in Thread /\ parent(u) \in DOMAIN code[assigned[u]]
                /\ channels[d].to \in Thread /\ parent(u) \in DOMAIN code[channels[d].to]
  <2>1. channels[d].edge \in Range(allEdges) /\ channels[d].to \in Thread
    BY ChannelFacts
  <2>2. channels[d].edge.u \in Instr /\ assigned[channels[d].edge.u] \in Thread
    BY <1>1, <2>1, EdgeFacts
  <2> QED
    BY <2>1, <2>2 DEF IInv, ChannelInv
<1>11. SentInv'
  <2> SUFFICES ASSUME NEW d \in DOMAIN channels'
               PROVE  LET u == channels'[d].edge.u IN
                        Precedes(code'[assigned[u]][parent(u)], Clone(u), Produce(d))
    BY <1>2 DEF SentInv, parent
  <2>1. CASE d = c
    BY <1>1, <1>5, <2>1 DEF pu
  <2>2. CASE d \in DOMAIN channels
    <3>1. Precedes(code[assigned[channels[d].edge.u]][parent(channels[d].edge.u)],
                   Clone(channels[d].edge.u), Produce(d))
      BY <1>1, <2>2 DEF OrderInv, SentInv, Finished
    <3> QED
      BY <1>1, <1>7, <1>10, <2>2, <3>1
  <2> QED
    BY <1>1, <2>1, <2>2
<1>12. GotInv'
  <2> SUFFICES ASSUME NEW d \in DOMAIN channels',
                      NEW v \in instMap[channels'[d].to],
                      parent(v) = parent(channels'[d].edge.u), channels'[d].edge.u[2] < v[2]
               PROVE  Precedes(code'[channels'[d].to][parent(channels'[d].edge.u)], Consume(d), Clone(v))
    BY <1>1 DEF GotInv, parent
  <2>1. CASE d = c
    <3>1. channels'[d].to = vtr /\ channels'[d].edge.u = e.u
      BY <1>1, <2>1
    <3>2. v \in instMap[vtr] /\ parent(v) = pu /\ e.u[2] < v[2]
      BY <3>1 DEF pu
    <3>3. v = insPos \/ insPos[2] < v[2]
      <4>1. CASE e.u \in DOMAIN placeEquivalents[vtr]
        <5>1. insPos = placeEquivalents[vtr][e.u]
          BY <4>1 DEF insPos
        <5>2. v[2] >= insPos[2]
          <6>1. parent(v) = parent(e.u) /\ v[2] > e.u[2]
            <7>1. e.u[2] \in Nat /\ v[2] \in Nat
              BY <1>1, <3>2, CloneThere, InstrFacts
            <7> QED
              BY <3>2, <7>1 DEF pu
          <6> QED
            BY <1>1, <3>2, <4>1, <5>1, <6>1 DEF OrderInv, PlaceNext
        <5>3. /\ v = <<v[1], v[2]>> /\ insPos = <<insPos[1], insPos[2]>>
              /\ v[2] \in Nat /\ insPos[2] \in Nat
          BY <1>1, <3>2, CloneThere, InstrFacts
        <5>4. v[1] = insPos[1]
          BY <1>1, <3>2 DEF parent
        <5> QED
          BY <5>2, <5>3, <5>4
      <4>2. CASE e.u \notin DOMAIN placeEquivalents[vtr]
        BY <3>2, <4>2 DEF insPos
      <4> QED
        BY <4>1, <4>2
    <3>4. CASE v = insPos
      BY <1>6, <2>1, <3>1, <3>4 DEF pu
    <3>5. CASE insPos[2] < v[2]
      <4>1. Precedes(code[vtr][pu], Clone(insPos), Clone(v))
        BY <1>1, <3>2, <3>5 DEF OrderInv, KeptInv
      <4> QED
        BY <1>6, <2>1, <3>1, <4>1 DEF pu
    <3> QED
      BY <3>3, <3>4, <3>5
  <2>2. CASE d \in DOMAIN channels
    <3>1. Precedes(code[channels[d].to][parent(channels[d].edge.u)], Consume(d), Clone(v))
      BY <1>1, <2>2 DEF OrderInv, GotInv, Finished
    <3> QED
      BY <1>1, <1>7, <1>10, <2>2, <3>1
  <2> QED
    BY <1>1, <2>1, <2>2
<1>13. EndsInv'
  BY <1>3 DEF EndsInv
<1> QED
  BY <1>8, <1>9, <1>11, <1>12, <1>13 DEF OrderInv

\* A phi node comes before the other instructions of its block.
LEMMA PhiFacts ==
  ASSUME IsProgram(prog)
  PROVE  /\ \A x \in DOMAIN prog.phi : x \in Instr /\ ~isTerminator(prog, x)
         /\ \A x \in DOMAIN prog.phi : \A y \in Instr :
              parent(y) = parent(x) /\ y[2] <= x[2] => y \in DOMAIN prog.phi
         /\ \A x : Clone(x) \in Phis <=> x \in DOMAIN prog.phi
         /\ \A c : Produce(c) \notin Phis /\ Consume(c) \notin Phis
<1>1. \A x \in DOMAIN prog.phi : /\ x \in Instr /\ ~isTerminator(prog, x)
                                 /\ {parent(x)} \X (1..x[2]) \subseteq DOMAIN prog.phi
  BY DEF IsProgram, PhisFit, Instr
<1>2. ASSUME NEW x \in DOMAIN prog.phi, NEW y \in Instr, parent(y) = parent(x), y[2] <= x[2]
      PROVE  y \in DOMAIN prog.phi
  <2>1. y = <<parent(x), y[2]>> /\ y[2] \in Nat /\ y[2] >= 1 /\ x[2] \in Nat
    BY <1>1, <1>2, InstrFacts DEF parent
  <2>2. y[2] \in 1..x[2]
    BY <1>2, <2>1
  <2> QED
    BY <1>1, <2>1, <2>2
<1>3. \A x : Clone(x) \in Phis <=> x \in DOMAIN prog.phi
  BY ItemsDiffer DEF Phis
<1>4. \A c : Produce(c) \notin Phis /\ Consume(c) \notin Phis
  BY ItemsDiffer DEF Phis
<1> QED
  BY <1>1, <1>2, <1>3, <1>4

LEMMA OrderCleanup ==
  ASSUME IInv, OrderInv, Cleanup
  PROVE  OrderInv'
<1>0. IsProgram(prog)
  BY SplitAssumption DEF IInv, PhaseInv
<1>1. /\ UNCHANGED <<prog, instMap, placeEquivalents, channels>> /\ phase = "sync" /\ phase' = "done"
      /\ code' = [t \in Thread |-> [b \in DOMAIN code[t] |-> PhisFirst(TerminatorLast(code[t][b], b))]]
  BY DEF Cleanup
<1>2. Instr' = Instr /\ assigned' = assigned /\ \A b : Terminator(b)' = Terminator(b)
  BY <1>1, ProgramSame
<1>3. /\ \A t \in Thread : DOMAIN code'[t] = DOMAIN code[t]
      /\ \A t \in Thread : \A b \in DOMAIN code[t] : code'[t][b] = PhisFirst(TerminatorLast(code[t][b], b))
  BY <1>1
<1>4. Phis' = Phis /\ \A t, b : Items(t, b)' = Items(t, b)
  BY <1>1, <1>2 DEF Phis, Items, Clones, Produces, Consumes, parent
<1>5. ASSUME NEW t \in Thread, NEW b \in DOMAIN code[t]
      PROVE  /\ \A x, y : /\ Precedes(code[t][b], x, y)
                          /\ y = Clone(Terminator(b)) \/ Precedes(code[t][b], x, Clone(Terminator(b)))
                          /\ x \in Phis \/ y \notin Phis
                          => Precedes(code'[t][b], x, y)
             /\ \A x \in Items(t, b) : x # Clone(Terminator(b)) => Precedes(code'[t][b], x, Clone(Terminator(b)))
             /\ \A x \in Items(t, b) \cap Phis, y \in Items(t, b) \ Phis : Precedes(code'[t][b], x, y)
  <2> DEFINE s == code[t][b]
             T == Clone(Terminator(b))
             r == TerminatorLast(s, b)
  <2>1. Lists(s, Items(t, b)) /\ T \in Items(t, b) /\ b \in Block
    BY CloneThere DEF IInv, ItemInv
  <2>2. T \notin Phis
    <3>1. Terminator(b) \notin DOMAIN prog.phi
      BY <1>0, <2>1, InstrFacts, PhiFacts
    <3> QED
      BY <1>0, <3>1, PhiFacts
  <2>3. Lists(r, Items(t, b))
    BY <2>1, TerminatorLastLists
  <2>4. /\ \A x, y : Precedes(s, x, y) /\ (y = T \/ Precedes(s, x, T)) => Precedes(r, x, y)
        /\ \A x \in Items(t, b) : x # T => Precedes(r, x, T)
    BY <2>1, TerminatorLastPrecedes
  <2>5. code'[t][b] = PhisFirst(r)
    BY <1>3
  <2> HIDE DEF s, T, r
  <2>6. /\ \A x, y : Precedes(r, x, y) /\ (x \in Phis \/ y \notin Phis) => Precedes(PhisFirst(r), x, y)
        /\ \A x \in Items(t, b) \cap Phis, y \in Items(t, b) \ Phis : Precedes(PhisFirst(r), x, y)
    BY <2>3, PhisFirstPrecedes
  <2> QED
    BY <2>2, <2>4, <2>5, <2>6 DEF s, T
<1>6. ASSUME NEW t \in Thread, NEW x \in instMap[t], ~isTerminator(prog, x)
      PROVE  x[2] < Terminator(parent(x))[2] /\ Precedes(code[t][parent(x)], Clone(x), Clone(Terminator(parent(x))))
  <2>1. x \in Instr /\ parent(x) \in DOMAIN code[t] /\ parent(x) \in Block
        /\ Terminator(parent(x)) \in instMap[t] /\ parent(Terminator(parent(x))) = parent(x)
    BY CloneThere
  <2>2. x[2] \in 1..prog.size[parent(x)] /\ x[2] # prog.size[parent(x)] /\ prog.size[parent(x)] \in Nat
    BY <1>0, <1>6, <2>1, InstrFacts DEF isTerminator
  <2>3. x[2] < Terminator(parent(x))[2]
    BY <2>2 DEF Terminator
  <2> QED
    BY <2>1, <2>3 DEF OrderInv, KeptInv
<1>7. PlaceNext'
  BY <1>1 DEF OrderInv, PlaceNext, parent
<1>8. KeptInv'
  <2> SUFFICES ASSUME NEW t \in Thread, NEW b \in DOMAIN code[t], NEW x \in instMap[t], NEW y \in instMap[t],
                      parent(x) = b, parent(y) = b, x[2] < y[2]
               PROVE  Precedes(code'[t][b], Clone(x), Clone(y))
    BY <1>1, <1>3 DEF KeptInv, parent
  <2>1. x \in Instr /\ y \in Instr
    BY CloneThere
  <2>2. Precedes(code[t][b], Clone(x), Clone(y))
    BY DEF OrderInv, KeptInv
  <2>3. ~isTerminator(prog, x)
    <3>1. y[2] \in 1..prog.size[b] /\ x[2] \in Nat /\ prog.size[b] \in Nat
      BY <1>0, <2>1, InstrFacts
    <3> QED
      BY <3>1 DEF isTerminator
  <2>4. Precedes(code[t][b], Clone(x), Clone(Terminator(b)))
    BY <1>6, <2>3
  <2>5. y \in DOMAIN prog.phi => x \in DOMAIN prog.phi
    <3>1. x[2] <= y[2]
      BY <1>0, <2>1, InstrFacts
    <3> QED
      BY <1>0, <2>1, <3>1, PhiFacts
  <2> QED
    BY <1>0, <1>5, <2>2, <2>4, <2>5, PhiFacts
<1>9. ASSUME NEW d \in DOMAIN channels
      PROVE  LET u == channels[d].edge.u IN
               /\ u \in instMap[assigned[u]] /\ assigned[u] \in Thread /\ parent(u) \in DOMAIN code[assigned[u]]
               /\ channels[d].to \in Thread /\ parent(u) \in DOMAIN code[channels[d].to]
               /\ Consume(d) \in Items(channels[d].to, parent(u)) /\ u \in Instr
  <2>1. channels[d].edge \in Range(allEdges) /\ channels[d].to \in Thread
    BY ChannelFacts
  <2>2. channels[d].edge.u \in Instr /\ assigned[channels[d].edge.u] \in Thread
    BY <1>0, <2>1, EdgeFacts
  <2>3. /\ parent(channels[d].edge.u) \in DOMAIN code[assigned[channels[d].edge.u]]
        /\ parent(channels[d].edge.u) \in DOMAIN code[channels[d].to]
    BY <2>1, <2>2 DEF IInv, ChannelInv
  <2>4. Consume(d) \in Items(channels[d].to, parent(channels[d].edge.u))
    BY DEF Items, Consumes
  <2> QED
    BY <2>1, <2>2, <2>3, <2>4, CloneThere
<1>10. SentInv'
  <2> SUFFICES ASSUME NEW d \in DOMAIN channels, ~isTerminator(prog, channels[d].edge.u)
               PROVE  LET u == channels[d].edge.u IN
                        Precedes(code'[assigned[u]][parent(u)], Clone(u), Produce(d))
    BY <1>1, <1>2 DEF SentInv, parent, Finished, isTerminator
  <2> DEFINE u == channels[d].edge.u
  <2>1. Precedes(code[assigned[u]][parent(u)], Clone(u), Produce(d))
    BY <1>1 DEF OrderInv, SentInv, Finished
  <2>2. Precedes(code[assigned[u]][parent(u)], Clone(u), Clone(Terminator(parent(u))))
    BY <1>6, <1>9
  <2> QED
    BY <1>0, <1>5, <1>9, <2>1, <2>2, PhiFacts
<1>11. GotInv'
  <2> SUFFICES ASSUME NEW d \in DOMAIN channels,
                      NEW v \in instMap[channels[d].to],
                      parent(v) = parent(channels[d].edge.u), channels[d].edge.u[2] < v[2], v \notin DOMAIN prog.phi
               PROVE  Precedes(code'[channels[d].to][parent(channels[d].edge.u)], Consume(d), Clone(v))
    BY <1>1 DEF GotInv, parent, Finished
  <2> DEFINE u == channels[d].edge.u
             t == channels[d].to
             T == Terminator(parent(u))
  <2>1. Precedes(code[t][parent(u)], Consume(d), Clone(v))
    BY <1>1 DEF OrderInv, GotInv, Finished
  <2>2. T \in instMap[t] /\ parent(T) = parent(u) /\ u[2] < T[2]
    <3>1. T \in instMap[t] /\ parent(T) = parent(u)
      BY <1>9, CloneThere
    <3>2. v \in Instr /\ u \in Instr /\ t \in Thread
      BY <1>9, CloneThere
    <3>3. v[2] \in 1..prog.size[parent(u)] /\ u[2] \in Nat /\ prog.size[parent(u)] \in Nat
      <4>1. \A x \in Instr : x[2] \in 1..prog.size[parent(x)] /\ prog.size[parent(x)] \in Nat
        BY <1>0, InstrFacts
      <4> HIDE DEF u
      <4>2. v[2] \in 1..prog.size[parent(v)] /\ u[2] \in 1..prog.size[parent(u)] /\ prog.size[parent(u)] \in Nat
        BY <3>2, <4>1
      <4>3. parent(v) = parent(u)
        BY DEF u
      <4> QED
        BY <4>2, <4>3
    <3>4. T[2] = prog.size[parent(u)]
      BY DEF Terminator
    <3> QED
      BY <3>1, <3>3, <3>4
  <2>3. Precedes(code[t][parent(u)], Consume(d), Clone(T))
    BY <1>1, <2>2 DEF OrderInv, GotInv, Finished
  <2> QED
    BY <1>0, <1>5, <1>9, <2>1, <2>3, PhiFacts
<1>12. EndsInv'
  BY <1>2, <1>3, <1>4, <1>5 DEF EndsInv
<1> QED
  BY <1>7, <1>8, <1>10, <1>11, <1>12 DEF OrderInv

-----------------------------------------------------------------------------
(* Which dependences have a channel, and which channel an operand reads *)

ReadInv ==
  \A t \in Thread : \A v, u : <<v, u>> \in DOMAIN operand[t] =>
    LET c == operand[t][<<v, u>>] IN
      /\ c \in DOMAIN channels /\ channels[c].to = t
      /\ channels[c].edge.u = u /\ channels[c].edge.dtype = "REG"

SeenInv ==
  phase \in {"sync", "done"} =>
    \A j \in 1..Len(allEdges) : \A t \in Thread :
      Passed(j, t) /\ Needs(allEdges[j], t) =>
        \E c \in DOMAIN channels : channels[c].edge = allEdges[j] /\ channels[c].to = t

LinkInv == ReadInv /\ SeenInv

LEMMA LinkSame ==
  ASSUME LinkInv, UNCHANGED <<prog, target, instMap, operand, channels, k, vtr>>,
         \/ phase' = phase
         \/ phase = "sync" /\ phase' \in {"done", "nowhere"}
         \/ phase' \notin {"sync", "done"}
         \/ k = 1 /\ vtr = 0
  PROVE  LinkInv'
<1>1. ReadInv'
  BY DEF LinkInv, ReadInv
<1>2. /\ allEdges' = allEdges /\ (\A j, t : Passed(j, t)' = Passed(j, t))
      /\ \A f, t : Needs(f, t)' = Needs(f, t)
  BY SameOperands, ProgramSame
<1>3. SeenInv'
  <2>1. ASSUME phase' \notin {"sync", "done"} PROVE SeenInv'
    BY <2>1 DEF SeenInv
  <2>2. ASSUME k = 1, vtr = 0 PROVE SeenInv'
    <3>1. \A j \in 1..Len(allEdges) : \A t \in Thread : ~Passed(j, t)
      BY <2>2, Numbers DEF Passed
    <3> QED
      BY <1>2, <3>1 DEF SeenInv
  <2>3. ASSUME phase \in {"sync", "done"} PROVE SeenInv'
    BY <1>2, <2>3 DEF LinkInv, SeenInv
  <2> QED
    BY <2>1, <2>2, <2>3
<1> QED
  BY <1>1, <1>3 DEF LinkInv

LEMMA LinkCopy ==
  ASSUME IInv, NEW BB \in todo, CopyBlock(BB)
  PROVE  LinkInv'
<1>1. phase' = "copy" /\ phase = "copy" /\ operand' = operand
  BY CopyStart
<1>2. \A t \in Thread : operand[t] = <<>>
  BY <1>1 DEF IInv, PhaseInv, Building
<1>3. DOMAIN <<>> = {}
  OBVIOUS
<1> QED
  BY <1>1, <1>2, <1>3 DEF LinkInv, ReadInv, SeenInv

LEMMA LinkInsert ==
  ASSUME IInv, LinkInv, InsertChannel
  PROVE  LinkInv'
<1> DEFINE c == Len(channels) + 1
<1>1. /\ UNCHANGED <<prog, instMap, phase>> /\ phase = "sync" /\ e = allEdges[k] /\ vtr \in Thread
      /\ DOMAIN channels' = DOMAIN channels \cup {c} /\ c \notin DOMAIN channels
      /\ channels'[c] = [edge |-> e, to |-> vtr]
      /\ \A d \in DOMAIN channels : channels'[d] = channels[d]
  BY InsertStart
<1>2. /\ k' = k /\ vtr' = vtr + 1 /\ k <= Len(allEdges) /\ vtr < MAX_THREAD
      /\ \/ e.dtype = "REG" /\ \E user \in Users(vtr, e.u) :
              operand' = [operand EXCEPT ![vtr] = Over([x \in {<<user, e.u>>} |-> c], @)]
         \/ operand' = operand
  BY DEF InsertChannel, Redirected
<1>3. DOMAIN operand = Thread
  BY DEF IInv, PhaseInv
<1>4. allEdges' = allEdges /\ assigned' = assigned
  BY <1>1, ProgramSame
<1> HIDE DEF c
<1>5. ReadInv'
  <2> SUFFICES ASSUME NEW t \in Thread, NEW v, NEW u, <<v, u>> \in DOMAIN operand'[t]
               PROVE  LET d == operand'[t][<<v, u>>] IN
                        /\ d \in DOMAIN channels' /\ channels'[d].to = t
                        /\ channels'[d].edge.u = u /\ channels'[d].edge.dtype = "REG"
    BY DEF ReadInv
  <2>1. CASE <<v, u>> \in DOMAIN operand[t] /\ operand'[t][<<v, u>>] = operand[t][<<v, u>>]
    BY <1>1, <2>1 DEF LinkInv, ReadInv
  <2>2. CASE ~(<<v, u>> \in DOMAIN operand[t] /\ operand'[t][<<v, u>>] = operand[t][<<v, u>>])
    <3>1. operand' # operand
      BY <2>2
    <3>2. PICK user \in Users(vtr, e.u) :
            operand' = [operand EXCEPT ![vtr] = Over([x \in {<<user, e.u>>} |-> c], @)]
      BY <1>2, <3>1
    <3>3. e.dtype = "REG"
      BY <1>2, <3>1
    <3>4. t = vtr
      BY <1>3, <2>2, <3>2
    <3>5. operand'[t] = Over([x \in {<<user, e.u>>} |-> c], operand[t])
      BY <1>3, <3>2, <3>4
    <3>6. <<v, u>> = <<user, e.u>> /\ operand'[t][<<v, u>>] = c
      BY <2>2, <3>5 DEF Over
    <3> QED
      BY <1>1, <3>3, <3>4, <3>6
  <2> QED
    BY <2>1, <2>2
<1>6. SeenInv'
  <2> SUFFICES ASSUME NEW j \in 1..Len(allEdges), NEW t \in Thread, Passed(j, t)', Needs(allEdges[j], t)
               PROVE  \E d \in DOMAIN channels' : channels'[d].edge = allEdges[j] /\ channels'[d].to = t
    <3>1. \A f, q : Needs(f, q)' = Needs(f, q)
      BY <1>1, <1>4 DEF Needs
    <3> QED
      BY <1>4, <3>1 DEF SeenInv
  <2>1. Passed(j, t) \/ (j = k /\ t = vtr)
    BY <1>2, PassedNext
  <2>2. CASE Passed(j, t)
    <3>1. PICK d \in DOMAIN channels : channels[d].edge = allEdges[j] /\ channels[d].to = t
      BY <1>1, <2>2 DEF LinkInv, SeenInv
    <3> QED
      BY <1>1, <3>1
  <2>3. CASE j = k /\ t = vtr
    BY <1>1, <2>3
  <2> QED
    BY <2>1, <2>2, <2>3
<1> QED
  BY <1>5, <1>6 DEF LinkInv

LEMMA LinkSkip ==
  ASSUME IInv, LinkInv, SkipThread
  PROVE  LinkInv'
<1>1. /\ UNCHANGED <<prog, phase, instMap, operand, channels>>
      /\ k <= Len(allEdges) /\ (vtr < MAX_THREAD => ~NeedsChannel)
      /\ IF vtr < MAX_THREAD THEN vtr' = vtr + 1 /\ k' = k ELSE vtr' = 0 /\ k' = k + 1
  BY DEF SkipThread
<1>2. allEdges' = allEdges /\ assigned' = assigned
  BY <1>1, ProgramSame
<1>3. \A f, t : Needs(f, t)' = Needs(f, t)
  BY <1>1, <1>2 DEF Needs
<1>4. \A j \in 1..Len(allEdges) : \A t \in Thread : Needs(allEdges[j], t) => (Passed(j, t)' <=> Passed(j, t))
  BY <1>1, PassedNext, NextEdge
<1>5. SeenInv'
  BY <1>1, <1>2, <1>3, <1>4 DEF LinkInv, SeenInv
<1>6. ReadInv'
  BY <1>1 DEF LinkInv, ReadInv
<1> QED
  BY <1>5, <1>6 DEF LinkInv

-----------------------------------------------------------------------------
(* What goes into the loop, what comes out of it, and who works *)

\* A worker with blocks has the header; only the first threads have work.
WorkInv ==
  /\ \A t \in Thread : t < i /\ RelevantBlocks(t) # {} => header \in RelevantBlocks(t)
  /\ phase = "copy" => header \in relbb
  /\ phase \in {"sync", "done"} => \A v \in Instr : assigned[v] < i
  /\ phase = "done" => \A t \in Thread : DOMAIN code[t] = {} => code[t] = <<>>

\* Every value from outside the loop is a live-in, and the live-outs are values of the
\* loop that the worker which computes them stores.
LiveInv ==
  /\ phase = "live" => i = 0
  /\ phase # "live" =>
       /\ liveout \in Seq(prog.usedAfter) /\ livein \in Seq({predecessor} \X Nat)
       /\ \A p \in DOMAIN prog.phi : Range(prog.phi[p]) \subseteq Instr \cup Range(livein)
  /\ DOMAIN stores = Thread
  /\ \A t \in Thread : t < i => stores[t] = {n \in DOMAIN liveout : assigned[liveout[n]] = t}

ValueInv == WorkInv /\ LiveInv

LEMMA ValueInit == Init => ValueInv
<1> SUFFICES ASSUME Init PROVE ValueInv
  OBVIOUS
<1>1. phase = "live" /\ i = 0 /\ stores = [t \in Thread |-> {}]
  BY DEF Init
<1>2. \A t \in Thread : ~(t < i)
  BY <1>1, Numbers
<1> QED
  BY <1>1, <1>2 DEF ValueInv, WorkInv, LiveInv

LEMMA InstructionsSeq ==
  ASSUME IsProgram(prog)
  PROVE  Instructions \in Seq(Instr)
<1> DEFINE s == [n \in 1..NumBlock |-> Body(n - 1)]
<1>1. \A b \in Block : Body(b) \in Seq(Instr)
  <2> SUFFICES ASSUME NEW b \in Block PROVE Body(b) \in Seq(Instr)
    OBVIOUS
  <2>1. prog.size[b] \in Nat /\ \A n \in 1..prog.size[b] : <<b, n>> \in Instr
    BY InstrFacts
  <2> QED
    BY <2>1 DEF Body
<1>2. \A n \in 1..NumBlock : n - 1 \in Block
  BY Numbers DEF Block
<1>3. s \in [1..NumBlock -> Seq(Instr)]
  BY <1>1, <1>2
<1> HIDE DEF s
<1>4. FlattenSeq(s) \in Seq(Instr)
  BY <1>3, Numbers, Flattened
<1> QED
  BY <1>4 DEF s, Instructions

\* A sequence of the members of a set has them all.
LEMMA SetToSeqsFacts ==
  ASSUME NEW S, IsFiniteSet(S), NEW s \in SetToSeqs(S)
  PROVE  s \in Seq(S) /\ S \subseteq Range(s)
<1> DEFINE n == Cardinality(S)
<1>1. n \in Nat
  BY FS_CardinalityType
<1>2. s \in [1..n -> S] /\ \A l, m \in 1..n : l # m => s[l] # s[m]
  BY DEF SetToSeqs
<1> HIDE DEF n
<1>3. s \in Injection(1..n, S)
  BY <1>2 DEF Injection, IsInjective
<1>4. IsFiniteSet(1..n) /\ Cardinality(1..n) = n
  BY <1>1, FS_Interval
<1>5. s \in Surjection(1..n, S)
  BY <1>3, <1>4, FS_Injection DEF n
<1>6. s \in Seq(S)
  BY <1>1, <1>2
<1>7. S \subseteq Range(s)
  BY <1>2, <1>5 DEF Surjection, Range
<1> QED
  BY <1>6, <1>7

LEMMA RangeFinite ==
  ASSUME NEW f, IsFiniteSet(DOMAIN f)
  PROVE  IsFiniteSet({f[x] : x \in DOMAIN f})
<1> DEFINE D == DOMAIN f
           R == {f[x] : x \in DOMAIN f}
           g == [x \in D |-> f[x]]
<1>1. g \in [D -> R] /\ \A y \in R : \E x \in D : g[x] = y
  OBVIOUS
<1>2. g \in Surjection(D, R)
  BY <1>1 DEF Surjection
<1> HIDE DEF D, R, g
<1>3. IsFiniteSet(D)
  BY DEF D
<1>4. IsFiniteSet(R)
  BY <1>2, <1>3, FS_Surjection
<1> QED
  BY <1>4 DEF R

LEMMA LiveinFinite ==
  ASSUME IsProgram(prog)
  PROVE  IsFiniteSet((UNION {Range(prog.phi[p]) : p \in DOMAIN prog.phi}) \ Instr)
<1> DEFINE f == [b \in Block |-> {b} \X (1..prog.size[b])]
           g == [p \in DOMAIN prog.phi |-> Range(prog.phi[p])]
<1>1. IsFiniteSet(Block)
  BY Numbers, FS_Interval DEF Block
<1>2. IsFiniteSet(Instr)
  <2>1. \A b \in Block : IsFiniteSet({b} \X (1..prog.size[b]))
    <3> SUFFICES ASSUME NEW b \in Block PROVE IsFiniteSet({b} \X (1..prog.size[b]))
      OBVIOUS
    <3>1. prog.size[b] \in Int
      BY InstrFacts
    <3>2. IsFiniteSet(1..prog.size[b])
      BY <3>1, FS_Interval
    <3>3. IsFiniteSet({b})
      BY FS_Singleton
    <3> QED
      BY <3>2, <3>3, FS_Product
  <2>2. IsFiniteSet({f[b] : b \in DOMAIN f})
    BY <1>1, RangeFinite
  <2>3. Instr = UNION {f[b] : b \in DOMAIN f}
    BY DEF Instr, Instrs
  <2>4. \A T \in {f[b] : b \in DOMAIN f} : IsFiniteSet(T)
    BY <2>1
  <2> HIDE DEF f
  <2> QED
    BY <2>2, <2>3, <2>4, FS_UNION
<1>3. IsFiniteSet(DOMAIN prog.phi)
  <2>1. DOMAIN prog.phi \subseteq Instr
    BY PhiFacts
  <2> QED
    BY <1>2, <2>1, FS_Subset
<1>4. \A p \in DOMAIN prog.phi : IsFiniteSet(Range(prog.phi[p]))
  <2> SUFFICES ASSUME NEW p \in DOMAIN prog.phi PROVE IsFiniteSet(Range(prog.phi[p]))
    OBVIOUS
  <2>1. DOMAIN prog.phi[p] \subseteq Block \cup {predecessor}
    <3>1. DOMAIN prog.phi[p] = {q \in Block \cup {predecessor} : <<q, parent(p)>> \in Entries(prog.cfg)}
      BY DEF IsProgram, PhisFit
    <3> QED
      BY <3>1
  <2>2. IsFiniteSet(Block \cup {predecessor})
    BY <1>1, FS_AddElement
  <2>3. IsFiniteSet(DOMAIN prog.phi[p])
    BY <2>1, <2>2, FS_Subset
  <2> QED
    BY <2>3, RangeFinite DEF Range
<1>5. IsFiniteSet({g[p] : p \in DOMAIN g})
  BY <1>3, RangeFinite
<1>6. {g[p] : p \in DOMAIN g} = {Range(prog.phi[p]) : p \in DOMAIN prog.phi}
  OBVIOUS
<1>7. IsFiniteSet(UNION {Range(prog.phi[p]) : p \in DOMAIN prog.phi})
  BY <1>4, <1>5, <1>6, FS_UNION
<1> QED
  BY <1>7, FS_Subset

\* A phi node's values are instructions or from outside.
LEMMA PhiValues ==
  ASSUME IsProgram(prog), NEW p \in DOMAIN prog.phi, NEW u \in Range(prog.phi[p])
  PROVE  u \in {predecessor} \X Nat \/ u \in Registers(p) \cap Instr
<1>1. \/ u \in {predecessor} \X Nat
      \/ \E f \in Range(allEdges) : f.u = u /\ f.v = p /\ f.dtype = "REG"
  BY DEF IsProgram, PhisFit, allEdges
<1>2. \A f \in Range(allEdges) : f.u \in Instr
  BY EdgeFacts
<1> QED
  BY <1>1, <1>2 DEF Registers

LEMMA ValueStep ==
  ASSUME IInv, ValueInv, Split
  PROVE  ValueInv'
<1>0. IsProgram(prog)
  BY SplitAssumption DEF IInv, PhaseInv
<1>1. prog' = prog
  BY DEF Split, GetLiveinfo, FindRelevant, CopyBlock, NextThread, InsertChannel, CannotInsert, SkipThread, Cleanup
<1>2. /\ Instr' = Instr /\ assigned' = assigned
      /\ \A t : RelevantBlocks(t)' = RelevantBlocks(t)
  BY <1>1, ProgramSame
<1>3. i \in Nat /\ \A t \in Thread : t \in Nat
  BY PhaseNumbers, Numbers DEF IInv
<1>4. ASSUME GetLiveinfo PROVE ValueInv'
  <2>1. /\ phase = "live" /\ phase' = "relevant" /\ UNCHANGED <<i, stores, code, relbb>>
        /\ livein' \in SetToSeqs((UNION {Range(prog.phi[p]) : p \in DOMAIN prog.phi}) \ Instr)
        /\ liveout' = Keep(Instructions, prog.usedAfter)
    BY <1>4 DEF GetLiveinfo
  <2>2. i = 0 /\ \A t \in Thread : ~(t < i)
    BY <1>3, <2>1, Numbers DEF ValueInv, LiveInv
  <2>3. liveout' \in Seq(prog.usedAfter)
    <3>1. Keep(Instructions, prog.usedAfter) \in Seq(Instr \cap prog.usedAfter)
      BY <1>0, InstructionsSeq, KeepPrecedes
    <3> QED
      BY <2>1, <3>1
  <2> DEFINE S == (UNION {Range(prog.phi[p]) : p \in DOMAIN prog.phi}) \ Instr
  <2>3a. \A u : u \in S <=> u \notin Instr /\ \E p \in DOMAIN prog.phi : u \in Range(prog.phi[p])
    <3> HIDE DEF Range
    <3> QED
      BY Zenon
  <2>4. livein' \in Seq(S) /\ S \subseteq Range(livein')
    BY <1>0, <2>1, LiveinFinite, SetToSeqsFacts
  <2>5. S \subseteq {predecessor} \X Nat
    <3> HIDE DEF S
    <3> SUFFICES ASSUME NEW u \in S PROVE u \in {predecessor} \X Nat
      BY Zenon
    <3>1. u \notin Instr /\ \E p \in DOMAIN prog.phi : u \in Range(prog.phi[p])
      BY <2>3a
    <3>2. PICK p \in DOMAIN prog.phi : u \in Range(prog.phi[p])
      BY <3>1
    <3>3. u \in {predecessor} \X Nat \/ u \in Registers(p) \cap Instr
      BY <1>0, <3>2, PhiValues
    <3> QED
      BY <3>1, <3>3
  <2>6. ASSUME NEW p \in DOMAIN prog.phi, NEW u \in Range(prog.phi[p]) PROVE u \in Instr \cup S
    <3> HIDE DEF S
    <3> QED
      BY <2>3a
  <2> HIDE DEF S
  <2>7. livein' \in Seq({predecessor} \X Nat)
    BY <2>4, <2>5
  <2>8. \A p \in DOMAIN prog.phi : Range(prog.phi[p]) \subseteq Instr \cup Range(livein')
    BY <2>4, <2>6
  <2>9. LiveInv'
    BY <1>1, <1>2, <2>1, <2>2, <2>3, <2>7, <2>8 DEF ValueInv, LiveInv
  <2>10. WorkInv'
    BY <1>2, <2>1, <2>2 DEF WorkInv
  <2> QED
    BY <2>9, <2>10 DEF ValueInv
<1>5. ASSUME FindRelevant PROVE ValueInv'
  <2>1. /\ phase = "relevant" /\ i < MAX_THREAD /\ UNCHANGED <<i, stores, code, livein, liveout>>
        /\ relbb' = RelevantBlocks(i)
        /\ phase' = CASE relbb' = {} -> "sync"
                      [] relbb' # {} /\ header \notin relbb' -> "no header"
                      [] OTHER -> "copy"
    BY <1>5 DEF FindRelevant, live
  <2>2. phase' \in {"sync", "no header", "copy"} /\ (phase' = "copy" => header \in relbb')
        /\ (phase' = "sync" => RelevantBlocks(i) = {})
    BY <2>1
  <2>3. ASSUME RelevantBlocks(i) = {}, NEW v \in Instr PROVE assigned[v] < i
    <3>1. \A x \in Instr : assigned[x] # i
      BY <1>0, <2>3, RelevantFacts
    <3>2. 0..assigned[v] \subseteq Range(assigned) /\ assigned \in [Instr -> Thread]
      BY <1>0 DEF IsProgram, Instr, assigned
    <3>3. assigned[v] \in Nat
      BY <1>3, <3>2
    <3>4. i \notin 0..assigned[v]
      BY <3>1, <3>2 DEF Range
    <3> QED
      BY <1>3, <3>3, <3>4
  <2>4. LiveInv'
    BY <1>1, <1>2, <2>1, <2>2 DEF ValueInv, LiveInv
  <2>5. WorkInv'
    BY <1>2, <2>1, <2>2, <2>3 DEF ValueInv, WorkInv
  <2> QED
    BY <2>4, <2>5 DEF ValueInv
<1>6. ASSUME NextThread PROVE ValueInv'
  <2>1. /\ phase = "copy" /\ i' = i + 1 /\ phase' = IF i + 1 = MAX_THREAD THEN "sync" ELSE "relevant"
        /\ stores' = [stores EXCEPT ![i] = {j \in DOMAIN liveout : Stored(liveout[j])}]
        /\ UNCHANGED <<code, livein, liveout, relbb>>
    BY <1>6 DEF NextThread, live
  <2>2. i < MAX_THREAD /\ relbb = RelevantBlocks(i) /\ header \in relbb /\ i \in Thread
    BY <1>3, <2>1, Numbers DEF IInv, PhaseInv, ValueInv, WorkInv
  <2>3. \A t \in Thread : t < i' <=> t < i \/ t = i
    BY <1>3, <2>1
  <2>4. \A v \in Instr : assigned[v] < i' \/ i' # MAX_THREAD
    BY <1>0, EdgeFacts, Numbers
  <2>5. LiveInv'
    BY <1>1, <1>2, <2>1, <2>2, <2>3 DEF ValueInv, LiveInv, Stored
  <2>6. WorkInv'
    BY <1>2, <2>1, <2>2, <2>3, <2>4 DEF ValueInv, WorkInv
  <2> QED
    BY <2>5, <2>6 DEF ValueInv
<1>7. ASSUME NEW BB \in todo, CopyBlock(BB) PROVE ValueInv'
  <2>1. phase = "copy" /\ phase' = "copy" /\ UNCHANGED <<i, stores, livein, liveout, relbb>>
    BY <1>7 DEF CopyBlock, live
  <2>2. LiveInv'
    BY <1>1, <1>2, <2>1 DEF ValueInv, LiveInv
  <2>3. WorkInv'
    BY <1>2, <2>1 DEF ValueInv, WorkInv
  <2> QED
    BY <2>2, <2>3 DEF ValueInv
<1>8. ASSUME InsertChannel \/ CannotInsert \/ SkipThread \/ Cleanup PROVE ValueInv'
  <2>1. /\ phase = "sync" /\ UNCHANGED <<i, stores, livein, liveout, relbb>>
        /\ phase' \in {"sync", "nowhere", "done"} /\ (phase' = "done" => Cleanup)
    BY <1>8 DEF InsertChannel, CannotInsert, SkipThread, Cleanup, live
  <2>2. LiveInv'
    BY <1>1, <1>2, <2>1 DEF ValueInv, LiveInv
  <2>3. ASSUME Cleanup, NEW t \in Thread, DOMAIN code'[t] = {} PROVE code'[t] = <<>>
    <3>1. code'[t] = [b \in DOMAIN code[t] |-> PhisFirst(TerminatorLast(code[t][b], b))]
      BY <2>3 DEF Cleanup
    <3>2. DOMAIN code[t] = {}
      BY <2>3, <3>1
    <3> QED
      BY <3>1, <3>2
  <2>4. WorkInv'
    BY <1>2, <2>1, <2>3 DEF ValueInv, WorkInv
  <2> QED
    BY <2>2, <2>4 DEF ValueInv
<1> QED
  BY <1>4, <1>5, <1>6, <1>7, <1>8 DEF Split

\* The inductive invariant of the workers as they are made.
SInv == IInv /\ OrderInv /\ LinkInv /\ ValueInv

LEMMA SplitStart == Init => SInv
<1> SUFFICES ASSUME Init PROVE SInv
  OBVIOUS
<1>1. operand = [t \in Thread |-> <<>>] /\ phase = "live"
  BY DEF Init
<1>2. LinkInv
  BY <1>1 DEF LinkInv, ReadInv, SeenInv
<1> QED
  BY <1>2, InitInv, OrderInit, ValueInit DEF SInv

LEMMA SplitStep ==
  ASSUME SInv, Split
  PROVE  SInv'
<1>0. IInv /\ OrderInv /\ LinkInv
  BY DEF SInv
<1>1. ASSUME GetLiveinfo \/ FindRelevant \/ NextThread \/ CannotInsert PROVE IInv' /\ OrderInv' /\ LinkInv'
  <2>1. /\ UNCHANGED <<prog, code, target, instMap, placeEquivalents, channels, operand, k, vtr>>
        /\ phase # "done" /\ phase' # "done"
        /\ ~CannotInsert => phase \in {"live", "relevant", "copy"}
        /\ CannotInsert => phase = "sync" /\ phase' = "nowhere"
    BY <1>1 DEF GetLiveinfo, FindRelevant, NextThread, CannotInsert, live
  <2>2. ~CannotInsert => k = 1 /\ vtr = 0
    BY <1>0, <2>1 DEF IInv, PhaseInv, Building
  <2>3. LinkInv'
    BY <1>0, <2>1, <2>2, LinkSame
  <2>4. OrderInv'
    BY <1>0, <2>1, OrderSame
  <2> QED
    BY <1>0, <1>1, <2>3, <2>4, NotCopying
<1>2. ASSUME NEW BB \in todo, CopyBlock(BB) PROVE IInv' /\ OrderInv' /\ LinkInv'
  BY <1>0, <1>2, CopyBlockInv, OrderCopy, LinkCopy
<1>3. ASSUME InsertChannel PROVE IInv' /\ OrderInv' /\ LinkInv'
  BY <1>0, <1>3, InsertInv, OrderInsert, LinkInsert
<1>4. ASSUME SkipThread PROVE IInv' /\ OrderInv' /\ LinkInv'
  <2>1. UNCHANGED <<prog, code, instMap, placeEquivalents, channels, phase>>
    BY <1>4 DEF SkipThread
  <2> QED
    BY <1>0, <1>4, <2>1, SkipInv, OrderSame, LinkSkip
<1>5. ASSUME Cleanup PROVE IInv' /\ OrderInv' /\ LinkInv'
  <2>1. /\ UNCHANGED <<prog, target, instMap, operand, channels, k, vtr>>
        /\ phase = "sync" /\ phase' = "done"
    BY <1>5 DEF Cleanup
  <2>2. LinkInv'
    BY <1>0, <2>1, LinkSame
  <2> QED
    BY <1>0, <1>5, <2>2, CleanupInv, OrderCleanup
<1>6. ValueInv'
  BY ValueStep DEF SInv
<1> QED
  BY <1>1, <1>2, <1>3, <1>4, <1>5, <1>6 DEF Split, SInv

LEMMA SplitSame ==
  ASSUME SInv, UNCHANGED split
  PROVE  SInv'
<1>1. UNCHANGED <<prog, phase, livein, liveout, i, relbb, todo, code, target, instMap,
                  placeEquivalents, stores, operand, k, vtr, channels>>
  BY DEF split, live
<1>2. /\ Instr' = Instr /\ assigned' = assigned
      /\ \A t : RelevantBlocks(t)' = RelevantBlocks(t)
  BY <1>1, ProgramSame
<1>3. ValueInv'
  BY <1>1, <1>2 DEF SInv, ValueInv, WorkInv, LiveInv
<1>4. OrderInv' /\ LinkInv'
  BY <1>1, OrderSame, LinkSame DEF SInv
<1> QED
  BY <1>3, <1>4, StutterInv DEF SInv

-----------------------------------------------------------------------------
(* Paths through the loop *)

\* The blocks p are gone through from block x on until the exit.
IsWalk(p, x) ==
  /\ p \in Seq(Block)
  /\ IF x = exit THEN p = <<>> ELSE Len(p) >= 1 /\ p[1] = x
  /\ \A j \in 1..Len(p) : (IF j = Len(p) THEN exit ELSE p[j + 1]) \in prog.cfg[p[j]]

PathsFrom(f, n, b) ==
  IF b = exit THEN {<<>>}
  ELSE IF n = 0 THEN {}
  ELSE UNION {{<<b>> \o p : p \in f[n - 1][s]} : s \in prog.cfg[b]}

\* The function behind Paths exists.
LEMMA PathsExist ==
  ASSUME NEW N \in Nat
  PROVE  \E f : f = [n \in 0..N |-> [b \in Block \cup {exit} |-> PathsFrom(f, n, b)]]
<1> DEFINE D == Block \cup {exit}
           W == {m \in Nat : \E f : f = [n \in 0..m |-> [b \in D |-> PathsFrom(f, n, b)]]}
<1>0. ASSUME NEW f, NEW g, NEW n, NEW b, n # 0 => f[n - 1] = g[n - 1]
      PROVE  PathsFrom(f, n, b) = PathsFrom(g, n, b)
  BY <1>0 DEF PathsFrom
<1>1. 0 \in W
  <2> DEFINE f == [n \in 0..0 |-> [b \in D |-> PathsFrom(<<>>, n, b)]]
  <2>1. ASSUME NEW n \in 0..0, NEW b \in D PROVE PathsFrom(<<>>, n, b) = PathsFrom(f, n, b)
    BY DEF PathsFrom
  <2>2. f = [n \in 0..0 |-> [b \in D |-> PathsFrom(f, n, b)]]
    <3> DEFINE g == [n \in 0..0 |-> [b \in D |-> PathsFrom(f, n, b)]]
    <3>1. \A n \in 0..0 : f[n] = g[n]
      <4> HIDE DEF D
      <4> QED
        BY <2>1
    <3> QED
      BY <3>1
  <2> QED
    BY <2>2
<1>2. ASSUME NEW m \in Nat, m \in W PROVE m + 1 \in W
  <2>1. PICK f : f = [n \in 0..m |-> [b \in D |-> PathsFrom(f, n, b)]]
    BY <1>2
  <2> DEFINE g == [n \in 0..m + 1 |-> [b \in D |-> PathsFrom(f, n, b)]]
             h == [n \in 0..m + 1 |-> [b \in D |-> PathsFrom(g, n, b)]]
  <2>2. \A n \in 0..m : g[n] = f[n]
    <3> SUFFICES ASSUME NEW n \in 0..m PROVE g[n] = f[n]
      OBVIOUS
    <3> HIDE DEF D
    <3> QED
      BY <2>1
  <2>3. ASSUME NEW n \in 0..m + 1, NEW b \in D PROVE PathsFrom(f, n, b) = PathsFrom(g, n, b)
    <3> HIDE DEF g, D, W
    <3>1. n # 0 => n - 1 \in 0..m
      OBVIOUS
    <3>2. n # 0 => f[n - 1] = g[n - 1]
      BY <2>2, <3>1
    <3> QED
      BY <1>0, <3>2
  <2>4. \A n \in 0..m + 1 : g[n] = h[n]
    <3> SUFFICES ASSUME NEW n \in 0..m + 1 PROVE g[n] = h[n]
      OBVIOUS
    <3>1. g[n] = [b \in D |-> PathsFrom(f, n, b)] /\ h[n] = [b \in D |-> PathsFrom(g, n, b)]
      OBVIOUS
    <3>2. \A b \in D : PathsFrom(f, n, b) = PathsFrom(g, n, b)
      BY <2>3
    <3> HIDE DEF g, h, D
    <3> QED
      BY <3>1, <3>2
  <2>5. g = h
    BY <2>4
  <2>6. g = [n \in 0..m + 1 |-> [b \in D |-> PathsFrom(g, n, b)]]
    BY <2>5
  <2> QED
    <3> HIDE DEF g, h, D
    <3>1. \E f1 : f1 = [n \in 0..m + 1 |-> [b \in D |-> PathsFrom(f1, n, b)]]
      BY <2>6
    <3> QED
      BY <3>1
<1>3. N \in W
  <2> HIDE DEF W
  <2> QED
    BY <1>1, <1>2, SetInduction
<1> QED
  BY <1>3

LEMMA PathsAre ==
  \A n \in 0..MaxPath : \A b \in Block \cup {exit} : Paths[n][b] = PathsFrom(Paths, n, b)
<1>1. MaxPath \in Nat
  BY PipelineAssumption
<1>2. Paths = [n \in 0..MaxPath |-> [b \in Block \cup {exit} |-> PathsFrom(Paths, n, b)]]
  BY <1>1, PathsExist, Zenon DEF Paths, PathsFrom
<1> SUFFICES ASSUME NEW n \in 0..MaxPath, NEW b \in Block \cup {exit}
             PROVE  Paths[n][b] = PathsFrom(Paths, n, b)
  OBVIOUS
<1> DEFINE f == Paths
<1>3. f = [l \in 0..MaxPath |-> [a \in Block \cup {exit} |-> PathsFrom(f, l, a)]]
  BY <1>2
<1> HIDE DEF f
<1>4. f[n] = [a \in Block \cup {exit} |-> PathsFrom(f, n, a)]
  BY <1>3
<1>5. f[n][b] = PathsFrom(f, n, b)
  BY <1>4
<1> QED
  BY <1>5 DEF f

LEMMA WalkLonger ==
  ASSUME IsProgram(prog), NEW b \in Block, NEW s \in prog.cfg[b], NEW p, IsWalk(p, s)
  PROVE  IsWalk(<<b>> \o p, b) /\ Len(<<b>> \o p) = Len(p) + 1
<1> DEFINE q == <<b>> \o p
<1>1. <<b>> \in Seq(Block) /\ Len(<<b>>) = 1 /\ <<b>>[1] = b /\ p \in Seq(Block)
  BY DEF IsWalk
<1>2. /\ q \in Seq(Block) /\ Len(q) = Len(p) + 1 /\ q[1] = b
      /\ \A j \in 1..Len(p) : q[j + 1] = p[j]
  <2>1. q \in Seq(Block) /\ Len(q) = 1 + Len(p)
        /\ \A j \in 1..Len(q) : q[j] = IF j <= 1 THEN <<b>>[j] ELSE p[j - 1]
    BY <1>1, ConcatProperties
  <2>2. Len(p) \in Nat
    BY <1>1
  <2> HIDE DEF q
  <2>3. ASSUME NEW j \in 1..Len(p) PROVE q[j + 1] = p[j]
    <3>1. j + 1 \in 1..Len(q) /\ ~(j + 1 <= 1) /\ (j + 1) - 1 = j
      BY <2>1, <2>2
    <3> QED
      BY <2>1, <3>1
  <2> QED
    BY <1>1, <2>1, <2>2, <2>3
<1> HIDE DEF q
<1>3. b # exit
  BY LoopAssumption DEF Block, exit
<1>4. Len(p) \in Nat
  BY <1>1
<1>5. ASSUME NEW j \in 1..Len(q) PROVE (IF j = Len(q) THEN exit ELSE q[j + 1]) \in prog.cfg[q[j]]
  <2>1. CASE j = 1
    <3>1. q[j] = b
      BY <1>2, <2>1
    <3>2. CASE s = exit
      <4>1. Len(p) = 0
        BY <3>2 DEF IsWalk
      <4> QED
        BY <1>2, <2>1, <3>1, <3>2, <4>1
    <3>3. CASE s # exit
      <4>1. Len(p) >= 1 /\ p[1] = s
        BY <3>3 DEF IsWalk
      <4>2. q[j + 1] = s /\ j # Len(q)
        BY <1>2, <1>4, <2>1, <4>1
      <4> QED
        BY <3>1, <4>2
    <3> QED
      BY <3>2, <3>3
  <2>2. CASE j # 1
    <3>1. j - 1 \in 1..Len(p) /\ (j - 1) + 1 = j
      BY <1>2, <1>4, <2>2
    <3>2. q[j] = p[j - 1]
      BY <1>2, <3>1
    <3>3. (IF j - 1 = Len(p) THEN exit ELSE p[(j - 1) + 1]) \in prog.cfg[p[j - 1]]
      BY <3>1 DEF IsWalk
    <3>4. j = Len(q) <=> j - 1 = Len(p)
      BY <1>2, <1>4
    <3>5. j # Len(q) => j \in 1..Len(p) /\ q[j + 1] = p[j]
      BY <1>2, <1>4
    <3> QED
      BY <3>1, <3>2, <3>3, <3>4, <3>5
  <2> QED
    BY <2>1, <2>2
<1> QED
  BY <1>2, <1>3, <1>4, <1>5 DEF IsWalk, q

LEMMA PathsWalk ==
  ASSUME IsProgram(prog), NEW p \in Paths[MaxPath][header]
  PROVE  IsWalk(p, header) /\ Len(p) \in 1..MaxPath
<1> DEFINE Good(n) == \A b \in Block \cup {exit} : \A q \in Paths[n][b] : IsWalk(q, b) /\ Len(q) <= n
           W == {n \in Nat : n <= MaxPath => Good(n)}
<1>1. MaxPath \in Nat
  BY PipelineAssumption
<1>2. \A b \in Block : prog.cfg[b] \subseteq Block \cup {exit}
  BY DEF IsProgram
<1>3. IsWalk(<<>>, exit) /\ Len(<<>>) = 0
  BY DEF IsWalk
<1>4. 0 \in W
  <2>1. Good(0)
    <3> SUFFICES ASSUME NEW b \in Block \cup {exit}, NEW q \in Paths[0][b] PROVE IsWalk(q, b) /\ Len(q) <= 0
      OBVIOUS
    <3>1. q \in PathsFrom(Paths, 0, b)
      BY <1>1, PathsAre
    <3>2. b = exit /\ q = <<>>
      BY <3>1 DEF PathsFrom
    <3> QED
      BY <1>3, <3>2
  <2> QED
    BY <2>1
<1>5. ASSUME NEW n \in Nat, n \in W PROVE n + 1 \in W
  <2> SUFFICES ASSUME n + 1 <= MaxPath, NEW b \in Block \cup {exit}, NEW q \in Paths[n + 1][b]
               PROVE  IsWalk(q, b) /\ Len(q) <= n + 1
    OBVIOUS
  <2>1. Good(n)
    BY <1>1, <1>5
  <2>2. q \in PathsFrom(Paths, n + 1, b)
    BY <1>1, PathsAre
  <2>3. CASE b = exit
    BY <1>3, <2>2, <2>3 DEF PathsFrom
  <2>4. CASE b # exit
    <3>1. q \in UNION {{<<b>> \o r : r \in Paths[(n + 1) - 1][s]} : s \in prog.cfg[b]}
      BY <2>2, <2>4 DEF PathsFrom
    <3>2. (n + 1) - 1 = n
      OBVIOUS
    <3>3a. PICK s \in prog.cfg[b] : q \in {<<b>> \o r : r \in Paths[n][s]}
      BY <3>1, <3>2
    <3>3. PICK r \in Paths[n][s] : q = <<b>> \o r
      BY <3>3a
    <3>4. b \in Block /\ s \in Block \cup {exit}
      BY <1>2, <2>4
    <3>5. IsWalk(r, s) /\ Len(r) <= n
      BY <2>1, <3>3, <3>4
    <3>6. IsWalk(q, b) /\ Len(q) = Len(r) + 1
      BY <3>3, <3>4, <3>5, WalkLonger
    <3>7. Len(r) \in Nat
      BY <3>5 DEF IsWalk
    <3> QED
      BY <3>5, <3>6, <3>7
  <2> QED
    BY <2>3, <2>4
<1>6. MaxPath \in W
  <2> HIDE DEF W
  <2> QED
    BY <1>1, <1>4, <1>5, SetInduction
<1>7. IsWalk(p, header) /\ Len(p) <= MaxPath
  BY <1>6, LoopAssumption DEF Block, header
<1>8. header # exit
  BY LoopAssumption DEF header, exit
<1>9. Len(p) >= 1 /\ Len(p) \in Nat
  BY <1>7, <1>8 DEF IsWalk
<1> QED
  BY <1>1, <1>7, <1>9

\* What is known about the path once the loop has been left to the workers.
OnPath ==
  /\ path \in Seq(Block) /\ Len(path) \in 1..MaxPath /\ path[1] = header
  /\ \A j \in 1..Len(path) : path[j] \in Block /\ After(j) \in prog.cfg[path[j]]

LEMMA MetFacts ==
  ASSUME NEW b
  PROVE  /\ \A j \in Nat : Met(b, j) \in Nat /\ Met(b, j) <= j
         /\ Met(b, 0) = 0
         /\ \A j \in Nat : Met(b, j + 1) = Met(b, j) + (IF path[j + 1] = b THEN 1 ELSE 0)
         /\ \A l, j \in Nat : l <= j => Met(b, l) <= Met(b, j)
         /\ \A l, j \in Nat : l < j /\ path[j] = b => Met(b, l) < Met(b, j)
<1> DEFINE In(j) == {m \in 1..j : path[m] = b}
<1>1. ASSUME NEW j \in Nat PROVE IsFiniteSet(In(j)) /\ Met(b, j) \in Nat /\ Met(b, j) <= j
  <2>1. IsFiniteSet(1..j) /\ Cardinality(1..j) = j
    BY FS_Interval
  <2>2. In(j) \subseteq 1..j
    OBVIOUS
  <2> HIDE DEF In
  <2>3. IsFiniteSet(In(j)) /\ Cardinality(In(j)) <= j
    BY <2>1, <2>2, FS_Subset
  <2>4. Cardinality(In(j)) \in Nat
    BY <2>3, FS_CardinalityType
  <2> QED
    BY <2>3, <2>4 DEF Met, In
<1>2. Met(b, 0) = 0
  <2>1. In(0) = {}
    OBVIOUS
  <2> QED
    BY <2>1, FS_EmptySet DEF Met
<1>3. ASSUME NEW j \in Nat PROVE Met(b, j + 1) = Met(b, j) + (IF path[j + 1] = b THEN 1 ELSE 0)
  <2>1. CASE path[j + 1] = b
    <3>1. In(j + 1) = In(j) \cup {j + 1} /\ j + 1 \notin In(j)
      BY <2>1
    <3> HIDE DEF In
    <3>2. Cardinality(In(j + 1)) = Cardinality(In(j)) + 1
      BY <1>1, <3>1, FS_AddElement
    <3> QED
      BY <2>1, <3>2 DEF Met, In
  <2>2. CASE path[j + 1] # b
    <3>1. In(j + 1) = In(j)
      BY <2>2
    <3> QED
      BY <1>1, <2>2, <3>1 DEF Met
  <2> QED
    BY <2>1, <2>2
<1> HIDE DEF In
<1>4. ASSUME NEW l \in Nat, NEW j \in Nat, l <= j PROVE Met(b, l) <= Met(b, j)
  <2> DEFINE W == {n \in Nat : Met(b, l) <= Met(b, l + n)}
  <2>1. 0 \in W
    BY <1>1
  <2>2. ASSUME NEW n \in Nat, n \in W PROVE n + 1 \in W
    <3>1. Met(b, (l + n) + 1) >= Met(b, l + n) /\ Met(b, l) <= Met(b, l + n)
      BY <1>1, <1>3, <2>2
    <3>2. (l + n) + 1 = l + (n + 1) /\ l + n \in Nat /\ l + (n + 1) \in Nat
      OBVIOUS
    <3>3. Met(b, l) \in Nat /\ Met(b, l + n) \in Nat /\ Met(b, l + (n + 1)) \in Nat
      BY <1>1, <3>2
    <3> QED
      BY <3>1, <3>2, <3>3
  <2>3. j - l \in W
    <3> HIDE DEF W
    <3>1. Nat \subseteq W
      BY <2>1, <2>2, SetInduction
    <3> QED
      BY <1>4, <3>1
  <2>4. l + (j - l) = j
    OBVIOUS
  <2> QED
    BY <2>3, <2>4
<1>5. ASSUME NEW l \in Nat, NEW j \in Nat, l < j, path[j] = b PROVE Met(b, l) < Met(b, j)
  <2>1. j - 1 \in Nat /\ (j - 1) + 1 = j /\ l <= j - 1
    BY <1>5
  <2>2. Met(b, l) <= Met(b, j - 1) /\ Met(b, (j - 1) + 1) = Met(b, j - 1) + 1
    BY <1>3, <1>4, <1>5, <2>1
  <2> QED
    BY <1>1, <2>1, <2>2
<1> QED
  BY <1>1, <1>2, <1>3, <1>4, <1>5

\* Every execution up to the j-th block has its place.
LEMMA PlaceFacts ==
  ASSUME OnPath, NEW b
  PROVE  /\ \A j \in 1..Len(path) : path[j] = b => Place(b, Met(b, j)) = j
         /\ \A j \in 0..Len(path) : \A n \in 1..Met(b, j) :
              Place(b, n) \in 1..j /\ path[Place(b, n)] = b /\ Met(b, Place(b, n)) = n
<1>1. DOMAIN path = 1..Len(path) /\ Len(path) \in Nat
  BY DEF OnPath
<1>2. ASSUME NEW j \in 1..Len(path), path[j] = b PROVE Place(b, Met(b, j)) = j
  <2>1. \A l \in 1..Len(path) : path[l] = b /\ Met(b, l) = Met(b, j) => l = j
    <3> SUFFICES ASSUME NEW l \in 1..Len(path), path[l] = b, Met(b, l) = Met(b, j), l # j PROVE FALSE
      OBVIOUS
    <3>1. l < j \/ j < l
      OBVIOUS
    <3>2. l \in Nat /\ j \in Nat
      BY <1>1
    <3>3. Met(b, l) \in Nat /\ (Met(b, l) < Met(b, j) \/ Met(b, j) < Met(b, l))
      BY <1>2, <3>1, <3>2, MetFacts
    <3> QED
      BY <3>3
  <2> QED
    BY <1>1, <1>2, <2>1 DEF Place
<1>3. ASSUME NEW j \in 0..Len(path), NEW n \in 1..Met(b, j)
      PROVE  Place(b, n) \in 1..j /\ path[Place(b, n)] = b /\ Met(b, Place(b, n)) = n
  <2> DEFINE S == {l \in Nat : Met(b, l) >= n}
  <2>1. j \in S
    BY MetFacts
  <2>2. PICK m \in S : \A l \in S : l >= m
    BY <2>1, Least
  <2>3. m \in Nat /\ m <= j /\ Met(b, m) >= n /\ n \in Nat /\ n >= 1
    BY <2>1, <2>2, MetFacts
  <2>4. m # 0
    BY <2>3, MetFacts
  <2>5. m - 1 \in Nat /\ (m - 1) + 1 = m /\ m - 1 \notin S
    BY <2>2, <2>3, <2>4
  <2>6. Met(b, m - 1) < n
    <3>1. Met(b, m - 1) \in Nat
      BY <2>5, MetFacts
    <3> QED
      BY <2>3, <2>5, <3>1
  <2>6a. Met(b, (m - 1) + 1) = Met(b, m - 1) + (IF path[(m - 1) + 1] = b THEN 1 ELSE 0)
    BY <2>5, MetFacts
  <2>6b. Met(b, m) \in Nat /\ Met(b, m - 1) \in Nat
    BY <2>3, <2>5, MetFacts
  <2> HIDE DEF S
  <2>7. path[m] = b /\ Met(b, m) = n
    BY <2>3, <2>5, <2>6, <2>6a, <2>6b
  <2>8. m \in 1..j /\ m \in 1..Len(path)
    BY <1>1, <2>3, <2>4
  <2>9. Place(b, n) = m
    BY <1>2, <2>7, <2>8
  <2> QED
    BY <2>7, <2>8, <2>9
<1> QED
  BY <1>2, <1>3
-----------------------------------------------------------------------------
(* The copied blocks of a worker along the path *)

Copies(t) == DOMAIN code[t]
NodeAt(m) == IF m = Len(path) + 1 THEN exit ELSE path[m]
NoCopy(t, l, m) == \A j \in l..m : path[j] \notin Copies(t)

LEMMA PathFacts ==
  ASSUME SInv, OnPath
  PROVE  /\ IsProgram(prog) /\ Len(path) \in Nat /\ path # <<>>
         /\ \A j \in 1..Len(path) : /\ path[j] \in Block /\ After(j) = NodeAt(j + 1)
                                    /\ After(j) \in prog.cfg[path[j]]
                                    /\ <<path[j], NodeAt(j + 1)>> \in EdgesOf(prog.cfg)
         /\ \A j \in 1..Len(path) + 1 : NodeAt(j) \in Block \cup {exit} /\ NodeAt(j) # predecessor
         /\ header \in Block /\ exit \notin Block /\ predecessor \notin Block /\ predecessor # exit
<1>1. IsProgram(prog)
  BY SplitAssumption DEF SInv, IInv, PhaseInv
<1>2. Len(path) \in Nat /\ Len(path) >= 1
  BY DEF OnPath
<1>3. header \in Block /\ exit \notin Block /\ predecessor \notin Block /\ predecessor # exit
  BY LoopAssumption DEF Block, header, exit, predecessor
<1>4. ASSUME NEW j \in 1..Len(path)
      PROVE  /\ path[j] \in Block /\ After(j) = NodeAt(j + 1) /\ After(j) \in prog.cfg[path[j]]
             /\ <<path[j], NodeAt(j + 1)>> \in EdgesOf(prog.cfg)
  <2>1. path[j] \in Block /\ After(j) \in prog.cfg[path[j]]
    BY DEF OnPath
  <2>2. After(j) = NodeAt(j + 1)
    BY <1>2 DEF After, NodeAt
  <2>3. prog.cfg[path[j]] \subseteq Block \cup {exit}
    BY <1>1, <2>1 DEF IsProgram
  <2> QED
    BY <2>1, <2>2, <2>3 DEF EdgesOf
<1>5. ASSUME NEW j \in 1..Len(path) + 1 PROVE NodeAt(j) \in Block \cup {exit} /\ NodeAt(j) # predecessor
  <2>1. CASE j = Len(path) + 1
    BY <1>3, <2>1 DEF NodeAt
  <2>2. CASE j # Len(path) + 1
    <3>1. j \in 1..Len(path)
      BY <1>2, <2>2
    <3>2. path[j] \in Block /\ NodeAt(j) = path[j]
      BY <1>4, <2>2, <3>1 DEF NodeAt
    <3> QED
      BY <1>3, <3>2
  <2> QED
    BY <2>1, <2>2
<1>6. path # <<>>
  BY <1>2
<1> QED
  BY <1>1, <1>2, <1>3, <1>4, <1>5, <1>6

\* The branch of a copied block leads to the next copied block on the path.
LEMMA NextCopy ==
  ASSUME SInv, phase = "done", OnPath, NEW t \in Thread, NEW j \in 1..Len(path), path[j] \in Copies(t)
  PROVE  \E m \in j + 1..Len(path) + 1 :
           /\ target[t][Terminator(path[j])][After(j)] = NodeAt(m)
           /\ m <= Len(path) => path[m] \in Copies(t)
           /\ NoCopy(t, j + 1, m - 1)
<1> DEFINE S == {m \in Nat : j < m /\ m <= Len(path) + 1 /\ (m = Len(path) + 1 \/ path[m] \in Copies(t))}
           copies == Copies(t) \cup {exit}
           Skipped == {f \in EdgesOf(prog.cfg) : f[1] \notin copies}
<1>1. Len(path) \in Nat
  BY PathFacts
<1>2. Len(path) + 1 \in S
  BY <1>1
<1>3. PICK m \in S : \A l \in S : l >= m
  BY <1>2, Least
<1>4. m \in j + 1..Len(path) + 1 /\ (m <= Len(path) => path[m] \in Copies(t))
  BY <1>1, <1>3
<1>5. NoCopy(t, j + 1, m - 1)
  <2> SUFFICES ASSUME NEW l \in j + 1..m - 1, path[l] \in Copies(t) PROVE FALSE
    BY DEF NoCopy
  <2>1. l \in S /\ ~(l >= m)
    BY <1>1, <1>4
  <2> QED
    BY <1>3, <2>1
<1> HIDE DEF S
<1>6. IsFiniteSet(Skipped)
  BY LoopFinite, FS_Subset
<1>7. NodeAt(m) \in copies /\ NodeAt(m) # predecessor
  BY <1>1, <1>4, PathFacts DEF NodeAt
<1> HIDE DEF Skipped, copies
<1>8. NodeAt(j + 1) \in Reaching(Skipped, NodeAt(m), predecessor)
  <2> DEFINE W == {n \in Nat : n <= m - (j + 1) => NodeAt(m - n) \in Reaching(Skipped, NodeAt(m), predecessor)}
  <2>0. m \in Nat /\ j \in Nat /\ m - 0 = m
    BY <1>1, <1>4
  <2>1. 0 \in W
    <3>1. NodeAt(m) \in Reaching(Skipped, NodeAt(m), predecessor)
      BY <1>6, <1>7, ReachStart
    <3> QED
      BY <2>0, <3>1
  <2>2. ASSUME NEW n \in Nat, n \in W PROVE n + 1 \in W
    <3> SUFFICES ASSUME n + 1 <= m - (j + 1)
                 PROVE  NodeAt(m - (n + 1)) \in Reaching(Skipped, NodeAt(m), predecessor)
      OBVIOUS
    <3> DEFINE l == m - (n + 1)
    <3>1. l \in j + 1..m - 1 /\ l + 1 = m - n /\ l \in 1..Len(path) /\ n <= m - (j + 1)
      BY <1>1, <1>4, <2>0
    <3>2. NodeAt(l + 1) \in Reaching(Skipped, NodeAt(m), predecessor)
      BY <2>2, <3>1
    <3> HIDE DEF l
    <3>2a. NodeAt(l) = path[l] /\ path[l] \in Block /\ path[l] \notin Copies(t)
      <4>1. path[l] \notin Copies(t)
        BY <1>5, <3>1 DEF NoCopy
      <4>2. path[l] \in Block
        BY <3>1, PathFacts
      <4>3. l # Len(path) + 1
        BY <1>1, <3>1
      <4> QED
        BY <4>1, <4>2, <4>3 DEF NodeAt
    <3>3. NodeAt(l) = path[l] /\ path[l] \in Block /\ path[l] \notin Copies(t) /\ path[l] # exit /\ path[l] # predecessor
      BY <3>2a, PathFacts
    <3>4. <<path[l], NodeAt(l + 1)>> \in Skipped
      BY <3>1, <3>3, PathFacts DEF Skipped, copies
    <3>5. path[l] \in Reaching(Skipped, NodeAt(m), predecessor)
      BY <1>6, <3>2, <3>3, <3>4, ReachStep
    <3> QED
      BY <3>3, <3>5 DEF l
  <2>3. m - (j + 1) \in Nat /\ m - (m - (j + 1)) = j + 1
    BY <1>1, <1>4
  <2> HIDE DEF W
  <2>4. m - (j + 1) \in W
    BY <2>1, <2>2, <2>3, SetInduction
  <2> QED
    BY <2>3, <2>4 DEF W
<1>9. NodeAt(m) \in FirstMet(t, After(j))
  BY <1>7, <1>8, PathFacts DEF FirstMet, Skipped, copies, Copies
<1>10. FirstMet(t, After(j)) = {target[t][Terminator(path[j])][After(j)]}
  BY PathsAtEnd, PathFacts DEF SInv, FollowsPath, Copies
<1> QED
  BY <1>4, <1>5, <1>9, <1>10

\* Block c is the last copied block before the j-th of the path.
LastCopy(t, c, j) ==
  \E l \in 0..j - 1 :
    /\ c = IF l = 0 THEN predecessor ELSE path[l]
    /\ l # 0 => c \in Copies(t)
    /\ NoCopy(t, l + 1, j - 1)

LEMMA LastCopyMet ==
  ASSUME SInv, OnPath, NEW t \in Thread, NEW j \in 1..Len(path), NEW c, LastCopy(t, c, j)
  PROVE  c \in LastMet(t, Before(j))
<1> DEFINE copies == Copies(t) \cup {predecessor}
           Skipped == {f \in Entries(prog.cfg) : f[2] \notin copies}
           E == Transposed(Skipped)
           At(m) == IF m = 0 THEN predecessor ELSE path[m]
<1>1. PICK l \in 0..j - 1 : c = At(l) /\ (l # 0 => c \in Copies(t)) /\ NoCopy(t, l + 1, j - 1)
  BY DEF LastCopy
<1>2. Len(path) \in Nat /\ j \in Nat /\ l \in Nat
  BY PathFacts
<1>3. IsFiniteSet(E)
  <2> DEFINE B == Block \cup {exit} \cup {predecessor}
  <2>1. IsFiniteSet(Block)
    BY Numbers, FS_Interval DEF Block
  <2>2. IsFiniteSet(B)
    BY <2>1, FS_AddElement
  <2>3. IsFiniteSet(B \X B)
    BY <2>2, FS_Product
  <2>4. E \subseteq B \X B
    BY PathFacts DEF Transposed, Entries, EdgesOf
  <2> QED
    BY <2>3, <2>4, FS_Subset
<1>4. c # exit /\ c \in copies
  <2>1. CASE l = 0
    BY <1>1, <2>1, PathFacts
  <2>2. CASE l # 0
    <3>1. l \in 1..Len(path) /\ c = path[l] /\ c \in Copies(t)
      BY <1>1, <1>2, <2>2
    <3> QED
      BY <3>1, PathFacts
  <2> QED
    BY <2>1, <2>2
<1>5. \A m \in 0..Len(path) - 1 : <<At(m), path[m + 1]>> \in Entries(prog.cfg)
  <2> SUFFICES ASSUME NEW m \in 0..Len(path) - 1 PROVE <<At(m), path[m + 1]>> \in Entries(prog.cfg)
    OBVIOUS
  <2>1. CASE m = 0
    BY <2>1 DEF OnPath, Entries
  <2>2. CASE m # 0
    <3>1. m \in 1..Len(path) /\ m + 1 # Len(path) + 1
      BY <1>2, <2>2
    <3>2. NodeAt(m + 1) = path[m + 1] /\ <<path[m], NodeAt(m + 1)>> \in EdgesOf(prog.cfg)
      BY <3>1, PathFacts DEF NodeAt
    <3> QED
      BY <2>2, <3>2 DEF Entries
  <2> QED
    BY <2>1, <2>2
<1> DEFINE W == {n \in Nat : l + n <= j - 1 => At(l + n) \in Reaching(E, c, exit)}
<1>6. 0 \in W
  <2> HIDE DEF E
  <2>1. c \in Reaching(E, c, exit)
    BY <1>3, <1>4, ReachStart
  <2>2. At(l + 0) = c
    BY <1>1, <1>2
  <2> QED
    BY <2>1, <2>2
<1>7. ASSUME NEW n \in Nat, n \in W PROVE n + 1 \in W
  <2> DEFINE m == l + n
  <2> SUFFICES ASSUME m + 1 <= j - 1 PROVE At(m + 1) \in Reaching(E, c, exit)
    BY <1>2
  <2>1. m \in 0..Len(path) - 1 /\ m + 1 \in l + 1..j - 1 /\ m + 1 # 0 /\ m + 1 \in 1..Len(path)
    BY <1>2
  <2>2. At(m) \in Reaching(E, c, exit)
    BY <1>2, <1>7
  <2> HIDE DEF m
  <2>3. At(m + 1) = path[m + 1] /\ path[m + 1] \in Block /\ path[m + 1] \notin copies /\ path[m + 1] # exit
    BY <1>1, <2>1, PathFacts DEF NoCopy
  <2>4. <<At(m), path[m + 1]>> \in Skipped
    BY <1>5, <2>1, <2>3
  <2>5. <<path[m + 1], At(m)>> \in E
    <3> DEFINE f == <<At(m), path[m + 1]>>
    <3>1. f \in Skipped /\ f[1] = At(m) /\ f[2] = path[m + 1]
      BY <2>4
    <3> HIDE DEF f, Skipped, At
    <3> QED
      BY <3>1 DEF Transposed
  <2> HIDE DEF E, At
  <2>6. path[m + 1] \in Reaching(E, c, exit)
    BY <1>3, <2>2, <2>3, <2>5, ReachStep
  <2> QED
    BY <2>3, <2>6
<1>8. (j - 1) - l \in Nat /\ l + ((j - 1) - l) = j - 1
  BY <1>1, <1>2
<1>9. At(j - 1) \in Reaching(E, c, exit)
  <2> HIDE DEF W
  <2>1. (j - 1) - l \in W
    BY <1>6, <1>7, <1>8, SetInduction
  <2> QED
    BY <1>8, <2>1 DEF W
<1>10. Before(j) = At(j - 1)
  BY <1>2 DEF Before
<1> QED
  BY <1>4, <1>9, <1>10 DEF LastMet, Copies

-----------------------------------------------------------------------------
(* What is known about a finished worker *)

LEMMA WorkerFacts ==
  ASSUME SInv, phase = "done", NEW t \in Thread
  PROVE  /\ IsProgram(prog) /\ Copies(t) \subseteq Block
         /\ Copies(t) # {} => header \in Copies(t)
         /\ code[t] = <<>> <=> Copies(t) = {}
         /\ \A b \in Copies(t) : Lists(code[t][b], Items(t, b)) /\ Clone(Terminator(b)) \in Items(t, b)
         /\ \A v \in Instr : assigned[v] = t => parent(v) \in Copies(t) /\ v \in instMap[t]
<1>1. IsProgram(prog) /\ assigned \in [Instr -> Thread]
  BY SplitAssumption, EdgeFacts DEF SInv, IInv, PhaseInv
<1>2. IInv /\ WorkInv
  BY DEF SInv, ValueInv
<1>3. i \in Nat /\ t \in Nat
  BY <1>2, PhaseNumbers, Numbers DEF IInv
<1>4. DOMAIN code[t] = IF t < i THEN RelevantBlocks(t) ELSE {}
  BY <1>2 DEF IInv, CopyInv, Blocks
<1>5. RelevantBlocks(t) \subseteq Block
  BY <1>1, RelevantFacts
<1>6. Copies(t) # {} => header \in Copies(t)
  BY <1>2, <1>4 DEF WorkInv, Copies
<1>7. DOMAIN <<>> = {}
  OBVIOUS
<1>8. code[t] = <<>> <=> Copies(t) = {}
  BY <1>2, <1>7 DEF WorkInv, Copies
<1>9. \A v \in Instr : assigned[v] = t => parent(v) \in Copies(t)
  BY <1>1, <1>2, <1>4, RelevantFacts DEF WorkInv, Copies
<1>10. \A v \in Instr : assigned[v] = t => v \in instMap[t]
  BY <1>2, <1>9, CloneThere DEF Copies
<1>11. \A b \in Copies(t) : Lists(code[t][b], Items(t, b)) /\ Clone(Terminator(b)) \in Items(t, b)
  BY <1>2, CloneThere DEF IInv, ItemInv, Copies
<1> QED
  BY <1>1, <1>4, <1>5, <1>6, <1>8, <1>9, <1>10, <1>11 DEF Copies

LEMMA ListFacts ==
  ASSUME NEW s, NEW S, Lists(s, S)
  PROVE  /\ Len(s) \in Nat /\ DOMAIN s = 1..Len(s)
         /\ \A n \in 1..Len(s) : s[n] \in S
         /\ \A x \in S : \E n \in 1..Len(s) : s[n] = x
         /\ \A n, m \in 1..Len(s) : s[n] = s[m] => n = m
BY DEF Lists

\* A copied block ends with its branch, and begins with its phi nodes.
LEMMA BlockEnds ==
  ASSUME SInv, phase = "done", NEW t \in Thread, NEW b \in Copies(t)
  PROVE  LET s == code[t][b] IN
           /\ Len(s) \in Nat \ {0}
           /\ \A n \in 1..Len(s) : s[n] = Clone(Terminator(b)) <=> n = Len(s)
           /\ \A n, m \in 1..Len(s) : s[n] \in Phis /\ s[m] \notin Phis => n < m
           /\ Clone(Terminator(b)) \notin Phis
<1> DEFINE s == code[t][b]
           T == Clone(Terminator(b))
<1>1. Lists(s, Items(t, b)) /\ T \in Items(t, b) /\ b \in Block /\ IsProgram(prog)
  BY WorkerFacts
<1>2. \A x \in Items(t, b) :
        /\ x # T => Precedes(s, x, T)
        /\ x \in Phis => \A y \in Items(t, b) \ Phis : Precedes(s, x, y)
  BY DEF SInv, OrderInv, EndsInv, Finished, Copies
<1>3. T \notin Phis
  <2>1. Terminator(b) \notin DOMAIN prog.phi
    BY <1>1, InstrFacts, PhiFacts
  <2> QED
    BY <1>1, <2>1, PhiFacts
<1> HIDE DEF s, T
<1>4. /\ Len(s) \in Nat /\ \A n \in 1..Len(s) : s[n] \in Items(t, b)
      /\ \A n, m \in 1..Len(s) : s[n] = s[m] => n = m
  BY <1>1, ListFacts
<1>5. PICK m \in 1..Len(s) : s[m] = T
  BY <1>1, ListFacts
<1>6. Len(s) \in 1..Len(s)
  BY <1>4, <1>5
<1>7. s[Len(s)] = T
  <2> SUFFICES ASSUME s[Len(s)] # T PROVE FALSE
    OBVIOUS
  <2>1. Precedes(s, s[Len(s)], T)
    BY <1>2, <1>4, <1>6
  <2>2. PICK l, n \in 1..Len(s) : l < n /\ s[l] = s[Len(s)]
    BY <2>1 DEF Precedes
  <2>3. l = Len(s)
    BY <1>4, <1>6, <2>2
  <2> QED
    BY <1>4, <2>2, <2>3
<1>8. ASSUME NEW n \in 1..Len(s), NEW l \in 1..Len(s), s[n] \in Phis, s[l] \notin Phis PROVE n < l
  <2>1. Precedes(s, s[n], s[l])
    BY <1>2, <1>4, <1>8
  <2>2. PICK p, q \in 1..Len(s) : p < q /\ s[p] = s[n] /\ s[q] = s[l]
    BY <2>1 DEF Precedes
  <2> QED
    BY <1>4, <2>2
<1> QED
  BY <1>3, <1>4, <1>6, <1>7, <1>8 DEF s, T

-----------------------------------------------------------------------------
(* Where the workers are *)

\* How many blocks of the path worker t has entered or passed.
Where(t) ==
  IF at[t] = predecessor THEN 0
  ELSE IF at[t] = exit THEN Len(path) ELSE Place(at[t], visits[t][at[t]])

InBlock(t) ==
  /\ Where(t) \in 1..Len(path) /\ path[Where(t)] = at[t]
  /\ LastCopy(t, from[t], Where(t))
  /\ pc[t] \in 1..Len(code[t][at[t]])
  /\ pc[t] = 1 \/ \A n \in pc[t]..Len(code[t][at[t]]) : code[t][at[t]][n] \notin Phis

\* A worker goes through its copies of the blocks along the path.
AtInv(t) ==
  /\ at[t] \in Copies(t) \cup {predecessor, exit}
  /\ at[t] = predecessor => pc[t] = 1 /\ from[t] = predecessor
  /\ at[t] \in Block => InBlock(t)
  /\ Copies(t) = {} => at[t] = predecessor /\ t \in returned
  /\ t \in returned => Copies(t) = {} \/ at[t] = exit
  /\ visits[t] = [b \in Block |-> IF b \in Copies(t) THEN Met(b, Where(t)) ELSE 0]

ControlInv ==
  /\ at \in [Thread -> Copy] /\ from \in [Thread -> Block \cup {predecessor}]
  /\ pc \in [Thread -> Nat \ {0}] /\ returned \subseteq Thread /\ DOMAIN visits = Thread
  /\ path = <<>> => /\ returned = {}
                    /\ \A t \in Thread : /\ at[t] = predecessor /\ from[t] = predecessor /\ pc[t] = 1
                                         /\ visits[t] = [b \in Block |-> 0]
  /\ path # <<>> => phase = "done" /\ OnPath /\ \A t \in Thread : AtInv(t)

\* How often worker t has got past item x of block b.
Ahead(t, b, x) == at[t] = b /\ \E n \in pc[t]..Len(code[t][b]) : code[t][b][n] = x
Times(t, b, x) == visits[t][b] - (IF Ahead(t, b, x) THEN 1 ELSE 0)

\* A step gets worker t past the items in D of the block it is in.
Advances(t, D) ==
  \A q \in Thread : \A b \in Copies(q) : \A x \in Items(q, b) :
    Times(q, b, x)' = Times(q, b, x) + (IF q = t /\ b = at[t] /\ x \in D THEN 1 ELSE 0)

LEMMA WhereFacts ==
  ASSUME SInv, ControlInv, path # <<>>, NEW t \in Thread
  PROVE  /\ Where(t) \in 0..Len(path) /\ Len(path) \in Nat
         /\ \A b \in Copies(t) : /\ visits[t][b] = Met(b, Where(t)) /\ visits[t][b] \in Nat /\ b \in Block
                                 /\ at[t] = b => visits[t][b] = Met(b, Where(t) - 1) + 1
                                 /\ at[t] # b /\ Where(t) # 0 /\ at[t] # exit => Met(b, Where(t)) = Met(b, Where(t) - 1)
         /\ at[t] \in Block => at[t] \in Copies(t)
         /\ \A b \in Copies(t) : \A x : Times(t, b, x) \in Nat
<1>1. OnPath /\ AtInv(t) /\ phase = "done"
  BY DEF ControlInv
<1>2. Len(path) \in Nat /\ predecessor \notin Block /\ exit \notin Block
  BY <1>1, PathFacts
<1>3. Copies(t) \subseteq Block
  BY <1>1, WorkerFacts
<1>4. at[t] \in Block => at[t] \in Copies(t) /\ InBlock(t)
  BY <1>1, <1>2 DEF AtInv
<1>5. Where(t) \in 0..Len(path)
  <2>1. at[t] \in Block \cup {predecessor, exit}
    BY <1>1, <1>3 DEF AtInv
  <2>2. CASE at[t] \in Block
    BY <1>2, <1>4, <2>2 DEF InBlock
  <2>3. CASE at[t] \in {predecessor, exit}
    BY <1>2, <2>3 DEF Where
  <2> QED
    BY <2>1, <2>2, <2>3
<1>6. ASSUME NEW b \in Copies(t)
      PROVE  /\ visits[t][b] = Met(b, Where(t)) /\ visits[t][b] \in Nat
             /\ at[t] = b => visits[t][b] = Met(b, Where(t) - 1) + 1
             /\ at[t] # b /\ Where(t) # 0 /\ at[t] # exit => Met(b, Where(t)) = Met(b, Where(t) - 1)
  <2>1. visits[t][b] = Met(b, Where(t))
    BY <1>1, <1>3 DEF AtInv
  <2>1a. Where(t) \in Nat
    BY <1>2, <1>5
  <2>2. Where(t) \in Nat /\ Met(b, Where(t)) \in Nat
    BY <2>1a, MetFacts
  <2>3. ASSUME at[t] \in Block
        PROVE  Met(b, Where(t)) = Met(b, Where(t) - 1) + (IF at[t] = b THEN 1 ELSE 0)
    <3>1. Where(t) \in 1..Len(path) /\ path[Where(t)] = at[t]
      BY <1>4, <2>3 DEF InBlock
    <3>2. Where(t) - 1 \in Nat /\ (Where(t) - 1) + 1 = Where(t)
      BY <1>2, <3>1
    <3> QED
      BY <3>1, <3>2, MetFacts
  <2>4. at[t] # b /\ Where(t) # 0 /\ at[t] # exit => at[t] \in Block
    BY <1>1, <1>3 DEF AtInv, Where
  <2>5. at[t] = b => at[t] \in Block
    BY <1>3
  <2>6. Where(t) # 0 => Where(t) - 1 \in Nat
    BY <2>2
  <2>7. Where(t) # 0 => Met(b, Where(t) - 1) \in Nat
    BY <2>6, MetFacts
  <2>8. at[t] \in Block => Where(t) # 0
    BY <1>4 DEF InBlock
  <2> QED
    BY <2>1, <2>2, <2>3, <2>4, <2>5, <2>7, <2>8
<1>7. ASSUME NEW b \in Copies(t), NEW x PROVE Times(t, b, x) \in Nat
  <2>1. CASE Ahead(t, b, x)
    <3>1. at[t] = b /\ Where(t) \in 1..Len(path)
      BY <1>3, <1>4, <2>1 DEF Ahead, InBlock
    <3>1a. Where(t) - 1 \in Nat
      BY <1>2, <3>1
    <3>2. Met(b, Where(t) - 1) \in Nat /\ visits[t][b] = Met(b, Where(t) - 1) + 1
      BY <1>6, <3>1, <3>1a, MetFacts
    <3> QED
      BY <2>1, <3>2 DEF Times
  <2>2. CASE ~Ahead(t, b, x)
    BY <1>6, <2>2 DEF Times
  <2> QED
    BY <2>1, <2>2
<1> QED
  BY <1>2, <1>3, <1>4, <1>5, <1>6, <1>7
-----------------------------------------------------------------------------
(* Steps of a worker *)

LEMMA RunSame ==
  ASSUME UNCHANGED <<split, path>>
  PROVE  /\ UNCHANGED <<prog, phase, livein, liveout, code, target, instMap, stores, operand, channels>>
         /\ \A t : Copies(t)' = Copies(t)
         /\ \A t, b : Items(t, b)' = Items(t, b)
         /\ Phis' = Phis /\ Instr' = Instr /\ assigned' = assigned /\ allEdges' = allEdges
         /\ (OnPath' <=> OnPath) /\ (\A b, j : Met(b, j)' = Met(b, j) /\ Place(b, j)' = Place(b, j))
         /\ \A t, c, j : LastCopy(t, c, j)' <=> LastCopy(t, c, j)
<1>1. UNCHANGED <<prog, phase, livein, liveout, code, target, instMap, stores, operand, channels, path>>
  BY DEF split, live
<1>2. /\ Instr' = Instr /\ assigned' = assigned /\ allEdges' = allEdges
  BY <1>1, ProgramSame
<1>3. \A t : Copies(t)' = Copies(t)
  BY <1>1 DEF Copies
<1>4. \A t, b : Items(t, b)' = Items(t, b)
  BY <1>1, <1>2 DEF Items, Clones, Produces, Consumes
<1>5. Phis' = Phis
  BY <1>1 DEF Phis
<1>6. \A b, j : Met(b, j)' = Met(b, j)
  BY <1>1 DEF Met
<1>7. \A b, j : Place(b, j)' = Place(b, j)
  BY <1>1, <1>6 DEF Place
<1>8. OnPath' <=> OnPath
  BY <1>1 DEF OnPath, After
<1>9. \A t, c, j : LastCopy(t, c, j)' <=> LastCopy(t, c, j)
  BY <1>1, <1>3 DEF LastCopy, NoCopy
<1> QED
  BY <1>1, <1>2, <1>3, <1>4, <1>5, <1>6, <1>7, <1>8, <1>9

\* A worker that takes no step stays where it is.
LEMMA Stays ==
  ASSUME UNCHANGED <<split, path>>, NEW q, AtInv(q),
         at'[q] = at[q], pc'[q] = pc[q], from'[q] = from[q], visits'[q] = visits[q],
         q \in returned' <=> q \in returned
  PROVE  AtInv(q)' /\ Where(q)' = Where(q) /\ \A b, x : Times(q, b, x)' = Times(q, b, x)
<1>1. /\ UNCHANGED <<path, code>> /\ Copies(q)' = Copies(q) /\ Phis' = Phis
      /\ (\A b, j : Met(b, j)' = Met(b, j) /\ Place(b, j)' = Place(b, j))
      /\ \A t, c, j : LastCopy(t, c, j)' <=> LastCopy(t, c, j)
  BY RunSame
<1>2. Where(q)' = Where(q)
  BY <1>1 DEF Where
<1>3. InBlock(q)' <=> InBlock(q)
  BY <1>1, <1>2 DEF InBlock
<1>4. \A b, x : Times(q, b, x)' = Times(q, b, x)
  BY <1>1 DEF Times, Ahead
<1> QED
  BY <1>1, <1>2, <1>3, <1>4 DEF AtInv

\* What a step of worker t means for where the workers are.
Goes(t, D) ==
  /\ ControlInv' /\ path # <<>> /\ UNCHANGED <<split, path>> /\ Advances(t, D)
  /\ \A q \in Thread \ {t} : Where(q)' = Where(q) /\ at'[q] = at[q]

LEMMA GoesAlone ==
  ASSUME SInv, ControlInv, path # <<>>, UNCHANGED <<split, path>>, NEW t \in Thread, NEW D,
         \A q \in Thread \ {t} : /\ at'[q] = at[q] /\ pc'[q] = pc[q] /\ from'[q] = from[q]
                                 /\ visits'[q] = visits[q] /\ (q \in returned' <=> q \in returned),
         at' \in [Thread -> Copy], from' \in [Thread -> Block \cup {predecessor}],
         pc' \in [Thread -> Nat \ {0}], returned' \subseteq Thread, DOMAIN visits' = Thread,
         AtInv(t)',
         \A b \in Copies(t) : \A x \in Items(t, b) :
           Times(t, b, x)' = Times(t, b, x) + (IF b = at[t] /\ x \in D THEN 1 ELSE 0)
  PROVE  Goes(t, D)
<1>1. phase = "done" /\ OnPath /\ \A q \in Thread : AtInv(q)
  BY DEF ControlInv
<1>2. \A q \in Thread \ {t} : AtInv(q)' /\ Where(q)' = Where(q) /\ \A b, x : Times(q, b, x)' = Times(q, b, x)
  BY <1>1, Stays
<1>3. phase' = phase /\ OnPath' /\ \A q : Copies(q)' = Copies(q)
  BY <1>1, RunSame
<1>4. ControlInv'
  BY <1>1, <1>2, <1>3 DEF ControlInv
<1>5. Advances(t, D)
  <2> SUFFICES ASSUME NEW q \in Thread, NEW b \in Copies(q), NEW x \in Items(q, b)
               PROVE  Times(q, b, x)' = Times(q, b, x) + (IF q = t /\ b = at[t] /\ x \in D THEN 1 ELSE 0)
    BY DEF Advances
  <2>1. CASE q = t
    BY <2>1
  <2>2. CASE q # t
    <3>1. Times(q, b, x)' = Times(q, b, x) /\ Times(q, b, x) \in Nat
      BY <1>2, <2>2, WhereFacts
    <3> QED
      BY <2>2, <3>1
  <2> QED
    BY <2>1, <2>2
<1> QED
  BY <1>2, <1>4, <1>5 DEF Goes

\* The item at hand.
LEMMA ItemFacts ==
  ASSUME SInv, ControlInv, NEW t \in Thread, Running(t)
  PROVE  /\ phase = "done" /\ OnPath /\ AtInv(t) /\ InBlock(t) /\ at[t] \in Copies(t)
         /\ Lists(code[t][at[t]], Items(t, at[t])) /\ Len(code[t][at[t]]) \in Nat
         /\ item(t) \in Items(t, at[t]) /\ Ahead(t, at[t], item(t))
         /\ now(t) = Met(at[t], Where(t)) /\ Times(t, at[t], item(t)) = now(t) - 1
         /\ now(t) \in Nat \ {0}
<1>1. phase = "done" /\ OnPath /\ AtInv(t) /\ path # <<>> /\ at[t] \in Block
  BY DEF Running, ControlInv
<1>2. at[t] \in Copies(t) /\ InBlock(t)
  BY <1>1, WhereFacts DEF AtInv
<1>3. Lists(code[t][at[t]], Items(t, at[t]))
  BY <1>1, <1>2, WorkerFacts
<1>4. Len(code[t][at[t]]) \in Nat /\ item(t) \in Items(t, at[t])
  BY <1>2, <1>3, ListFacts DEF item, InBlock
<1>5. Ahead(t, at[t], item(t))
  BY <1>2, <1>4 DEF Ahead, item, InBlock
<1>6. visits[t][at[t]] = Met(at[t], Where(t)) /\ visits[t][at[t]] = Met(at[t], Where(t) - 1) + 1
  BY <1>1, <1>2, WhereFacts
<1>7. Where(t) - 1 \in Nat
  BY <1>1, <1>2 DEF InBlock, OnPath
<1>8. Met(at[t], Where(t) - 1) \in Nat
  BY <1>7, MetFacts
<1> QED
  BY <1>1, <1>2, <1>3, <1>4, <1>5, <1>6, <1>8 DEF now, Times

\* The next item.
LEMMA GoOn ==
  ASSUME SInv, ControlInv, NEW t \in Thread, Running(t),
         item(t) # Clone(Terminator(at[t])), item(t) \notin Phis,
         UNCHANGED <<split, path, at, returned, from, visits>>, pc' = [pc EXCEPT ![t] = @ + 1]
  PROVE  Goes(t, {item(t)})
<1> DEFINE b == at[t]
           s == code[t][b]
<1>1. /\ phase = "done" /\ OnPath /\ AtInv(t) /\ InBlock(t) /\ b \in Copies(t) /\ b \in Block /\ path # <<>>
      /\ Lists(s, Items(t, b)) /\ item(t) \in Items(t, b) /\ Ahead(t, b, item(t))
      /\ Times(t, b, item(t)) = now(t) - 1 /\ now(t) \in Nat
  BY ItemFacts DEF Running
<1>2. /\ Len(s) \in Nat \ {0}
      /\ \A n \in 1..Len(s) : s[n] = Clone(Terminator(b)) <=> n = Len(s)
      /\ \A n, m \in 1..Len(s) : s[n] \in Phis /\ s[m] \notin Phis => n < m
  BY <1>1, BlockEnds
<1>3. pc[t] \in 1..Len(s) /\ s[pc[t]] = item(t)
  BY <1>1 DEF InBlock, item
<1>4. pc \in [Thread -> Nat \ {0}]
  BY DEF ControlInv
<1>5. pc'[t] = pc[t] + 1 /\ \A q \in Thread \ {t} : pc'[q] = pc[q]
  BY <1>4
<1>6. pc' \in [Thread -> Nat \ {0}]
  BY <1>4
<1>7. pc'[t] \in 1..Len(s)
  <2>1. pc[t] # Len(s)
    BY <1>2, <1>3
  <2> QED
    BY <1>2, <1>3, <1>5, <2>1
<1>8. \A n \in pc'[t]..Len(s) : s[n] \notin Phis
  <2> SUFFICES ASSUME NEW n \in pc'[t]..Len(s), s[n] \in Phis PROVE FALSE
    OBVIOUS
  <2>1. n \in 1..Len(s) /\ pc[t] < n
    BY <1>2, <1>3, <1>5
  <2>2. n < pc[t]
    BY <1>2, <1>3, <2>1
  <2> QED
    BY <1>3, <2>1, <2>2
<1>9. /\ UNCHANGED <<path, code>> /\ Copies(t)' = Copies(t) /\ Phis' = Phis /\ b' = b
      /\ (\A a, j : Met(a, j)' = Met(a, j) /\ Place(a, j)' = Place(a, j))
      /\ \A c, j : LastCopy(t, c, j)' <=> LastCopy(t, c, j)
  BY RunSame
<1>10. Where(t)' = Where(t)
  BY <1>9 DEF Where
<1>11. InBlock(t)'
  BY <1>1, <1>7, <1>8, <1>9, <1>10 DEF InBlock
<1>12. b # predecessor /\ b # exit
  BY <1>1, PathFacts
<1>13. AtInv(t)'
  BY <1>1, <1>9, <1>10, <1>11, <1>12 DEF AtInv
<1>14. ASSUME NEW a \in Copies(t), NEW x \in Items(t, a)
       PROVE  Times(t, a, x)' = Times(t, a, x) + (IF a = at[t] /\ x \in {item(t)} THEN 1 ELSE 0)
  <2>1. visits[t][a] \in Nat
    BY <1>1, WhereFacts
  <2>2. CASE a # b
    BY <1>9, <2>1, <2>2 DEF Times, Ahead
  <2>3. CASE a = b /\ x = item(t)
    <3>1. \A n \in 1..Len(s) : s[n] = x => n = pc[t]
      BY <1>1, <1>3, <2>3, ListFacts
    <3>2. ~Ahead(t, a, x)'
      <4> SUFFICES ASSUME NEW n \in pc'[t]..Len(s), s[n] = x PROVE FALSE
        BY <1>9, <2>3 DEF Ahead
      <4>1. n \in 1..Len(s) /\ n # pc[t]
        BY <1>2, <1>3, <1>5
      <4> QED
        BY <3>1, <4>1
    <3> QED
      BY <1>1, <2>1, <2>3, <3>2 DEF Times
  <2>4. CASE a = b /\ x # item(t)
    <3>1. Ahead(t, a, x)' <=> Ahead(t, a, x)
      <4>1. \A n : n \in pc[t]..Len(s) /\ n # pc[t] <=> n \in pc'[t]..Len(s)
        BY <1>2, <1>3, <1>5
      <4>2. (\E n \in pc[t]..Len(s) : s[n] = x) <=> (\E n \in pc'[t]..Len(s) : s[n] = x)
        BY <1>3, <2>4, <4>1
      <4> QED
        BY <1>9, <2>4, <4>2 DEF Ahead
    <3> QED
      BY <2>1, <2>4, <3>1 DEF Times
  <2> QED
    BY <2>2, <2>3, <2>4
<1>15. /\ at \in [Thread -> Copy] /\ from \in [Thread -> Block \cup {predecessor}]
       /\ returned \subseteq Thread /\ DOMAIN visits = Thread /\ Copy' = Copy
  BY DEF ControlInv, Copy
<1> QED
  BY <1>1, <1>5, <1>6, <1>13, <1>14, <1>15, GoesAlone

\* Past the phi nodes.
LEMMA GoPhis ==
  ASSUME SInv, ControlInv, NEW t \in Thread, Running(t), item(t) \in Phis,
         UNCHANGED <<split, path, at, returned, from, visits>>,
         pc' = [pc EXCEPT ![t] = getFirstNonPHI(code[t][at[t]])]
  PROVE  Goes(t, Phis) /\ pc[t] = 1
<1> DEFINE b == at[t]
           s == code[t][b]
           first == getFirstNonPHI(s)
<1>1. /\ phase = "done" /\ OnPath /\ AtInv(t) /\ InBlock(t) /\ b \in Copies(t) /\ b \in Block /\ path # <<>>
      /\ Lists(s, Items(t, b))
  BY ItemFacts DEF Running
<1>2. /\ Len(s) \in Nat \ {0} /\ DOMAIN s = 1..Len(s)
      /\ \A n \in 1..Len(s) : s[n] = Clone(Terminator(b)) <=> n = Len(s)
      /\ \A n, m \in 1..Len(s) : s[n] \in Phis /\ s[m] \notin Phis => n < m
      /\ Clone(Terminator(b)) \notin Phis
  BY <1>1, BlockEnds, ListFacts
<1>3. pc[t] \in 1..Len(s) /\ s[pc[t]] \in Phis
  BY <1>1 DEF InBlock, item
<1>4. pc[t] = 1
  BY <1>1, <1>3 DEF InBlock
<1>5. pc \in [Thread -> Nat \ {0}]
  BY DEF ControlInv
<1>6. first \in 1..Len(s) /\ s[first] \notin Phis /\ \A m \in 1..first - 1 : s[m] \in Phis
  <2> DEFINE S == {n \in Nat : n \in 1..Len(s) /\ s[n] \notin Phis}
  <2>1. Len(s) \in S
    BY <1>2
  <2>2. PICK n \in S : \A m \in S : m >= n
    BY <2>1, Least
  <2>3. n \in DOMAIN s /\ s[n] \notin Phis /\ \A m \in 1..n - 1 : s[m] \in Phis
    <3> SUFFICES ASSUME NEW m \in 1..n - 1, s[m] \notin Phis PROVE FALSE
      BY <1>2
    <3>1. m \in S /\ ~(m >= n)
      BY <1>2
    <3> QED
      BY <2>2, <3>1
  <2> HIDE DEF s, S
  <2> QED
    BY <1>2, <2>3 DEF getFirstNonPHI
<1>7. pc'[t] = first /\ (\A q \in Thread \ {t} : pc'[q] = pc[q]) /\ pc' \in [Thread -> Nat \ {0}]
  BY <1>2, <1>5, <1>6
<1> HIDE DEF first
<1>8. \A n \in first..Len(s) : s[n] \notin Phis
  <2> SUFFICES ASSUME NEW n \in first..Len(s), s[n] \in Phis PROVE FALSE
    OBVIOUS
  <2>1. n \in 1..Len(s)
    BY <1>2, <1>6
  <2>2. n < first
    BY <1>2, <1>6, <2>1
  <2> QED
    BY <1>6, <2>1, <2>2
<1>9. /\ UNCHANGED <<path, code>> /\ Copies(t)' = Copies(t) /\ Phis' = Phis /\ b' = b
      /\ (\A a, j : Met(a, j)' = Met(a, j) /\ Place(a, j)' = Place(a, j))
      /\ \A c, j : LastCopy(t, c, j)' <=> LastCopy(t, c, j)
  BY RunSame
<1>10. Where(t)' = Where(t)
  BY <1>9 DEF Where
<1>11. InBlock(t)'
  BY <1>1, <1>6, <1>7, <1>8, <1>9, <1>10 DEF InBlock
<1>12. b # predecessor /\ b # exit
  BY <1>1, PathFacts
<1>13. AtInv(t)'
  BY <1>1, <1>9, <1>10, <1>11, <1>12 DEF AtInv
<1>14. ASSUME NEW a \in Copies(t), NEW x \in Items(t, a)
       PROVE  Times(t, a, x)' = Times(t, a, x) + (IF a = at[t] /\ x \in Phis THEN 1 ELSE 0)
  <2>1. visits[t][a] \in Nat
    BY <1>1, WhereFacts
  <2>2. CASE a # b
    BY <1>9, <2>1, <2>2 DEF Times, Ahead
  <2>3. CASE a = b
    <3>1. PICK m \in 1..Len(s) : s[m] = x
      BY <1>1, <2>3, ListFacts
    <3>2. Ahead(t, a, x)
      BY <1>4, <2>3, <3>1 DEF Ahead
    <3>3. Ahead(t, a, x)' <=> x \notin Phis
      <4>1. CASE x \in Phis
        BY <1>7, <1>8, <1>9, <2>3, <4>1 DEF Ahead
      <4>2. CASE x \notin Phis
        <5>1. m \in first..Len(s)
          BY <1>2, <1>6, <3>1, <4>2
        <5> QED
          BY <1>7, <1>9, <2>3, <3>1, <4>2, <5>1 DEF Ahead
      <4> QED
        BY <4>1, <4>2
    <3> QED
      BY <1>9, <2>1, <2>3, <3>2, <3>3 DEF Times
  <2> QED
    BY <2>2, <2>3
<1>15. /\ at \in [Thread -> Copy] /\ from \in [Thread -> Block \cup {predecessor}]
       /\ returned \subseteq Thread /\ DOMAIN visits = Thread /\ Copy' = Copy
  BY DEF ControlInv, Copy
<1>16. Goes(t, Phis)
  BY <1>1, <1>7, <1>13, <1>14, <1>15, GoesAlone
<1> QED
  BY <1>4, <1>16

\* A worker that comes to the m-th block of the path, or to the end of it.
LEMMA Arrives ==
  ASSUME SInv, ControlInv, path # <<>>, NEW t \in Thread,
         NEW m \in 1..Len(path) + 1, NoCopy(t, Where(t) + 1, m - 1), Where(t) < m,
         m <= Len(path) => path[m] \in Copies(t),
         LastCopy(t, from'[t], m) \/ m = Len(path) + 1,
         UNCHANGED <<split, path, returned>>, t \notin returned, pc'[t] = 1,
         at'[t] = NodeAt(m),
         visits'[t] = [b \in Block |-> visits[t][b] + (IF b = NodeAt(m) THEN 1 ELSE 0)]
  PROVE  /\ AtInv(t)' /\ at'[t] # predecessor
         /\ \A b \in Copies(t) : \A x \in Items(t, b) :
              Times(t, b, x)' = visits[t][b]
<1>1. phase = "done" /\ OnPath /\ AtInv(t) /\ Copies(t) \subseteq Block /\ Copies(t) # {}
  BY WorkerFacts DEF ControlInv, AtInv
<1>2. /\ Where(t) \in Nat /\ Len(path) \in Nat /\ m \in Nat /\ m - 1 \in Nat /\ Where(t) <= m - 1
      /\ exit \notin Block /\ predecessor \notin Block /\ predecessor # exit
      /\ NodeAt(m) \in Block \cup {exit} /\ NodeAt(m) # predecessor
      /\ m <= Len(path) => NodeAt(m) = path[m] /\ path[m] \in Block
      /\ m > Len(path) => NodeAt(m) = exit /\ m - 1 = Len(path)
  <2>1. Where(t) \in 0..Len(path) /\ Len(path) \in Nat
    BY WhereFacts
  <2>2. /\ exit \notin Block /\ predecessor \notin Block /\ predecessor # exit
        /\ NodeAt(m) \in Block \cup {exit} /\ NodeAt(m) # predecessor
        /\ m <= Len(path) => path[m] \in Block
    BY <1>1, <2>1, PathFacts
  <2> QED
    BY <2>1, <2>2 DEF NodeAt
<1>3. ASSUME NEW b \in Copies(t)
      PROVE  /\ visits[t][b] = Met(b, m - 1) /\ visits[t][b] \in Nat
             /\ m <= Len(path) => visits'[t][b] = Met(b, m)
             /\ m > Len(path) => visits'[t][b] = Met(b, Len(path)) /\ visits'[t][b] = visits[t][b]
  <2>1. visits[t][b] = Met(b, Where(t)) /\ visits[t][b] \in Nat
    BY WhereFacts
  <2>2. Met(b, Where(t)) = Met(b, m - 1)
    <3> DEFINE W == {n \in Nat : Where(t) + n <= m - 1 => Met(b, Where(t) + n) = Met(b, Where(t))}
    <3>1. 0 \in W
      BY <1>2
    <3>2. ASSUME NEW n \in Nat, n \in W PROVE n + 1 \in W
      <4> SUFFICES ASSUME Where(t) + (n + 1) <= m - 1 PROVE Met(b, Where(t) + (n + 1)) = Met(b, Where(t))
        OBVIOUS
      <4>1. Met(b, Where(t) + n) = Met(b, Where(t)) /\ Where(t) + n \in Nat
        BY <1>2, <3>2
      <4>2. (Where(t) + n) + 1 = Where(t) + (n + 1) /\ Where(t) + (n + 1) \in Where(t) + 1..m - 1
        BY <1>2
      <4>3. path[Where(t) + (n + 1)] # b
        BY <4>2 DEF NoCopy
      <4>4. Met(b, (Where(t) + n) + 1) = Met(b, Where(t) + n) + (IF path[(Where(t) + n) + 1] = b THEN 1 ELSE 0)
        BY <4>1, MetFacts
      <4>5. Met(b, Where(t) + n) \in Nat
        BY <4>1, MetFacts
      <4> QED
        BY <4>1, <4>2, <4>3, <4>4, <4>5
    <3>3. (m - 1) - Where(t) \in Nat /\ Where(t) + ((m - 1) - Where(t)) = m - 1
      BY <1>2
    <3>4. (m - 1) - Where(t) \in W
      <4> HIDE DEF W
      <4> QED
        BY <3>1, <3>2, <3>3, SetInduction
    <3> QED
      BY <3>3, <3>4
  <2>3. visits'[t][b] = visits[t][b] + (IF b = NodeAt(m) THEN 1 ELSE 0)
    BY <1>1
  <2>4. m <= Len(path) => visits'[t][b] = Met(b, m)
    <3>1. Met(b, (m - 1) + 1) = Met(b, m - 1) + (IF path[(m - 1) + 1] = b THEN 1 ELSE 0)
      BY <1>2, MetFacts
    <3>2. (m - 1) + 1 = m
      BY <1>2
    <3> QED
      BY <1>2, <2>1, <2>2, <2>3, <3>1, <3>2
  <2>5. m > Len(path) => visits'[t][b] = visits[t][b]
    BY <1>1, <1>2, <2>1, <2>3
  <2> QED
    BY <1>2, <2>1, <2>2, <2>4, <2>5
<1>4. /\ UNCHANGED <<path, code>> /\ Copies(t)' = Copies(t) /\ Phis' = Phis
      /\ (\A a, j : Met(a, j)' = Met(a, j) /\ Place(a, j)' = Place(a, j))
      /\ \A c, j : LastCopy(t, c, j)' <=> LastCopy(t, c, j)
      /\ \A a : Items(t, a)' = Items(t, a)
  BY RunSame
<1>5. Where(t)' = IF m <= Len(path) THEN m ELSE Len(path)
  <2>1. CASE m <= Len(path)
    <3>1. at'[t] = path[m] /\ path[m] \in Copies(t) /\ at'[t] # exit /\ at'[t] # predecessor
      BY <1>2, <2>1
    <3>2. visits'[t][at'[t]] = Met(at'[t], m)
      BY <1>3, <2>1, <3>1
    <3>3. Place(at'[t], Met(at'[t], m)) = m
      <4>1. \A b : \A j \in 1..Len(path) : path[j] = b => Place(b, Met(b, j)) = j
        BY <1>1, PlaceFacts
      <4>2. m \in 1..Len(path) /\ path[m] = at'[t]
        BY <1>2, <2>1, <3>1
      <4> QED
        BY <4>1, <4>2
    <3>4. Where(t)' = Place(at'[t], visits'[t][at'[t]])
      BY <1>4, <3>1 DEF Where
    <3> QED
      BY <2>1, <3>2, <3>3, <3>4
  <2>2. CASE ~(m <= Len(path))
    BY <1>2, <1>4, <2>2 DEF Where
  <2> QED
    BY <2>1, <2>2
<1>6. at'[t] \in Copies(t) \cup {predecessor, exit} /\ at'[t] # predecessor
  BY <1>2
<1>7. visits'[t] = [b \in Block |-> IF b \in Copies(t) THEN Met(b, Where(t)') ELSE 0]
  <2>1. ASSUME NEW b \in Block PROVE visits'[t][b] = IF b \in Copies(t) THEN Met(b, Where(t)') ELSE 0
    <3>1. CASE b \in Copies(t)
      <4>1. CASE m <= Len(path)
        BY <1>3, <1>5, <3>1, <4>1
      <4>2. CASE m > Len(path)
        <5>1. Where(t)' = Len(path)
          BY <1>2, <1>5, <4>2
        <5>2. visits'[t][b] = Met(b, Len(path))
          BY <1>3, <3>1, <4>2
        <5> QED
          BY <3>1, <5>1, <5>2
      <4> QED
        BY <1>2, <4>1, <4>2
    <3>2. CASE b \notin Copies(t)
      <4>1. visits[t][b] = 0
        BY <1>1, <3>2 DEF AtInv
      <4>2. b # NodeAt(m)
        BY <1>2, <3>2
      <4> QED
        BY <3>2, <4>1, <4>2
    <3> QED
      BY <3>1, <3>2
  <2> QED
    BY <2>1
<1>8. at'[t] \in Block => InBlock(t)'
  <2> SUFFICES ASSUME at'[t] \in Block PROVE InBlock(t)'
    OBVIOUS
  <2>1. m <= Len(path)
    BY <1>2
  <2>2. Where(t)' = m /\ path[m] = at'[t] /\ LastCopy(t, from'[t], m) /\ m \in 1..Len(path) /\ at'[t] \in Copies(t)
    BY <1>2, <1>5, <2>1
  <2>3. Len(code[t][at'[t]]) \in Nat \ {0}
    BY <1>1, <2>2, BlockEnds
  <2> QED
    BY <1>4, <2>2, <2>3 DEF InBlock
<1>9. AtInv(t)'
  BY <1>1, <1>4, <1>6, <1>7, <1>8 DEF AtInv
<1>10. ASSUME NEW b \in Copies(t), NEW x \in Items(t, b) PROVE Times(t, b, x)' = visits[t][b]
  <2>0. /\ visits'[t][b] = visits[t][b] + (IF b = at'[t] THEN 1 ELSE 0)
        /\ visits[t][b] \in Nat
        /\ Times(t, b, x)' = visits'[t][b] - (IF Ahead(t, b, x)' THEN 1 ELSE 0)
    BY <1>1, <1>3 DEF Times
  <2>1. CASE b = at'[t]
    <3>1. visits'[t][b] = visits[t][b] + 1
      BY <2>0, <2>1
    <3>2. Lists(code[t][b], Items(t, b))
      BY <1>1, WorkerFacts
    <3>3. \E n \in 1..Len(code[t][b]) : code[t][b][n] = x
      BY <3>2, ListFacts
    <3>4. Ahead(t, b, x)'
      BY <1>4, <2>1, <3>3 DEF Ahead
    <3> QED
      BY <2>0, <3>1, <3>4
  <2>2. CASE b # at'[t]
    <3>1. visits'[t][b] = visits[t][b]
      BY <2>0, <2>2
    <3>2. ~Ahead(t, b, x)'
      BY <2>2 DEF Ahead
    <3> QED
      BY <2>0, <3>1, <3>2
  <2> QED
    BY <2>1, <2>2
<1> QED
  BY <1>6, <1>9, <1>10

-----------------------------------------------------------------------------
LEMMA GoEnter ==
  ASSUME SInv, ControlInv, path # <<>>, NEW t \in Thread, at[t] = predecessor, t \notin returned,
         UNCHANGED <<split, path, returned, pc, from>>, at' = [at EXCEPT ![t] = header],
         visits' = [visits EXCEPT ![t][header] = 1]
  PROVE  Goes(t, {}) /\ at'[t] = header
<1>1. phase = "done" /\ OnPath /\ AtInv(t) /\ Where(t) = 0 /\ path[1] = header /\ Len(path) \in Nat /\ Len(path) >= 1
  BY DEF ControlInv, Where, OnPath
<1>2. Copies(t) # {} /\ header \in Copies(t) /\ Copies(t) \subseteq Block
  BY <1>1, WorkerFacts DEF AtInv
<1>3. /\ at \in [Thread -> Copy] /\ from \in [Thread -> Block \cup {predecessor}]
      /\ pc \in [Thread -> Nat \ {0}] /\ returned \subseteq Thread /\ DOMAIN visits = Thread
  BY DEF ControlInv
<1>4. header \in Block /\ predecessor \notin Block /\ exit \notin Block /\ NodeAt(1) = header
  BY <1>1, PathFacts DEF NodeAt
<1>5. at'[t] = header /\ \A q \in Thread \ {t} : at'[q] = at[q] /\ visits'[q] = visits[q]
  BY <1>3
<1>6. at' \in [Thread -> Copy] /\ DOMAIN visits' = Thread
  BY <1>3, <1>4 DEF Copy
<1>7. pc'[t] = 1 /\ from'[t] = predecessor
  BY <1>1 DEF AtInv
<1>8. NoCopy(t, Where(t) + 1, 1 - 1) /\ LastCopy(t, from'[t], 1)
  <2>1. 1..0 = {} /\ 0 \in 0..1 - 1
    OBVIOUS
  <2> QED
    BY <1>1, <1>7, <2>1 DEF NoCopy, LastCopy
<1>9. visits[t] = [b \in Block |-> IF b \in Copies(t) THEN Met(b, 0) ELSE 0]
  BY <1>1 DEF AtInv
<1>10. visits[t] = [b \in Block |-> 0]
  <2>1. \A b \in Block : Met(b, 0) = 0
    BY MetFacts
  <2> QED
    BY <1>9, <2>1
<1>11. visits'[t] = [b \in Block |-> visits[t][b] + (IF b = NodeAt(1) THEN 1 ELSE 0)]
  BY <1>3, <1>4, <1>10
<1>12. AtInv(t)' /\ \A b \in Copies(t) : \A x \in Items(t, b) : Times(t, b, x)' = visits[t][b]
  <2>1. 1 \in 1..Len(path) + 1 /\ Where(t) < 1 /\ (1 <= Len(path) => path[1] \in Copies(t))
    BY <1>1, <1>2
  <2>2. at'[t] = NodeAt(1)
    BY <1>4, <1>5
  <2>3. NoCopy(t, Where(t) + 1, 1 - 1) /\ LastCopy(t, from'[t], 1)
    BY <1>8
  <2> DEFINE m == 1
  <2> HIDE DEF m
  <2>4. m = 1
    BY DEF m
  <2>5. /\ m \in 1..Len(path) + 1 /\ Where(t) < m /\ (m <= Len(path) => path[m] \in Copies(t))
        /\ at'[t] = NodeAt(m) /\ NoCopy(t, Where(t) + 1, m - 1) /\ LastCopy(t, from'[t], m)
        /\ visits'[t] = [b \in Block |-> visits[t][b] + (IF b = NodeAt(m) THEN 1 ELSE 0)]
    BY <1>11, <2>1, <2>2, <2>3, <2>4
  <2> QED
    BY <1>7, <2>5, Arrives
<1>13. \A b \in Copies(t) : \A x \in Items(t, b) :
         Times(t, b, x)' = Times(t, b, x) + (IF b = at[t] /\ x \in {} THEN 1 ELSE 0)
  <2> SUFFICES ASSUME NEW b \in Copies(t), NEW x \in Items(t, b)
               PROVE  Times(t, b, x)' = Times(t, b, x)
    <3>1. \A b \in Copies(t) : \A x : Times(t, b, x) \in Nat
      BY WhereFacts
    <3> QED
      BY <3>1
  <2>1. ~Ahead(t, b, x)
    BY <1>2, <1>4 DEF Ahead
  <2>2. visits[t][b] \in Nat
    BY WhereFacts
  <2> QED
    BY <1>12, <2>1, <2>2 DEF Times
<1>14. /\ from' \in [Thread -> Block \cup {predecessor}] /\ pc' \in [Thread -> Nat \ {0}]
       /\ returned' \subseteq Thread
       /\ \A q \in Thread \ {t} : /\ at'[q] = at[q] /\ pc'[q] = pc[q] /\ from'[q] = from[q]
                                  /\ visits'[q] = visits[q] /\ (q \in returned' <=> q \in returned)
  BY <1>3, <1>5
<1> DEFINE D == {}
<1>15. \A b \in Copies(t) : \A x \in Items(t, b) :
         Times(t, b, x)' = Times(t, b, x) + (IF b = at[t] /\ x \in D THEN 1 ELSE 0)
  BY <1>13
<1> HIDE DEF D
<1>16. Goes(t, D)
  BY <1>6, <1>12, <1>14, <1>15, GoesAlone
<1> QED
  BY <1>5, <1>16 DEF D

\* The worker that returns has been through the whole path.
LEMMA GoLeave ==
  ASSUME SInv, ControlInv, NEW t \in Thread, at[t] = exit, t \notin returned,
         UNCHANGED <<split, path, at, pc, from, visits>>, returned' = returned \cup {t}
  PROVE  Goes(t, {}) /\ path # <<>>
<1>0. phase # "done" \/ path = <<>> => path = <<>>
  BY DEF ControlInv
<1>1. path # <<>>
  <2> SUFFICES ASSUME path = <<>> PROVE FALSE
    OBVIOUS
  <2>1. at[t] = predecessor
    BY DEF ControlInv
  <2>2. predecessor # exit
    BY LoopAssumption DEF predecessor, exit
  <2> QED
    BY <2>1, <2>2
<1>2. phase = "done" /\ OnPath /\ AtInv(t)
  BY <1>1 DEF ControlInv
<1>3. /\ at \in [Thread -> Copy] /\ from \in [Thread -> Block \cup {predecessor}]
      /\ pc \in [Thread -> Nat \ {0}] /\ returned \subseteq Thread /\ DOMAIN visits = Thread
  BY DEF ControlInv
<1>4. predecessor # exit /\ exit \notin Block
  BY <1>2, PathFacts
<1>5. /\ UNCHANGED <<path, code>> /\ Copies(t)' = Copies(t) /\ Phis' = Phis
      /\ (\A a, j : Met(a, j)' = Met(a, j) /\ Place(a, j)' = Place(a, j))
  BY RunSame
<1>6. Where(t)' = Where(t)
  BY <1>5 DEF Where
<1>7. AtInv(t)'
  BY <1>2, <1>3, <1>4, <1>5, <1>6 DEF AtInv
<1>8. ASSUME NEW b \in Copies(t), NEW x \in Items(t, b)
      PROVE  Times(t, b, x)' = Times(t, b, x) + (IF b = at[t] /\ x \in {} THEN 1 ELSE 0)
  <2>1. Times(t, b, x) \in Nat
    BY <1>1, WhereFacts
  <2>2. Times(t, b, x)' = Times(t, b, x)
    BY <1>5 DEF Times, Ahead
  <2> QED
    BY <2>1, <2>2
<1> DEFINE D == {}
<1>9. \A b \in Copies(t) : \A x \in Items(t, b) :
         Times(t, b, x)' = Times(t, b, x) + (IF b = at[t] /\ x \in D THEN 1 ELSE 0)
  BY <1>8
<1>10. /\ at' \in [Thread -> Copy] /\ from' \in [Thread -> Block \cup {predecessor}]
       /\ pc' \in [Thread -> Nat \ {0}] /\ returned' \subseteq Thread /\ DOMAIN visits' = Thread
       /\ \A q \in Thread \ {t} : /\ at'[q] = at[q] /\ pc'[q] = pc[q] /\ from'[q] = from[q]
                                  /\ visits'[q] = visits[q] /\ (q \in returned' <=> q \in returned)
  BY <1>3 DEF Copy
<1> HIDE DEF D
<1>11. Goes(t, D)
  BY <1>1, <1>7, <1>9, <1>10, GoesAlone
<1> QED
  BY <1>1, <1>11 DEF D

\* The item is the branch of its block: there is no other terminator in it.
LEMMA BranchItem ==
  ASSUME SInv, ControlInv, NEW t \in Thread, Running(t), item(t)[1] = "clone"
  PROVE  /\ item(t) = Clone(inst(t)) /\ inst(t) \in instMap[t] /\ inst(t) \in Instr /\ parent(inst(t)) = at[t]
         /\ isTerminator(prog, inst(t)) <=> inst(t) = Terminator(at[t])
<1>1. /\ phase = "done" /\ OnPath /\ at[t] \in Copies(t) /\ item(t) \in Items(t, at[t]) /\ at[t] \in Block
  BY ItemFacts DEF Running
<1>2. item(t) \in Clones(t, at[t])
  BY <1>1 DEF Items, Produces, Consumes, Produce, Consume
<1>3. PICK x \in instMap[t] : parent(x) = at[t] /\ item(t) = Clone(x)
  BY <1>2 DEF Clones
<1>4. inst(t) = x
  BY <1>3 DEF inst, Clone
<1>5. IInv /\ IsProgram(prog)
  BY <1>1, PathFacts DEF SInv
<1>6. x \in Instr
  BY <1>3, <1>5, CloneThere
<1> QED
  BY <1>1, <1>3, <1>4, <1>5, <1>6, InstrFacts

LEMMA GoBranch ==
  ASSUME SInv, ControlInv, NEW t \in Thread, Running(t), item(t)[1] = "clone", isTerminator(prog, inst(t)),
         NEW to, to = target[t][inst(t)][After(Place(at[t], now(t)))],
         UNCHANGED <<split, path, returned>>, at' = [at EXCEPT ![t] = to],
         visits' = IF to = exit THEN visits ELSE [visits EXCEPT ![t][to] = @ + 1],
         from' = [from EXCEPT ![t] = at[t]], pc' = [pc EXCEPT ![t] = 1]
  PROVE  Goes(t, {item(t)}) /\ at'[t] # predecessor
<1> DEFINE b == at[t]
           s == code[t][b]
           w == Where(t)
<1>1. /\ phase = "done" /\ OnPath /\ AtInv(t) /\ InBlock(t) /\ b \in Copies(t) /\ b \in Block /\ path # <<>>
      /\ Lists(s, Items(t, b)) /\ item(t) \in Items(t, b) /\ Times(t, b, item(t)) = now(t) - 1
      /\ now(t) = Met(b, w) /\ now(t) \in Nat \ {0}
  BY ItemFacts DEF Running
<1>2. inst(t) = Terminator(b) /\ item(t) = Clone(Terminator(b))
  BY BranchItem
<1>3. /\ Len(s) \in Nat \ {0}
      /\ \A n \in 1..Len(s) : s[n] = Clone(Terminator(b)) <=> n = Len(s)
  BY <1>1, BlockEnds
<1>4. pc[t] \in 1..Len(s) /\ s[pc[t]] = item(t)
  BY <1>1 DEF InBlock, item
<1>5. pc[t] = Len(s)
  BY <1>2, <1>3, <1>4
<1>6. /\ at \in [Thread -> Copy] /\ from \in [Thread -> Block \cup {predecessor}]
      /\ pc \in [Thread -> Nat \ {0}] /\ returned \subseteq Thread /\ DOMAIN visits = Thread
  BY DEF ControlInv
<1>7. w \in 1..Len(path) /\ path[w] = b /\ Len(path) \in Nat /\ Place(b, now(t)) = w
  <2>1. w \in 1..Len(path) /\ path[w] = b /\ Len(path) \in Nat
    BY <1>1 DEF InBlock, OnPath
  <2>2. \A a : \A j \in 1..Len(path) : path[j] = a => Place(a, Met(a, j)) = j
    BY <1>1, PlaceFacts
  <2> QED
    BY <1>1, <2>1, <2>2
<1>8. b # predecessor /\ b # exit /\ exit \notin Block /\ predecessor \notin Block
  BY <1>1, PathFacts
<1> HIDE DEF w
<1>9. PICK m \in w + 1..Len(path) + 1 :
        /\ target[t][Terminator(path[w])][After(w)] = NodeAt(m)
        /\ m <= Len(path) => path[m] \in Copies(t)
        /\ NoCopy(t, w + 1, m - 1)
  BY <1>1, <1>7, NextCopy
<1>10. to = NodeAt(m)
  BY <1>2, <1>7, <1>9
<1>11. /\ m \in 1..Len(path) + 1 /\ w < m /\ w \in 0..m - 1 /\ w # 0 /\ m \in Nat
       /\ (m = Len(path) + 1 \/ m <= Len(path))
  BY <1>7
<1>12. /\ at'[t] = NodeAt(m) /\ from'[t] = b /\ pc'[t] = 1
       /\ \A q \in Thread \ {t} : at'[q] = at[q] /\ pc'[q] = pc[q] /\ from'[q] = from[q] /\ visits'[q] = visits[q]
  BY <1>6, <1>10
<1>13. LastCopy(t, from'[t], m)
  BY <1>1, <1>7, <1>9, <1>11, <1>12 DEF LastCopy
<1>14. NodeAt(m) \in Block \cup {exit} /\ NodeAt(m) # predecessor
  BY <1>1, <1>11, PathFacts
<1>15. visits[t] = [a \in Block |-> IF a \in Copies(t) THEN Met(a, w) ELSE 0]
  BY <1>1 DEF AtInv, w
<1>16. \A a \in Block : visits[t][a] \in Nat
  <2>1. w \in Nat
    BY <1>7
  <2>2. \A a \in Block : Met(a, w) \in Nat
    BY <2>1, MetFacts
  <2> QED
    BY <1>15, <2>2
<1>17. visits'[t] = [a \in Block |-> visits[t][a] + (IF a = NodeAt(m) THEN 1 ELSE 0)]
  <2>1. CASE to = exit
    BY <1>8, <1>10, <1>15, <1>16, <2>1
  <2>2. CASE to # exit
    <3>1. to \in Block
      BY <1>10, <1>14, <2>2
    <3>2. visits'[t] = [visits[t] EXCEPT ![to] = @ + 1]
      BY <1>6, <2>2
    <3> QED
      BY <1>10, <1>15, <1>16, <3>1, <3>2
  <2> QED
    BY <2>1, <2>2
<1>18. DOMAIN visits' = Thread
  BY <1>6
<1>19. t \notin returned
  BY <1>1, <1>8 DEF AtInv
<1>20. AtInv(t)' /\ at'[t] # predecessor /\ \A a \in Copies(t) : \A x \in Items(t, a) : Times(t, a, x)' = visits[t][a]
  <2>1. NoCopy(t, Where(t) + 1, m - 1) /\ Where(t) < m
    BY <1>9, <1>11 DEF w
  <2>2. LastCopy(t, from'[t], m) \/ m = Len(path) + 1
    BY <1>13
  <2> QED
    BY <1>1, <1>9, <1>11, <1>12, <1>17, <1>19, <2>1, <2>2, Arrives
<1>21. ASSUME NEW a \in Copies(t), NEW x \in Items(t, a)
       PROVE  Times(t, a, x)' = Times(t, a, x) + (IF a = at[t] /\ x \in {item(t)} THEN 1 ELSE 0)
  <2>1. visits[t][a] \in Nat /\ Times(t, a, x)' = visits[t][a]
    BY <1>20, WhereFacts, <1>1
  <2>2. CASE a = b /\ x = item(t)
    <3>1. now(t) = visits[t][a]
      BY <2>2 DEF now
    <3> QED
      BY <1>1, <2>1, <2>2, <3>1
  <2>3. CASE ~(a = b /\ x = item(t))
    <3>1. ~Ahead(t, a, x)
      <4> SUFFICES ASSUME NEW n \in pc[t]..Len(s), s[n] = x, a = b PROVE FALSE
        BY DEF Ahead
      <4>1. n = pc[t]
        BY <1>3, <1>5
      <4> QED
        BY <1>4, <2>3, <4>1
    <3> QED
      BY <2>1, <2>3, <3>1 DEF Times
  <2> QED
    BY <2>2, <2>3
<1>22. /\ at' \in [Thread -> Copy] /\ from' \in [Thread -> Block \cup {predecessor}]
       /\ pc' \in [Thread -> Nat \ {0}] /\ returned' \subseteq Thread
       /\ \A q \in Thread \ {t} : /\ at'[q] = at[q] /\ pc'[q] = pc[q] /\ from'[q] = from[q]
                                  /\ visits'[q] = visits[q] /\ (q \in returned' <=> q \in returned)
  <2>1. to \in Copy
    BY <1>10, <1>14 DEF Copy
  <2> QED
    BY <1>1, <1>6, <1>12, <2>1
<1>23. Goes(t, {item(t)})
  BY <1>1, <1>18, <1>20, <1>21, <1>22, GoesAlone
<1> QED
  BY <1>20, <1>23

-----------------------------------------------------------------------------
(* How often an item has been got past *)

\* How often v was executed, and how often channel c was sent to and received from.
Done(v) == Times(assigned[v], parent(v), Clone(v))
Source(c) == channels[c].edge.u
Sent(c) == Times(assigned[Source(c)], parent(Source(c)), Produce(c))
Got(c) == Times(channels[c].to, parent(Source(c)), Consume(c))

LEMMA ChannelEnds ==
  ASSUME SInv, phase = "done", NEW c \in DOMAIN channels
  PROVE  /\ Source(c) \in Instr /\ assigned[Source(c)] \in Thread /\ channels[c].to \in Thread
         /\ channels[c].edge \in Range(allEdges) /\ assigned[Source(c)] # channels[c].to
         /\ parent(Source(c)) \in Copies(assigned[Source(c)]) /\ parent(Source(c)) \in Copies(channels[c].to)
         /\ Produce(c) \in Items(assigned[Source(c)], parent(Source(c)))
         /\ Consume(c) \in Items(channels[c].to, parent(Source(c)))
<1>1. IInv /\ IsProgram(prog) /\ assigned \in [Instr -> Thread]
  BY SplitAssumption, EdgeFacts DEF SInv, IInv, PhaseInv
<1>2. channels[c].edge \in Range(allEdges) /\ channels[c].to \in Thread
  BY <1>1, ChannelFacts
<1>3. Source(c) \in Instr
  BY <1>1, <1>2, EdgeFacts DEF Source
<1>4. /\ assigned[Source(c)] < channels[c].to
      /\ parent(Source(c)) \in DOMAIN code[assigned[Source(c)]] /\ parent(Source(c)) \in DOMAIN code[channels[c].to]
  BY <1>1 DEF IInv, ChannelInv, Source
<1>5. assigned[Source(c)] \in Thread /\ assigned[Source(c)] # channels[c].to
  BY <1>1, <1>2, <1>3, <1>4, Numbers
<1>6. /\ Produce(c) \in Items(assigned[Source(c)], parent(Source(c)))
      /\ Consume(c) \in Items(channels[c].to, parent(Source(c)))
  BY DEF Items, Produces, Consumes, Source
<1> QED
  BY <1>2, <1>3, <1>4, <1>5, <1>6 DEF Copies

LEMMA CloneEnds ==
  ASSUME SInv, phase = "done", NEW v \in Instr
  PROVE  /\ assigned[v] \in Thread /\ parent(v) \in Copies(assigned[v])
         /\ Clone(v) \in Items(assigned[v], parent(v)) /\ v \in instMap[assigned[v]]
<1>1. IInv /\ IsProgram(prog) /\ assigned \in [Instr -> Thread]
  BY SplitAssumption, EdgeFacts DEF SInv, IInv, PhaseInv
<1>2. parent(v) \in Copies(assigned[v]) /\ v \in instMap[assigned[v]]
  BY <1>1, WorkerFacts
<1> QED
  BY <1>1, <1>2, CloneThere

\* What a step means for the numbers.
LEMMA Counts ==
  ASSUME SInv, ControlInv, path # <<>>, NEW t \in Thread, NEW D, Goes(t, D)
  PROVE  /\ \A v \in Instr : /\ Done(v) \in Nat
                             /\ Done(v)' = Done(v) + (IF assigned[v] = t /\ parent(v) = at[t] /\ Clone(v) \in D THEN 1 ELSE 0)
         /\ \A c \in DOMAIN channels :
              /\ Sent(c) \in Nat /\ Got(c) \in Nat
              /\ Sent(c)' = Sent(c) + (IF assigned[Source(c)] = t /\ parent(Source(c)) = at[t] /\ Produce(c) \in D THEN 1 ELSE 0)
              /\ Got(c)' = Got(c) + (IF channels[c].to = t /\ parent(Source(c)) = at[t] /\ Consume(c) \in D THEN 1 ELSE 0)
<1>1. phase = "done" /\ UNCHANGED <<split, path>> /\ Advances(t, D)
  BY DEF ControlInv, Goes
<1>2. UNCHANGED <<prog, channels, code>> /\ assigned' = assigned /\ Instr' = Instr
  BY <1>1, RunSame
<1>3. \A q \in Thread : \A b \in Copies(q) : \A x \in Items(q, b) :
        Times(q, b, x) \in Nat /\
        Times(q, b, x)' = Times(q, b, x) + (IF q = t /\ b = at[t] /\ x \in D THEN 1 ELSE 0)
  BY <1>1, WhereFacts DEF Advances
<1>4. ASSUME NEW v \in Instr
      PROVE  /\ Done(v) \in Nat
             /\ Done(v)' = Done(v) + (IF assigned[v] = t /\ parent(v) = at[t] /\ Clone(v) \in D THEN 1 ELSE 0)
  <2>1. PICK q, b, x : q \in Thread /\ q = assigned[v] /\ b = parent(v) /\ x = Clone(v) /\ b \in Copies(q) /\ x \in Items(q, b)
    BY <1>1, CloneEnds
  <2>2. Done(v) = Times(q, b, x)
    BY <2>1 DEF Done
  <2>3. Done(v)' = Times(q, b, x)'
    BY <1>2, <2>1 DEF Done, Times, Ahead, parent, Clone
  <2> QED
    BY <1>3, <2>1, <2>2, <2>3
<1>5. ASSUME NEW c \in DOMAIN channels
      PROVE  /\ Sent(c) \in Nat
             /\ Sent(c)' = Sent(c) + (IF assigned[Source(c)] = t /\ parent(Source(c)) = at[t] /\ Produce(c) \in D THEN 1 ELSE 0)
  <2>1. PICK q, b, x : q \in Thread /\ q = assigned[Source(c)] /\ b = parent(Source(c)) /\ x = Produce(c) /\ b \in Copies(q) /\ x \in Items(q, b)
    BY <1>1, ChannelEnds
  <2>2. Sent(c) = Times(q, b, x)
    BY <2>1 DEF Sent
  <2>3. Sent(c)' = Times(q, b, x)'
    BY <1>2, <2>1 DEF Sent, Source, Times, Ahead, parent, Produce
  <2> QED
    BY <1>3, <2>1, <2>2, <2>3
<1>6. ASSUME NEW c \in DOMAIN channels
      PROVE  /\ Got(c) \in Nat
             /\ Got(c)' = Got(c) + (IF channels[c].to = t /\ parent(Source(c)) = at[t] /\ Consume(c) \in D THEN 1 ELSE 0)
  <2>1. PICK q, b, x : q \in Thread /\ q = channels[c].to /\ b = parent(Source(c)) /\ x = Consume(c) /\ b \in Copies(q) /\ x \in Items(q, b)
    BY <1>1, ChannelEnds
  <2>2. Got(c) = Times(q, b, x)
    BY <2>1 DEF Got
  <2>3. Got(c)' = Times(q, b, x)'
    BY <1>2, <2>1 DEF Got, Source, Times, Ahead, parent, Consume
  <2> QED
    BY <1>3, <2>1, <2>2, <2>3
<1> QED
  BY <1>4, <1>5, <1>6

\* Items are got past in the order of the block, and blocks in the order of the path.
LEMMA InOrder ==
  ASSUME SInv, ControlInv, path # <<>>, NEW t \in Thread, NEW b \in Copies(t)
  PROVE  /\ \A x \in Items(t, b) :
              /\ at[t] # b => Times(t, b, x) = Met(b, Where(t))
              /\ at[t] = b /\ pc[t] = 1 => Times(t, b, x) = Met(b, Where(t) - 1)
              /\ at[t] = b => Times(t, b, x) >= Met(b, Where(t) - 1)
              /\ Times(t, b, x) <= Met(b, Where(t)) /\ Times(t, b, x) \in Nat
         /\ \A x, y \in Items(t, b) : Precedes(code[t][b], x, y) => Times(t, b, x) >= Times(t, b, y)
         /\ \A x \in Items(t, b) : at[t] = b /\ Precedes(code[t][b], x, item(t)) => Times(t, b, x) = Met(b, Where(t))
<1> DEFINE s == code[t][b]
<1>1. phase = "done" /\ OnPath /\ AtInv(t)
  BY DEF ControlInv
<1>2. Lists(s, Items(t, b)) /\ b \in Block
  BY <1>1, WorkerFacts
<1>3. /\ visits[t][b] = Met(b, Where(t)) /\ visits[t][b] \in Nat
      /\ at[t] = b => visits[t][b] = Met(b, Where(t) - 1) + 1
      /\ \A x : Times(t, b, x) \in Nat
  BY WhereFacts
<1>4. /\ Len(s) \in Nat /\ \A x \in Items(t, b) : \E n \in 1..Len(s) : s[n] = x
      /\ \A n, m \in 1..Len(s) : s[n] = s[m] => n = m
  BY <1>2, ListFacts
<1>5. at[t] = b => pc[t] \in 1..Len(s)
  BY <1>1, <1>2 DEF AtInv, InBlock
<1>6. at[t] = b => Met(b, Where(t) - 1) \in Nat
  <2> SUFFICES ASSUME at[t] = b PROVE Met(b, Where(t) - 1) \in Nat
    OBVIOUS
  <2>1. Where(t) \in 1..Len(path) /\ Len(path) \in Nat
    BY <1>1, <1>2 DEF AtInv, InBlock, OnPath
  <2>2. Where(t) - 1 \in Nat
    BY <2>1
  <2> QED
    BY <2>2, MetFacts
<1>7. ASSUME NEW x \in Items(t, b)
      PROVE  /\ at[t] # b => Times(t, b, x) = Met(b, Where(t))
             /\ at[t] = b /\ pc[t] = 1 => Times(t, b, x) = Met(b, Where(t) - 1)
             /\ at[t] = b => Times(t, b, x) >= Met(b, Where(t) - 1)
             /\ Times(t, b, x) <= Met(b, Where(t)) /\ Times(t, b, x) \in Nat
  <2>1. at[t] # b => ~Ahead(t, b, x)
    BY DEF Ahead
  <2>2. at[t] = b /\ pc[t] = 1 => Ahead(t, b, x)
    BY <1>4 DEF Ahead
  <2> QED
    BY <1>3, <1>6, <2>1, <2>2 DEF Times
<1>8. ASSUME NEW x \in Items(t, b), NEW y \in Items(t, b), Precedes(s, x, y)
      PROVE  Times(t, b, x) >= Times(t, b, y)
  <2>1. PICK l, m \in 1..Len(s) : l < m /\ s[l] = x /\ s[m] = y
    BY <1>8 DEF Precedes
  <2>2. ASSUME Ahead(t, b, x) PROVE Ahead(t, b, y)
    <3>1. PICK n \in pc[t]..Len(s) : s[n] = x
      BY <2>2 DEF Ahead
    <3>2. at[t] = b
      BY <2>2 DEF Ahead
    <3>3. n \in 1..Len(s)
      BY <1>4, <1>5, <3>2
    <3>4. n = l
      BY <1>4, <2>1, <3>1, <3>3
    <3>5. m \in pc[t]..Len(s)
      BY <1>4, <1>5, <2>1, <3>2, <3>4
    <3> QED
      BY <2>1, <3>2, <3>5 DEF Ahead
  <2> QED
    BY <1>3, <2>2 DEF Times
<1>9. ASSUME NEW x \in Items(t, b), at[t] = b, Precedes(s, x, item(t)) PROVE Times(t, b, x) = Met(b, Where(t))
  <2>1. PICK l, m \in 1..Len(s) : l < m /\ s[l] = x /\ s[m] = item(t)
    BY <1>9 DEF Precedes
  <2>2. s[pc[t]] = item(t)
    BY <1>9 DEF item
  <2>3. m = pc[t]
    BY <1>4, <1>5, <1>9, <2>1, <2>2
  <2>4. ~Ahead(t, b, x)
    <3> SUFFICES ASSUME NEW n \in pc[t]..Len(s), s[n] = x PROVE FALSE
      BY DEF Ahead
    <3>1. n \in 1..Len(s)
      BY <1>4, <1>5, <1>9
    <3>2. n = l
      BY <1>4, <2>1, <3>1
    <3> QED
      BY <1>4, <1>5, <1>9, <2>1, <2>3, <3>2
  <2> QED
    BY <1>3, <2>4 DEF Times
<1> QED
  BY <1>7, <1>8, <1>9

\* When y has been got past for the n-th time, in block j of the path, what comes before
\* it in the loop has been too.
LEMMA Behind ==
  ASSUME SInv, ControlInv, path # <<>>, NEW t \in Thread, NEW b \in Copies(t), NEW y \in Items(t, b),
         Times(t, b, y) > 0, NEW a \in Copies(t), NEW x \in Items(t, a)
  PROVE  LET j == Place(b, Times(t, b, y)) IN
           /\ j \in 1..Len(path)
           /\ a # b \/ Precedes(code[t][a], x, y) => Times(t, a, x) >= Met(a, j)
           /\ Times(t, a, x) >= Met(a, j - 1)
<1> DEFINE n == Times(t, b, y)
           w == Where(t)
           j == Place(b, n)
<1>1. phase = "done" /\ OnPath /\ AtInv(t)
  BY DEF ControlInv
<1>2. w \in 0..Len(path) /\ Len(path) \in Nat /\ a \in Block /\ b \in Block
  BY WhereFacts
<1>3. n \in Nat /\ n <= Met(b, w) /\ n > 0
  BY InOrder
<1> HIDE DEF n, w
<1>4. w \in Nat
  BY <1>2
<1>5. Met(b, w) \in Nat /\ Met(a, w) \in Nat
  BY <1>4, MetFacts
<1>6. n \in 1..Met(b, w)
  BY <1>3, <1>5
<1>7. \A l \in 0..Len(path) : \A m \in 1..Met(b, l) :
               Place(b, m) \in 1..l /\ path[Place(b, m)] = b /\ Met(b, Place(b, m)) = m
  BY <1>1, PlaceFacts
<1>8. j \in 1..w /\ path[j] = b /\ Met(b, j) = n
  BY <1>2, <1>6, <1>7
<1> HIDE DEF j
<1>9. j \in Nat /\ j - 1 \in Nat /\ j <= w /\ j \in 1..Len(path) /\ j - 1 <= w
  BY <1>2, <1>8
<1>10. /\ Met(a, j) \in Nat /\ Met(a, j - 1) \in Nat /\ Met(a, j) <= Met(a, w)
       /\ Met(a, j - 1) <= Met(a, w) /\ Met(a, j - 1) <= Met(a, j)
  <2>1. j - 1 <= j
    BY <1>9
  <2> QED
    BY <1>4, <1>9, <2>1, MetFacts
<1>11. /\ at[t] # a => Times(t, a, x) = Met(a, w)
       /\ at[t] = a => Times(t, a, x) >= Met(a, w - 1)
       /\ Times(t, a, x) \in Nat
  BY InOrder DEF w
<1>12. at[t] = a => w \in 1..Len(path) /\ path[w] = a
  BY <1>1, <1>2 DEF AtInv, InBlock, w
<1>13. w # 0 => w - 1 \in Nat
  BY <1>4
<1>14. \A l \in Nat : l <= w - 1 /\ w # 0 => Met(a, l) <= Met(a, w - 1) /\ Met(a, l) \in Nat /\ Met(a, w - 1) \in Nat
  BY <1>13, MetFacts
<1>15. Times(t, a, x) >= Met(a, j - 1)
  <2>1. CASE at[t] # a
    BY <1>10, <1>11, <2>1
  <2>2. CASE at[t] = a
    <3>1. j - 1 <= w - 1 /\ w # 0
      BY <1>8, <1>9, <1>4
    <3>2. Met(a, j - 1) <= Met(a, w - 1) /\ Met(a, w - 1) \in Nat
      BY <1>9, <1>14, <3>1
    <3> QED
      BY <1>10, <1>11, <2>2, <3>2
  <2> QED
    BY <2>1, <2>2
<1>16. ASSUME a # b PROVE Times(t, a, x) >= Met(a, j)
  <2>1. CASE at[t] # a
    BY <1>10, <1>11, <2>1
  <2>2. CASE at[t] = a
    <3>1. j # w
      BY <1>8, <1>12, <1>16, <2>2
    <3>2. j <= w - 1 /\ w # 0
      BY <1>4, <1>9, <3>1, <1>8
    <3>3. Met(a, j) <= Met(a, w - 1) /\ Met(a, w - 1) \in Nat
      BY <1>9, <1>14, <3>2
    <3> QED
      BY <1>10, <1>11, <2>2, <3>3
  <2> QED
    BY <2>1, <2>2
<1>17. ASSUME a = b, Precedes(code[t][a], x, y) PROVE Times(t, a, x) >= Met(a, j)
  BY <1>8, <1>17, InOrder DEF n
<1> QED
  BY <1>9, <1>15, <1>16, <1>17 DEF j, n

-----------------------------------------------------------------------------
(* The values *)

\* A register has the value of the latest execution; live-ins are there from the entry on.
HeldInv ==
  /\ DOMAIN held = Thread
  /\ \A t \in Thread :
       /\ DOMAIN held[t] = Instr \cup Range(livein)
       /\ \A u \in Instr \cup Range(livein) : held[t][u] \in Nat
       /\ \A v \in Instr : assigned[v] = t /\ ~isTerminator(prog, v) => held[t][v] = Done(v)
       /\ at[t] # predecessor => \A u \in Range(livein) : held[t][u] = u[2]

CountInv == DOMAIN count = Instr /\ \A v \in Instr : count[v] = Done(v)

\* A queue has what was sent and not received, in that order.
QueueOK(c) ==
  /\ queue[c] \in Seq(Nat) /\ received[c] \in Nat /\ Len(queue[c]) <= QUEUE_MAXLEN
  /\ Sent(c) = Got(c) + Len(queue[c])
  /\ channels[c].edge.dtype = "REG" =>
       received[c] = Got(c) /\ \A n \in 1..Len(queue[c]) : queue[c][n] = Got(c) + n
QueueInv ==
  /\ DOMAIN queue = DOMAIN channels /\ DOMAIN received = DOMAIN channels
  /\ \A c \in DOMAIN channels : QueueOK(c)

StructInv ==
  /\ argstruct = [ins |-> argstruct.ins, out |-> argstruct.out]
  /\ argstruct.ins = [n \in DOMAIN livein |-> livein[n][2]]
  /\ DOMAIN argstruct.out = DOMAIN liveout
  /\ \A n \in DOMAIN liveout :
       assigned[liveout[n]] \in returned => argstruct.out[n] = Met(parent(liveout[n]), Len(path))
  /\ loaded # <<>> => returned = Thread /\ loaded = argstruct.out

WrongInv == wrong \subseteq Instr /\ SameValues

DataInv ==
  /\ path = <<>> => /\ held = [t \in Thread |-> <<>>] /\ received = <<>> /\ queue = <<>>
                    /\ loaded = <<>> /\ count = [v \in Instr |-> 0] /\ wrong = {}
  /\ path # <<>> => HeldInv /\ CountInv /\ QueueInv /\ StructInv
  /\ WrongInv

LEMMA StructSame ==
  ASSUME UNCHANGED <<split, path, argstruct, loaded, returned>>, StructInv
  PROVE  StructInv'
<1>1. UNCHANGED <<livein, liveout, prog, path>> /\ assigned' = assigned /\ \A b, j : Met(b, j)' = Met(b, j)
  BY RunSame
<1> QED
  BY <1>1 DEF StructInv, parent

LEMMA WrongSame ==
  ASSUME UNCHANGED <<split, path>>, wrong' \subseteq Instr, WrongInv,
         \A v \in wrong' \ wrong : v \in DOMAIN prog.phi /\ ~Repointed(assigned[v], v)
  PROVE  WrongInv'
<1>1. UNCHANGED <<prog, code, target>> /\ assigned' = assigned /\ Instr' = Instr
  BY RunSame
<1>2. \A t, p : Repointed(t, p)' <=> Repointed(t, p)
  BY <1>1 DEF Repointed, LastMet, Incoming, Entries
<1>3. \A v \in wrong' : v \in DOMAIN prog.phi /\ ~Repointed(assigned[v], v)
  BY DEF WrongInv, SameValues
<1>4. ASSUME NEW v \in wrong' PROVE v \in DOMAIN prog'.phi /\ ~Repointed(assigned[v], v)'
  <2>1. PICK t : t = assigned[v]
    OBVIOUS
  <2>2. ~Repointed(t, v)
    BY <1>3, <2>1
  <2>3. ~Repointed(t, v)'
    BY <1>2, <2>2
  <2> QED
    BY <1>1, <1>3, <2>1, <2>3 DEF Repointed, LastMet, Incoming, Entries
<1> QED
  BY <1>1, <1>4 DEF WrongInv, SameValues

LEMMA QueueSame ==
  ASSUME SInv, ControlInv, QueueInv, NEW t \in Thread, NEW D, Goes(t, D), UNCHANGED <<queue, received>>,
         \A c : Produce(c) \notin D /\ Consume(c) \notin D
  PROVE  QueueInv'
<1>1. UNCHANGED <<split, path>> /\ path # <<>>
  BY DEF Goes
<1>2. channels' = channels
  BY <1>1, RunSame
<1>3. \A c \in DOMAIN channels : Sent(c) \in Nat /\ Got(c) \in Nat /\ Sent(c)' = Sent(c) /\ Got(c)' = Got(c)
  BY <1>1, Counts
<1> QED
  BY <1>2, <1>3 DEF QueueInv, QueueOK

LEMMA CountMore ==
  ASSUME SInv, ControlInv, CountInv, NEW t \in Thread, NEW D, Goes(t, D), NEW S, count' = Counted(t, S),
         \A v \in Instr : assigned[v] = t => (v \in S <=> parent(v) = at[t] /\ Clone(v) \in D)
  PROVE  CountInv'
<1>1. UNCHANGED <<split, path>> /\ path # <<>>
  BY DEF Goes
<1>2. Instr' = Instr
  BY <1>1, RunSame
<1>3. \A v \in Instr : /\ Done(v) \in Nat
                       /\ Done(v)' = Done(v) + (IF assigned[v] = t /\ parent(v) = at[t] /\ Clone(v) \in D THEN 1 ELSE 0)
  BY <1>1, Counts
<1> QED
  BY <1>2, <1>3 DEF CountInv, Counted

LEMMA CountSame ==
  ASSUME SInv, ControlInv, CountInv, NEW t \in Thread, NEW D, Goes(t, D), count' = count,
         \A v : Clone(v) \notin D
  PROVE  CountInv'
<1>1. UNCHANGED <<split, path>> /\ path # <<>>
  BY DEF Goes
<1>2. Instr' = Instr
  BY <1>1, RunSame
<1>3. \A v \in Instr : Done(v) \in Nat /\ Done(v)' = Done(v)
  BY <1>1, Counts
<1> QED
  BY <1>2, <1>3 DEF CountInv

\* The registers after a step that computes S.
LEMMA HeldMore ==
  ASSUME SInv, ControlInv, HeldInv, NEW t \in Thread, NEW D, Goes(t, D), NEW S,
         DOMAIN held' = Thread, \A q \in Thread \ {t} : held'[q] = held[q],
         DOMAIN held'[t] = Instr \cup Range(livein),
         \A u \in Instr \cup Range(livein) : held'[t][u] = IF u \in S THEN now(t) ELSE held[t][u],
         \A v \in Instr : assigned[v] = t /\ ~isTerminator(prog, v) =>
           (v \in S <=> parent(v) = at[t] /\ Clone(v) \in D),
         \A v \in S : v \in Instr /\ now(t) = Done(v) + 1,
         at[t] = predecessor => at'[t] = predecessor
  PROVE  HeldInv'
<1>1. UNCHANGED <<split, path>> /\ path # <<>> /\ \A q \in Thread \ {t} : at'[q] = at[q]
  BY DEF Goes
<1>2. Instr' = Instr /\ UNCHANGED <<livein, prog>> /\ assigned' = assigned
  BY <1>1, RunSame
<1>3. \A v \in Instr : /\ Done(v) \in Nat
                       /\ Done(v)' = Done(v) + (IF assigned[v] = t /\ parent(v) = at[t] /\ Clone(v) \in D THEN 1 ELSE 0)
  BY <1>1, Counts
<1>4. phase = "done"
  BY <1>1 DEF ControlInv
<1>5. Instr \cap Range(livein) = {}
  <2>1. livein \in Seq({predecessor} \X Nat)
    BY <1>4 DEF SInv, ValueInv, LiveInv
  <2>2. \A u \in Range(livein) : u[1] = predecessor
    BY <2>1 DEF Range
  <2>3. IsProgram(prog) /\ predecessor \notin Block
    BY <1>1, PathFacts DEF ControlInv
  <2> QED
    BY <2>2, <2>3, InstrFacts DEF parent
<1>6. ASSUME NEW q \in Thread
      PROVE  /\ DOMAIN held'[q] = Instr \cup Range(livein)
             /\ \A u \in Instr \cup Range(livein) : held'[q][u] \in Nat
             /\ \A v \in Instr : assigned[v] = q /\ ~isTerminator(prog, v) => held'[q][v] = Done(v)'
             /\ at'[q] # predecessor => \A u \in Range(livein) : held'[q][u] = u[2]
  <2>1. CASE q # t
    BY <1>1, <1>3, <2>1 DEF HeldInv
  <2>2. CASE q = t
    <3>1. \A u \in Instr \cup Range(livein) : held'[q][u] \in Nat
      BY <1>3, <2>2 DEF HeldInv
    <3>2. \A v \in Instr : assigned[v] = q /\ ~isTerminator(prog, v) => held'[q][v] = Done(v)'
      BY <1>3, <2>2 DEF HeldInv
    <3>3. at'[q] # predecessor => \A u \in Range(livein) : held'[q][u] = u[2]
      BY <1>5, <2>2 DEF HeldInv
    <3> QED
      BY <2>2, <3>1, <3>2, <3>3
  <2> QED
    BY <2>1, <2>2
<1> QED
  BY <1>2, <1>6 DEF HeldInv

LEMMA HeldSame ==
  ASSUME SInv, ControlInv, HeldInv, NEW t \in Thread, NEW D, Goes(t, D), held' = held,
         \A v \in Instr : Clone(v) \in D => isTerminator(prog, v),
         at[t] = predecessor => at'[t] = predecessor
  PROVE  HeldInv'
<1> DEFINE S == {}
<1>1. S = {}
  OBVIOUS
<1> HIDE DEF S
<1>2. /\ DOMAIN held' = Thread /\ (\A q \in Thread \ {t} : held'[q] = held[q])
      /\ DOMAIN held'[t] = Instr \cup Range(livein)
      /\ \A u \in Instr \cup Range(livein) : held'[t][u] = IF u \in S THEN now(t) ELSE held[t][u]
  BY <1>1 DEF HeldInv
<1>3. /\ \A v \in Instr : assigned[v] = t /\ ~isTerminator(prog, v) =>
           (v \in S <=> parent(v) = at[t] /\ Clone(v) \in D)
      /\ \A v \in S : v \in Instr /\ now(t) = Done(v) + 1
  BY <1>1
<1> QED
  BY <1>2, <1>3, HeldMore

-----------------------------------------------------------------------------
(* What a clone reads *)

LEMMA RegisterFacts ==
  ASSUME IsProgram(prog), NEW v, NEW u \in Registers(v)
  PROVE  /\ u \in Instr /\ ~isTerminator(prog, u) /\ parent(u) \in Block
         /\ parent(u) = parent(v) /\ v \notin DOMAIN prog.phi => u[2] < v[2]
<1>1. PICK f \in Range(allEdges) : f.dtype = "REG" /\ f.v = v /\ u = f.u
  BY DEF Registers
<1>2. u \in Instr
  BY <1>1, EdgeFacts
<1>3. /\ f.dtype # "CONTROL" => ~isTerminator(prog, f.u)
      /\ f.dtype = "REG" /\ parent(f.u) = parent(f.v) /\ f.v \notin DOMAIN prog.phi => f.u[2] < f.v[2]
  BY <1>1 DEF IsProgram, EdgesFit, allEdges
<1> QED
  BY <1>1, <1>2, <1>3, InstrFacts

\* An operand is counted: by the clone that computes it, or by the consume.
LEMMA OperandCounted ==
  ASSUME SInv, ControlInv, HeldInv, QueueInv, path # <<>>, NEW t \in Thread,
         NEW v \in Executed(t), NEW u \in Registers(v)
  PROVE  /\ parent(u) \in Copies(t) /\ u \in Instr
         /\ \E x \in Items(t, parent(u)) :
              /\ Operand(t, v, u) = Times(t, parent(u), x)
              /\ \/ x = Clone(u) /\ u \in instMap[t]
                 \/ \E c \in DOMAIN channels : x = Consume(c) /\ channels[c].to = t /\ Source(c) = u
<1>1. phase = "done" /\ OnPath
  BY DEF ControlInv
<1>2. IsProgram(prog) /\ IInv /\ ReadInv
  BY <1>1, PathFacts DEF SInv, LinkInv
<1>3. u \in Instr /\ ~isTerminator(prog, u)
  BY <1>2, RegisterFacts
<1>4. CASE <<v, u>> \in DOMAIN operand[t]
  <2> DEFINE c == operand[t][<<v, u>>]
  <2>1. c \in DOMAIN channels /\ channels[c].to = t /\ Source(c) = u /\ channels[c].edge.dtype = "REG"
    BY <1>2, <1>4 DEF ReadInv, Source
  <2>2. parent(u) \in Copies(t) /\ Consume(c) \in Items(t, parent(u))
    BY <1>1, <2>1, ChannelEnds
  <2>3. received[c] = Got(c)
    BY <2>1 DEF QueueInv, QueueOK
  <2>4. Operand(t, v, u) = Times(t, parent(u), Consume(c))
    BY <1>4, <2>1, <2>3 DEF Operand, Got
  <2> QED
    BY <1>3, <2>1, <2>2, <2>4
<1>5. CASE <<v, u>> \notin DOMAIN operand[t]
  <2>1. u \in instMap[t]
    BY <1>1, <1>2, <1>5, OperandsAtEnd DEF OperandsThere
  <2>2. assigned[u] = t
    BY <1>2, <1>3, <2>1, CloneThere
  <2>3. held[t][u] = Done(u)
    BY <1>3, <2>2 DEF HeldInv
  <2>4. parent(u) \in Copies(t) /\ Clone(u) \in Items(t, parent(u))
    BY <1>1, <1>3, <2>2, CloneEnds
  <2>5. Operand(t, v, u) = Times(t, parent(u), Clone(u))
    BY <1>5, <2>2, <2>3 DEF Operand, Done
  <2> QED
    BY <1>3, <2>1, <2>4, <2>5
<1> QED
  BY <1>4, <1>5

LEMMA NowFacts ==
  ASSUME SInv, ControlInv, NEW t \in Thread, Running(t)
  PROVE  /\ now(t) <= Met(at[t], Len(path)) /\ Place(at[t], now(t)) = Where(t)
         /\ Where(t) \in 1..Len(path) /\ path[Where(t)] = at[t] /\ Len(path) \in Nat
<1>1. phase = "done" /\ OnPath /\ InBlock(t) /\ now(t) = Met(at[t], Where(t))
  BY ItemFacts
<1>2. Where(t) \in 1..Len(path) /\ path[Where(t)] = at[t] /\ Len(path) \in Nat
  BY <1>1 DEF InBlock, OnPath
<1>3. \A a : \A j \in 1..Len(path) : path[j] = a => Place(a, Met(a, j)) = j
  BY <1>1, PlaceFacts
<1>4. Where(t) \in Nat /\ Where(t) <= Len(path)
  BY <1>2
<1>5. Met(at[t], Where(t)) <= Met(at[t], Len(path))
  BY <1>2, <1>4, MetFacts
<1> QED
  BY <1>1, <1>2, <1>3, <1>5

\* What any other clone reads is what it reads in the loop.
LEMMA RightClone ==
  ASSUME SInv, ControlInv, HeldInv, QueueInv, NEW t \in Thread, Running(t),
         NEW v \in instMap[t], item(t) = Clone(v), v \notin DOMAIN prog.phi
  PROVE  Right(t, v)
<1>1. /\ phase = "done" /\ OnPath /\ path # <<>> /\ at[t] \in Copies(t) /\ item(t) \in Items(t, at[t]) /\ at[t] \in Block
  BY ItemFacts DEF Running
<1>2. IsProgram(prog) /\ SInv /\ IInv /\ predecessor \notin Block
  BY <1>1, PathFacts DEF SInv
<1>3. parent(v) = at[t]
  <2>1. item(t)[1] = "clone" /\ inst(t) = v
    BY DEF Clone, inst
  <2> QED
    BY <2>1, BranchItem
<1>4. now(t) <= Met(at[t], Len(path)) /\ Place(at[t], now(t)) = Where(t)
  BY NowFacts
<1>5. ASSUME v \in Executed(t), NEW u \in Registers(v) PROVE Operand(t, v, u) = Value(u, Where(t))
  <2>1. parent(u) \in Copies(t) /\ u \in Instr
    BY <1>1, <1>5, OperandCounted
  <2>2. PICK x \in Items(t, parent(u)) :
              /\ Operand(t, v, u) = Times(t, parent(u), x)
              /\ \/ x = Clone(u) /\ u \in instMap[t]
                 \/ \E c \in DOMAIN channels : x = Consume(c) /\ channels[c].to = t /\ Source(c) = u
    BY <1>1, <1>5, OperandCounted
  <2>3. parent(u) \in Block /\ parent(u) # predecessor
    BY <1>2, <1>5, RegisterFacts
  <2>4. Value(u, Where(t)) = Met(parent(u), Where(t))
    BY <2>3 DEF Value
  <2>5. ASSUME parent(u) = at[t] PROVE Precedes(code[t][at[t]], x, item(t))
    <3>1. u[2] < v[2]
      BY <1>2, <1>3, <1>5, <2>5, RegisterFacts
    <3>2. CASE x = Clone(u) /\ u \in instMap[t]
      BY <1>1, <1>3, <2>5, <3>1, <3>2 DEF SInv, OrderInv, KeptInv, Copies
    <3>3. ASSUME NEW c \in DOMAIN channels, x = Consume(c), channels[c].to = t, Source(c) = u
          PROVE  Precedes(code[t][at[t]], x, item(t))
      BY <1>1, <1>3, <2>5, <3>1, <3>3 DEF SInv, OrderInv, GotInv, Source
    <3> QED
      BY <2>2, <3>2, <3>3
  <2>6. Times(t, parent(u), x) = Met(parent(u), Where(t))
    <3>1. CASE parent(u) # at[t]
      BY <1>1, <2>1, <3>1, InOrder
    <3>2. CASE parent(u) = at[t]
      BY <1>1, <2>1, <2>5, <3>2, InOrder
    <3> QED
      BY <3>1, <3>2
  <2> QED
    BY <2>2, <2>4, <2>6
<1>6. ASSUME v \in Executed(t) PROVE ReadsHere(t, v) = Reads(v, Where(t))
  <2>1. ReadsHere(t, v) = {<<u, Operand(t, v, u)>> : u \in Registers(v)}
    BY DEF ReadsHere
  <2>2. Reads(v, Where(t)) = {<<u, Value(u, Where(t))>> : u \in Registers(v)}
    BY DEF Reads
  <2>3. \A u \in Registers(v) : Operand(t, v, u) = Value(u, Where(t))
    BY <1>5, <1>6
  <2> HIDE DEF Registers
  <2> QED
    BY <2>1, <2>2, <2>3
<1> QED
  BY <1>4, <1>6 DEF Right

\* What a phi node reads if it stands for the block the worker came from.
LEMMA RightPhi ==
  ASSUME SInv, ControlInv, HeldInv, QueueInv, NEW t \in Thread, Running(t), pc[t] = 1,
         NEW v \in DOMAIN prog.phi \cap instMap[t], parent(v) = at[t], Repointed(t, v)
  PROVE  Right(t, v)
<1> DEFINE w == Where(t)
           q == Before(w)
           u == prog.phi[v][q]
<1>1. /\ phase = "done" /\ OnPath /\ path # <<>> /\ InBlock(t) /\ at[t] \in Copies(t) /\ at[t] \in Block
  BY ItemFacts DEF Running
<1>2. IsProgram(prog) /\ IInv /\ predecessor \notin Block /\ predecessor # exit /\ path[1] = header
  BY <1>1, PathFacts DEF SInv, OnPath
<1>3. now(t) <= Met(at[t], Len(path)) /\ Place(at[t], now(t)) = w /\ w \in 1..Len(path) /\ path[w] = at[t]
      /\ Len(path) \in Nat
  BY NowFacts
<1> HIDE DEF w
<1>4. q \in DOMAIN prog.phi[v]
  <2>1. DOMAIN prog.phi[v] = {o \in Block \cup {predecessor} : <<o, parent(v)>> \in Entries(prog.cfg)}
    BY <1>2 DEF IsProgram, PhisFit
  <2>2. CASE w = 1
    BY <1>2, <1>3, <2>1, <2>2 DEF Before, Entries
  <2>3. CASE w # 1
    <3>1. w - 1 \in 1..Len(path) /\ (w - 1) + 1 = w /\ w # Len(path) + 1
      BY <1>3, <2>3
    <3>2. q = path[w - 1] /\ path[w - 1] \in Block
      BY <1>1, <2>3, <3>1, PathFacts DEF Before
    <3>3. <<path[w - 1], NodeAt((w - 1) + 1)>> \in EdgesOf(prog.cfg)
      BY <1>1, <3>1, PathFacts
    <3>4. <<q, parent(v)>> \in EdgesOf(prog.cfg)
      BY <1>3, <3>1, <3>2, <3>3 DEF NodeAt
    <3> QED
      BY <2>1, <3>2, <3>4 DEF Entries
  <2> QED
    BY <2>2, <2>3
<1>5. from[t] \in LastMet(t, q)
  BY <1>1, <1>3, LastCopyMet DEF InBlock, w
<1>6. Incoming(t, v, from[t]) = {u}
  BY <1>4, <1>5 DEF Repointed
<1>7. u \in {predecessor} \X Nat \/ u \in Registers(v) \cap Instr
  <2>1. u \in Range(prog.phi[v])
    BY <1>4 DEF Range
  <2> HIDE DEF u
  <2> QED
    BY <1>2, <2>1, PhiValues
<1> HIDE DEF u, q
<1>8. v \in Executed(t)
  <2>1. ~isTerminator(prog, v)
    BY <1>2, PhiFacts
  <2> QED
    BY <1>2, <2>1, CloneThere DEF Executed
<1>9. Operand(t, v, u) = Value(u, w - 1)
  <2>1. CASE u \in {predecessor} \X Nat
    <3>1. u[1] = predecessor /\ parent(u) = predecessor
      BY <2>1 DEF parent
    <3>2. u \notin Instr
      BY <1>2, <3>1, InstrFacts
    <3>3. <<v, u>> \notin DOMAIN operand[t]
      <4> SUFFICES ASSUME <<v, u>> \in DOMAIN operand[t] PROVE FALSE
        OBVIOUS
      <4> DEFINE c == operand[t][<<v, u>>]
      <4>1. c \in DOMAIN channels /\ Source(c) = u
        BY DEF SInv, LinkInv, ReadInv, Source
      <4>2. Source(c) \in Instr
        BY <1>1, <4>1, ChannelEnds
      <4> QED
        BY <3>2, <4>1, <4>2
    <3>4. u \in Range(livein)
      <4>1. u \in Range(prog.phi[v])
        BY <1>4 DEF Range, u
      <4>2. Range(prog.phi[v]) \subseteq Instr \cup Range(livein)
        BY <1>1 DEF SInv, ValueInv, LiveInv
      <4> QED
        BY <3>2, <4>1, <4>2
    <3>5. held[t][u] = u[2]
      BY <1>1, <1>2, <3>4 DEF HeldInv
    <3> QED
      BY <3>1, <3>3, <3>5 DEF Operand, Value
  <2>2. CASE u \in Registers(v) \cap Instr
    <3>1. parent(u) \in Copies(t)
      BY <1>1, <1>8, <2>2, OperandCounted
    <3>2. PICK x \in Items(t, parent(u)) : Operand(t, v, u) = Times(t, parent(u), x)
      BY <1>1, <1>8, <2>2, OperandCounted
    <3>3. parent(u) \in Block /\ parent(u) # predecessor
      BY <1>2, <2>2, RegisterFacts
    <3>4. Times(t, parent(u), x) = Met(parent(u), w - 1)
      <4>1. CASE parent(u) = at[t]
        BY <1>1, <3>1, <4>1, InOrder DEF w
      <4>2. CASE parent(u) # at[t]
        <5>1. Times(t, parent(u), x) = Met(parent(u), w)
          BY <1>1, <3>1, <4>2, InOrder DEF w
        <5>2. Met(parent(u), w) = Met(parent(u), w - 1)
          <6>1. w # 0 /\ at[t] # exit
            BY <1>1, <1>3, PathFacts
          <6> QED
            BY <1>1, <3>1, <4>2, <6>1, WhereFacts DEF w
        <5> QED
          BY <5>1, <5>2
      <4> QED
        BY <4>1, <4>2
    <3> QED
      BY <3>2, <3>3, <3>4 DEF Value
  <2> QED
    BY <1>7, <2>1, <2>2
<1>10. ReadsHere(t, v) = {<<u, Operand(t, v, u)>>}
  BY <1>6 DEF ReadsHere
<1>11. Reads(v, w) = {<<u, Value(u, w - 1)>>}
  BY DEF Reads, u, q
<1> QED
  BY <1>3, <1>9, <1>10, <1>11 DEF Right

-----------------------------------------------------------------------------
(* The steps of a worker *)

RunInv == SInv /\ ControlInv /\ DataInv

LEMMA RunFacts ==
  ASSUME RunInv, path # <<>>
  PROVE  /\ SInv /\ ControlInv /\ HeldInv /\ CountInv /\ QueueInv /\ StructInv /\ WrongInv
         /\ phase = "done" /\ OnPath /\ IsProgram(prog) /\ IInv
         /\ predecessor \notin Block /\ exit \notin Block /\ predecessor # exit
<1>1. SInv /\ ControlInv /\ HeldInv /\ CountInv /\ QueueInv /\ StructInv /\ WrongInv
  BY DEF RunInv, DataInv
<1>2. phase = "done" /\ OnPath
  BY <1>1 DEF ControlInv
<1> QED
  BY <1>1, <1>2, PathFacts DEF SInv

LEMMA AfterStep ==
  ASSUME SInv, NEW t, NEW D, Goes(t, D), HeldInv', CountInv', QueueInv', StructInv', WrongInv'
  PROVE  RunInv'
<1>1. SInv' /\ path' # <<>> /\ ControlInv'
  BY SplitSame DEF Goes
<1> QED
  BY <1>1 DEF RunInv, DataInv

LEMMA EnterInv ==
  ASSUME RunInv, NEW t \in Thread, Enter(t) PROVE RunInv'
<1> DEFINE D == {}
<1>1. path # <<>> /\ at[t] = predecessor /\ t \notin returned
  BY DEF Enter
<1>2. SInv /\ ControlInv /\ HeldInv /\ CountInv /\ QueueInv /\ StructInv /\ WrongInv /\ phase = "done" /\ predecessor \notin Block
      /\ IsProgram(prog)
  BY <1>1, RunFacts
<1>3. /\ UNCHANGED <<split, path, returned, pc, from, received, queue, argstruct, loaded, count, wrong>>
      /\ at' = [at EXCEPT ![t] = header] /\ visits' = [visits EXCEPT ![t][header] = 1]
  BY DEF Enter, struct
<1>4. Goes(t, {})
  BY <1>1, <1>2, <1>3, GoEnter
<1>5. Goes(t, D) /\ \A x : x \notin D
  BY <1>4
<1> HIDE DEF D
<1>6. QueueInv'
  BY <1>2, <1>3, <1>5, QueueSame
<1>7. CountInv'
  BY <1>2, <1>3, <1>5, CountSame
<1>8. StructInv' /\ WrongInv'
  BY <1>2, <1>3, StructSame, WrongSame DEF WrongInv
<1>9. HeldInv'
  <2> DEFINE given == [u \in Range(livein) |-> argstruct.ins[CHOOSE n \in DOMAIN livein : livein[n] = u]]
  <2>1. held' = [held EXCEPT ![t] = Over(given, @)]
    BY DEF Enter
  <2>2. livein \in Seq({predecessor} \X Nat)
    BY <1>2 DEF SInv, ValueInv, LiveInv
  <2>3. ASSUME NEW u \in Range(livein) PROVE given[u] = u[2] /\ u[2] \in Nat /\ u[1] = predecessor
    <3>1. \E n \in DOMAIN livein : livein[n] = u
      BY DEF Range
    <3>2. PICK n \in DOMAIN livein : livein[n] = u /\ n = CHOOSE m \in DOMAIN livein : livein[m] = u
      BY <3>1
    <3>3. given[u] = livein[n][2]
      BY <1>2, <3>2 DEF StructInv
    <3> QED
      BY <2>2, <3>2, <3>3
  <2>4. DOMAIN given = Range(livein)
    OBVIOUS
  <2> HIDE DEF given
  <2>5. Instr \cap Range(livein) = {}
    BY <1>2, <2>3, InstrFacts DEF parent
  <2>6. DOMAIN held' = Thread /\ held'[t] = Over(given, held[t]) /\ \A q \in Thread \ {t} : held'[q] = held[q]
    BY <1>2, <2>1 DEF HeldInv
  <2>7. /\ DOMAIN held'[t] = Instr \cup Range(livein)
        /\ \A u \in Instr \cup Range(livein) : held'[t][u] = IF u \in Range(livein) THEN u[2] ELSE held[t][u]
    BY <1>2, <2>3, <2>4, <2>6 DEF HeldInv, Over
  <2>8. Instr' = Instr /\ UNCHANGED <<livein, prog>> /\ assigned' = assigned /\ \A q \in Thread \ {t} : at'[q] = at[q]
    BY <1>3, <1>5, RunSame DEF Goes
  <2>9. \A v \in Instr : Done(v)' = Done(v)
    BY <1>1, <1>2, <1>5, Counts
  <2>10. ASSUME NEW q \in Thread
         PROVE  /\ DOMAIN held'[q] = Instr \cup Range(livein)
                /\ \A u \in Instr \cup Range(livein) : held'[q][u] \in Nat
                /\ \A v \in Instr : assigned[v] = q /\ ~isTerminator(prog, v) => held'[q][v] = Done(v)'
                /\ at'[q] # predecessor => \A u \in Range(livein) : held'[q][u] = u[2]
    <3>1. CASE q = t
      BY <1>2, <2>3, <2>5, <2>7, <2>9, <3>1 DEF HeldInv
    <3>2. CASE q # t
      BY <1>2, <2>6, <2>8, <2>9, <3>2 DEF HeldInv
    <3> QED
      BY <3>1, <3>2
  <2> QED
    BY <2>6, <2>8, <2>10 DEF HeldInv
<1> QED
  BY <1>2, <1>5, <1>6, <1>7, <1>8, <1>9, AfterStep

LEMMA LeaveInv ==
  ASSUME RunInv, NEW t \in Thread, Leave(t) PROVE RunInv'
<1> DEFINE D == {}
<1>1. at[t] = exit /\ t \notin returned /\ SInv /\ ControlInv
  BY DEF Leave, RunInv
<1>2. /\ UNCHANGED <<split, path, at, pc, from, visits, held, received, queue, loaded, count, wrong>>
      /\ returned' = returned \cup {t}
      /\ argstruct' = [argstruct EXCEPT !.out =
           [n \in DOMAIN liveout |-> IF n \in stores[t] THEN held[t][liveout[n]] ELSE @[n]]]
  BY DEF Leave
<1>3. Goes(t, {}) /\ path # <<>>
  BY <1>1, <1>2, GoLeave
<1>4. HeldInv /\ CountInv /\ QueueInv /\ StructInv /\ WrongInv /\ phase = "done" /\ IsProgram(prog) /\ IInv /\ exit \notin Block
  BY <1>3, RunFacts
<1>5. Goes(t, D) /\ \A x : x \notin D
  BY <1>3
<1> HIDE DEF D
<1>6. QueueInv'
  BY <1>1, <1>2, <1>4, <1>5, QueueSame
<1>7. CountInv'
  BY <1>1, <1>2, <1>4, <1>5, CountSame
<1>8. HeldInv'
  BY <1>1, <1>2, <1>4, <1>5, HeldSame
<1>9. WrongInv'
  BY <1>2, <1>4, WrongSame DEF WrongInv
<1>10. AtInv(t) /\ Where(t) = Len(path) /\ predecessor # exit
  BY <1>1, <1>3, RunFacts DEF ControlInv, Where
<1>11. t < i
  <2>1. Copies(t) # {}
    BY <1>1, <1>10 DEF AtInv
  <2>2. DOMAIN code[t] = IF t < i THEN RelevantBlocks(t) ELSE {}
    BY <1>4 DEF IInv, CopyInv, Blocks
  <2> QED
    BY <2>1, <2>2 DEF Copies
<1>12. stores[t] = {n \in DOMAIN liveout : assigned[liveout[n]] = t} /\ liveout \in Seq(prog.usedAfter)
  BY <1>1, <1>4, <1>11 DEF SInv, ValueInv, LiveInv
<1>13. ASSUME NEW n \in DOMAIN liveout, assigned[liveout[n]] = t
       PROVE  held[t][liveout[n]] = Met(parent(liveout[n]), Len(path))
  <2> DEFINE v == liveout[n]
  <2>1. v \in prog.usedAfter
    BY <1>12
  <2>2. v \in Instr /\ ~isTerminator(prog, v)
    <3> HIDE DEF v
    <3>1. IsProgram(prog)
      BY <1>4
    <3> QED
      BY <2>1, <3>1 DEF IsProgram, Instr
  <2>3. held[t][v] = Done(v)
    BY <1>4, <1>13, <2>2 DEF HeldInv
  <2>4. parent(v) \in Copies(t) /\ Clone(v) \in Items(t, parent(v))
    BY <1>1, <1>4, <1>13, <2>2, CloneEnds
  <2>5. Done(v) = Times(t, parent(v), Clone(v))
    BY <1>13 DEF Done
  <2>6. at[t] # parent(v)
    BY <1>1, <1>4, <2>2, InstrFacts
  <2> QED
    BY <1>1, <1>3, <1>10, <2>3, <2>4, <2>5, <2>6, InOrder
<1>14. StructInv'
  <2> DEFINE out == [n \in DOMAIN liveout |-> IF n \in stores[t] THEN held[t][liveout[n]] ELSE argstruct.out[n]]
  <2>1. argstruct' = [ins |-> argstruct.ins, out |-> out]
    BY <1>2, <1>4 DEF StructInv
  <2>2. UNCHANGED <<livein, liveout, prog, path>> /\ assigned' = assigned /\ \A b, j : Met(b, j)' = Met(b, j)
    BY <1>2, RunSame
  <2>3. ASSUME NEW n \in DOMAIN liveout, assigned[liveout[n]] \in returned'
        PROVE  out[n] = Met(parent(liveout[n]), Len(path))
    <3>1. CASE assigned[liveout[n]] = t
      BY <1>12, <1>13, <3>1
    <3>2. CASE assigned[liveout[n]] # t
      BY <1>2, <1>4, <1>12, <2>3, <3>2 DEF StructInv
    <3> QED
      BY <3>1, <3>2
  <2>4. loaded = <<>>
    BY <1>1, <1>4 DEF StructInv
  <2> HIDE DEF out
  <2>5. DOMAIN out = DOMAIN liveout
    BY DEF out
  <2>6. argstruct'.ins = argstruct.ins /\ argstruct'.out = out /\ argstruct' = [ins |-> argstruct'.ins, out |-> argstruct'.out]
    BY <2>1
  <2>7. argstruct.ins = [n \in DOMAIN livein |-> livein[n][2]]
    BY <1>4 DEF StructInv
  <2>8. \A n \in DOMAIN liveout' : assigned'[liveout'[n]] \in returned' => argstruct'.out[n] = Met(parent(liveout[n]), Len(path))'
    BY <2>2, <2>3, <2>6 DEF parent
  <2>9. loaded' = <<>>
    BY <1>2, <2>4
  <2> QED
    BY <2>2, <2>5, <2>6, <2>7, <2>8, <2>9 DEF StructInv
<1> QED
  BY <1>1, <1>5, <1>6, <1>7, <1>8, <1>9, <1>14, AfterStep

LEMMA ExecuteInv ==
  ASSUME RunInv, NEW t \in Thread, Execute(t) PROVE RunInv'
<1> DEFINE D == {item(t)}
           S == {inst(t)}
           v == inst(t)
<1>1. /\ Running(t) /\ item(t)[1] = "clone" /\ item(t) \notin Phis /\ ~isTerminator(prog, v) /\ path # <<>>
      /\ held' = [held EXCEPT ![t][v] = now(t)]
      /\ count' = Counted(t, S) /\ wrong' = Judged(t, S)
      /\ pc' = [pc EXCEPT ![t] = @ + 1]
      /\ UNCHANGED <<split, path, at, returned, from, visits, received, queue, argstruct, loaded>>
  BY DEF Execute, Running, struct
<1>2. SInv /\ ControlInv /\ HeldInv /\ CountInv /\ QueueInv /\ StructInv /\ WrongInv /\ phase = "done" /\ predecessor \notin Block
      /\ IsProgram(prog) /\ IInv
  BY <1>1, RunFacts
<1>3. /\ item(t) = Clone(v) /\ v \in instMap[t] /\ v \in Instr /\ parent(v) = at[t]
      /\ v # Terminator(at[t])
  BY <1>1, <1>2, BranchItem
<1>4. item(t) # Clone(Terminator(at[t]))
  BY <1>3, ItemsDiffer
<1>5. Goes(t, D)
  BY <1>1, <1>2, <1>4, GoOn
<1>6. v \notin DOMAIN prog.phi
  BY <1>1, <1>2, <1>3, PhiFacts
<1>7. assigned[v] = t
  BY <1>1, <1>2, <1>3, CloneThere
<1>8. \A x : Clone(x) \in D <=> x = v
  BY <1>3, ItemsDiffer
<1>9. \A c : Produce(c) \notin D /\ Consume(c) \notin D
  BY <1>3, ItemsDiffer
<1>10. now(t) = Done(v) + 1
  <2>1. Times(t, at[t], item(t)) = now(t) - 1 /\ now(t) \in Nat
    BY <1>1, <1>2, ItemFacts
  <2>2. Done(v) = Times(t, at[t], item(t))
    BY <1>3, <1>7 DEF Done
  <2> QED
    BY <2>1, <2>2
<1>11. at[t] # predecessor
  BY <1>1, <1>2 DEF Running
<1>12. Right(t, v)
  BY <1>1, <1>2, <1>3, <1>6, RightClone
<1>13. wrong' = wrong
  BY <1>1, <1>12 DEF Judged
<1>14. /\ DOMAIN held' = Thread /\ \A q \in Thread \ {t} : held'[q] = held[q]
       /\ DOMAIN held'[t] = Instr \cup Range(livein)
       /\ \A u \in Instr \cup Range(livein) : held'[t][u] = IF u \in S THEN now(t) ELSE held[t][u]
  BY <1>1, <1>2, <1>3 DEF HeldInv
<1> HIDE DEF D, v
<1>15. /\ \A x \in Instr : assigned[x] = t /\ ~isTerminator(prog, x) => (x \in S <=> parent(x) = at[t] /\ Clone(x) \in D)
       /\ \A x \in Instr : assigned[x] = t => (x \in S <=> parent(x) = at[t] /\ Clone(x) \in D)
       /\ \A x \in S : x \in Instr /\ now(t) = Done(x) + 1
  BY <1>3, <1>8, <1>10 DEF v
<1> HIDE DEF S
<1>16. HeldInv'
  BY <1>2, <1>5, <1>11, <1>14, <1>15, HeldMore
<1>17. CountInv'
  BY <1>1, <1>2, <1>5, <1>15, CountMore
<1>18. QueueInv'
  BY <1>1, <1>2, <1>5, <1>9, QueueSame
<1>19. StructInv' /\ WrongInv'
  BY <1>1, <1>2, <1>13, StructSame, WrongSame DEF WrongInv
<1> QED
  BY <1>2, <1>5, <1>16, <1>17, <1>18, <1>19, AfterStep

LEMMA ExecutePhisInv ==
  ASSUME RunInv, NEW t \in Thread, ExecutePhis(t) PROVE RunInv'
<1> DEFINE S == {v \in DOMAIN prog.phi \cap instMap[t] : parent(v) = at[t]}
<1>1. /\ Running(t) /\ item(t) \in Phis /\ path # <<>>
      /\ held' = [held EXCEPT ![t] = Over([v \in S |-> now(t)], @)]
      /\ count' = Counted(t, S) /\ wrong' = Judged(t, S)
      /\ pc' = [pc EXCEPT ![t] = getFirstNonPHI(code[t][at[t]])]
      /\ UNCHANGED <<split, path, at, returned, from, visits, received, queue, argstruct, loaded>>
  BY DEF ExecutePhis, Running, struct
<1>2. SInv /\ ControlInv /\ HeldInv /\ CountInv /\ QueueInv /\ StructInv /\ WrongInv /\ phase = "done" /\ predecessor \notin Block
      /\ IsProgram(prog) /\ IInv
  BY <1>1, RunFacts
<1>3. Goes(t, Phis) /\ pc[t] = 1
  BY <1>1, <1>2, GoPhis
<1>4. \A x \in S : x \in Instr /\ ~isTerminator(prog, x) /\ assigned[x] = t
  BY <1>2, PhiFacts, CloneThere
<1>5. \A x \in Instr : assigned[x] = t => (x \in S <=> parent(x) = at[t] /\ Clone(x) \in Phis)
  <2>1. \A x \in Instr : assigned[x] = t => x \in instMap[t]
    BY <1>2, WorkerFacts
  <2> QED
    BY <1>2, <2>1, PhiFacts
<1>6. \A c : Produce(c) \notin Phis /\ Consume(c) \notin Phis
  BY <1>2, PhiFacts
<1>7. ASSUME NEW v \in S PROVE now(t) = Done(v) + 1
  <2>1. parent(v) = at[t] /\ v \in Instr /\ assigned[v] = t
    BY <1>4
  <2>2. at[t] \in Copies(t) /\ Clone(v) \in Items(t, at[t])
    BY <1>2, <2>1, CloneEnds
  <2>3. Done(v) = Times(t, at[t], Clone(v))
    BY <2>1 DEF Done
  <2>4. Done(v) = Met(at[t], Where(t) - 1)
    BY <1>1, <1>2, <1>3, <2>2, <2>3, InOrder
  <2>5. now(t) = Met(at[t], Where(t) - 1) + 1
    BY <1>1, <1>2, <2>2, WhereFacts DEF now
  <2> QED
    BY <2>4, <2>5
<1>8. at[t] # predecessor
  BY <1>1, <1>2 DEF Running
<1>9. /\ DOMAIN held' = Thread /\ \A q \in Thread \ {t} : held'[q] = held[q]
      /\ DOMAIN held'[t] = Instr \cup Range(livein)
      /\ \A u \in Instr \cup Range(livein) : held'[t][u] = IF u \in S THEN now(t) ELSE held[t][u]
  <2>0. \A x \in S : x \in Instr
    BY <1>4
  <2> HIDE DEF S
  <2>1. held'[t] = Over([v \in S |-> now(t)], held[t]) /\ DOMAIN held' = Thread /\ \A q \in Thread \ {t} : held'[q] = held[q]
    BY <1>1, <1>2 DEF HeldInv
  <2>2. DOMAIN held[t] = Instr \cup Range(livein)
    BY <1>2 DEF HeldInv
  <2> QED
    BY <2>0, <2>1, <2>2 DEF Over
<1>10. \A v \in wrong' \ wrong : v \in DOMAIN prog.phi /\ ~Repointed(assigned[v], v)
  <2> SUFFICES ASSUME NEW v \in wrong' \ wrong PROVE v \in DOMAIN prog.phi /\ ~Repointed(assigned[v], v)
    OBVIOUS
  <2>1. v \in S /\ ~Right(t, v)
    BY <1>1 DEF Judged
  <2>2. v \in DOMAIN prog.phi \cap instMap[t] /\ parent(v) = at[t] /\ assigned[v] = t
    BY <1>4, <2>1
  <2>3. ~Repointed(t, v)
    BY <1>1, <1>2, <1>3, <2>1, <2>2, RightPhi
  <2> QED
    BY <2>2, <2>3
<1>11. wrong' \subseteq Instr
  <2>1. S \subseteq Instr
    BY <1>4
  <2> QED
    BY <1>1, <1>2, <2>1 DEF Judged, WrongInv
<1> HIDE DEF S
<1>12. HeldInv'
  BY <1>2, <1>3, <1>4, <1>5, <1>7, <1>8, <1>9, HeldMore
<1>13. CountInv'
  BY <1>1, <1>2, <1>3, <1>5, CountMore
<1>14. QueueInv'
  BY <1>1, <1>2, <1>3, <1>6, QueueSame
<1>15. StructInv' /\ WrongInv'
  BY <1>1, <1>2, <1>10, <1>11, StructSame, WrongSame
<1> QED
  BY <1>2, <1>3, <1>12, <1>13, <1>14, <1>15, AfterStep

LEMMA BranchInv ==
  ASSUME RunInv, NEW t \in Thread, Branch(t) PROVE RunInv'
<1> DEFINE D == {item(t)}
           S == {inst(t)}
           v == inst(t)
           to == target[t][v][After(Place(at[t], now(t)))]
<1>1. /\ Running(t) /\ item(t)[1] = "clone" /\ isTerminator(prog, v) /\ path # <<>>
      /\ count' = Counted(t, S) /\ wrong' = Judged(t, S)
      /\ at' = [at EXCEPT ![t] = to]
      /\ visits' = IF to = exit THEN visits ELSE [visits EXCEPT ![t][to] = @ + 1]
      /\ from' = [from EXCEPT ![t] = at[t]] /\ pc' = [pc EXCEPT ![t] = 1]
      /\ UNCHANGED <<split, path, returned, held, received, queue, argstruct, loaded>>
  BY DEF Branch, Running, struct
<1>2. SInv /\ ControlInv /\ HeldInv /\ CountInv /\ QueueInv /\ StructInv /\ WrongInv /\ phase = "done" /\ predecessor \notin Block
      /\ IsProgram(prog) /\ IInv
  BY <1>1, RunFacts
<1>3. /\ item(t) = Clone(v) /\ v \in instMap[t] /\ v \in Instr /\ parent(v) = at[t]
  BY <1>1, <1>2, BranchItem
<1>4. Goes(t, D)
  BY <1>1, <1>2, GoBranch
<1>5. v \notin DOMAIN prog.phi
  BY <1>1, <1>2, PhiFacts
<1>6. \A x : Clone(x) \in D <=> x = v
  BY <1>3, ItemsDiffer
<1>7. \A c : Produce(c) \notin D /\ Consume(c) \notin D
  BY <1>3, ItemsDiffer
<1>8. at[t] # predecessor
  BY <1>1, <1>2 DEF Running
<1>9. Right(t, v)
  BY <1>1, <1>2, <1>3, <1>5, RightClone
<1>10. wrong' = wrong
  BY <1>1, <1>9 DEF Judged
<1>11. \A x \in Instr : assigned[x] = t => (x \in S <=> parent(x) = at[t] /\ Clone(x) \in D)
  BY <1>3, <1>6
<1>12. \A x \in Instr : Clone(x) \in D => isTerminator(prog, x)
  BY <1>1, <1>6
<1> HIDE DEF D, S, v, to
<1>13. HeldInv'
  BY <1>1, <1>2, <1>4, <1>8, <1>12, HeldSame
<1>14. CountInv'
  BY <1>1, <1>2, <1>4, <1>11, CountMore
<1>15. QueueInv'
  BY <1>1, <1>2, <1>4, <1>7, QueueSame
<1>16. StructInv' /\ WrongInv'
  BY <1>1, <1>2, <1>10, StructSame, WrongSame DEF WrongInv
<1> QED
  BY <1>2, <1>4, <1>13, <1>14, <1>15, <1>16, AfterStep

\* The call at hand is one on a channel of this worker and block.
LEMMA CallItem ==
  ASSUME RunInv, NEW t \in Thread, Running(t), item(t)[1] \in {"produce", "consume"}
  PROVE  /\ inst(t) \in DOMAIN channels /\ parent(Source(inst(t))) = at[t]
         /\ item(t)[1] = "produce" => item(t) = Produce(inst(t)) /\ assigned[Source(inst(t))] = t
         /\ item(t)[1] = "consume" => item(t) = Consume(inst(t)) /\ channels[inst(t)].to = t
         /\ item(t) # Clone(Terminator(at[t])) /\ item(t) \notin Phis
<1>1. item(t) \in Items(t, at[t]) /\ IsProgram(prog)
  BY ItemFacts, RunFacts DEF Running, RunInv
<1>2. item(t) \notin Clones(t, at[t])
  BY DEF Clones, Clone
<1>3. item(t) # Clone(Terminator(at[t])) /\ item(t) \notin Phis
  BY DEF Clone, Phis
<1>4. CASE item(t) \in Produces(t, at[t])
  <2>1. PICK c \in DOMAIN channels : assigned[Source(c)] = t /\ parent(Source(c)) = at[t] /\ item(t) = Produce(c)
    BY <1>4 DEF Produces, Source
  <2>2. inst(t) = c /\ item(t)[1] = "produce"
    BY <2>1 DEF inst, Produce
  <2> QED
    BY <1>3, <2>1, <2>2
<1>5. CASE item(t) \in Consumes(t, at[t])
  <2>1. PICK c \in DOMAIN channels : channels[c].to = t /\ parent(Source(c)) = at[t] /\ item(t) = Consume(c)
    BY <1>5 DEF Consumes, Source
  <2>2. inst(t) = c /\ item(t)[1] = "consume"
    BY <2>1 DEF inst, Consume
  <2> QED
    BY <1>3, <2>1, <2>2
<1> QED
  BY <1>1, <1>2, <1>4, <1>5 DEF Items

LEMMA ProduceInv ==
  ASSUME RunInv, NEW t \in Thread, SyncProduce(t) PROVE RunInv'
<1> DEFINE D == {item(t)}
           c == inst(t)
           x == IF channels[c].edge.dtype = "REG" THEN held[t][Source(c)] ELSE 0
<1>1. /\ Running(t) /\ item(t)[1] = "produce" /\ path # <<>> /\ Len(queue[c]) < QUEUE_MAXLEN
      /\ queue' = [queue EXCEPT ![c] = Append(@, x)]
      /\ pc' = [pc EXCEPT ![t] = @ + 1]
      /\ UNCHANGED <<split, path, at, returned, from, visits, held, received, argstruct, loaded, count, wrong>>
  BY DEF SyncProduce, Running, struct, HasRoom, Source
<1>2. SInv /\ ControlInv /\ HeldInv /\ CountInv /\ QueueInv /\ StructInv /\ WrongInv /\ phase = "done" /\ predecessor \notin Block
      /\ IsProgram(prog) /\ IInv
  BY <1>1, RunFacts
<1>3. /\ c \in DOMAIN channels /\ parent(Source(c)) = at[t] /\ item(t) = Produce(c) /\ assigned[Source(c)] = t
      /\ item(t) # Clone(Terminator(at[t])) /\ item(t) \notin Phis
  BY <1>1, CallItem
<1>4. Goes(t, D)
  BY <1>1, <1>2, <1>3, GoOn
<1>5. at[t] # predecessor
  BY <1>1, <1>2 DEF Running
<1>6. \A y : Clone(y) \notin D /\ Consume(y) \notin D /\ (Produce(y) \in D <=> y = c)
  BY <1>3, ItemsDiffer
<1>7. channels' = channels
  BY <1>1, RunSame
<1>8. x \in Nat /\ (channels[c].edge.dtype = "REG" => x = Sent(c) + 1)
  <2>1. Source(c) \in Instr /\ channels[c].edge \in Range(allEdges) /\ Clone(Source(c)) \in Items(t, at[t])
        /\ at[t] \in Copies(t)
    BY <1>2, <1>3, ChannelEnds, CloneEnds
  <2>2. held[t][Source(c)] \in Nat
    BY <1>2, <2>1 DEF HeldInv
  <2>3. ASSUME channels[c].edge.dtype = "REG" PROVE x = Sent(c) + 1
    <3>1. ~isTerminator(prog, Source(c))
      BY <1>2, <2>1, <2>3 DEF IsProgram, EdgesFit, allEdges, Source
    <3>2. x = Done(Source(c))
      BY <1>2, <1>3, <2>1, <2>3, <3>1 DEF HeldInv
    <3>3. Done(Source(c)) = Times(t, at[t], Clone(Source(c)))
      BY <1>3 DEF Done
    <3>4. Precedes(code[t][at[t]], Clone(Source(c)), item(t))
      BY <1>2, <1>3, <3>1 DEF SInv, OrderInv, SentInv, Source
    <3>5. Times(t, at[t], Clone(Source(c))) = Met(at[t], Where(t))
      BY <1>1, <1>2, <2>1, <3>4, InOrder
    <3>6. Times(t, at[t], item(t)) = now(t) - 1 /\ now(t) = Met(at[t], Where(t)) /\ now(t) \in Nat
      BY <1>1, <1>2, ItemFacts
    <3>7. Sent(c) = Times(t, at[t], item(t))
      BY <1>3 DEF Sent
    <3> QED
      BY <3>2, <3>3, <3>5, <3>6, <3>7
  <2> QED
    BY <2>2, <2>3
<1> HIDE DEF x, c, D
<1>9. QUEUE_MAXLEN \in Nat
  BY PipelineAssumption
<1>10. DOMAIN queue' = DOMAIN channels /\ queue'[c] = Append(queue[c], x) /\ \A d \in DOMAIN channels \ {c} : queue'[d] = queue[d]
  BY <1>1, <1>2, <1>3 DEF QueueInv
<1>11. \A d \in DOMAIN channels : /\ Sent(d) \in Nat /\ Got(d) \in Nat /\ Got(d)' = Got(d)
                                  /\ Sent(d)' = Sent(d) + (IF d = c THEN 1 ELSE 0)
  BY <1>1, <1>2, <1>3, <1>4, <1>6, Counts
<1>12. ASSUME NEW d \in DOMAIN channels PROVE QueueOK(d)'
  <2>1. QueueOK(d)
    BY <1>2 DEF QueueInv
  <2>2. CASE d # c
    BY <1>1, <1>7, <1>10, <1>11, <2>1, <2>2 DEF QueueOK
  <2>3. CASE d = c
    <3>1. queue[d] \in Seq(Nat) /\ Len(queue[d]) \in Nat /\ Sent(d) = Got(d) + Len(queue[d])
      BY <2>1 DEF QueueOK
    <3>2. queue'[d] \in Seq(Nat) /\ Len(queue'[d]) = Len(queue[d]) + 1
      <4> DEFINE r == queue[d]
      <4> HIDE DEF r
      <4>1. r \in Seq(Nat) /\ x \in Nat
        BY <1>8, <3>1 DEF r
      <4>2. Append(r, x) \in Seq(Nat) /\ Len(Append(r, x)) = Len(r) + 1
        BY <4>1
      <4> QED
        BY <1>10, <2>3, <4>2 DEF r
    <3>3. ASSUME channels[d].edge.dtype = "REG", NEW n \in 1..Len(queue'[d]) PROVE queue'[d][n] = Got(d) + n
      <4>1. CASE n = Len(queue[d]) + 1
        <5>1. queue'[d][n] = x
          BY <1>8, <1>10, <2>3, <3>1, <4>1
        <5> QED
          BY <1>8, <1>11, <2>3, <3>1, <3>3, <4>1, <5>1
      <4>2. CASE n # Len(queue[d]) + 1
        <5>1. n \in 1..Len(queue[d])
          BY <3>1, <3>2, <4>2
        <5>2. queue'[d][n] = queue[d][n]
          BY <1>8, <1>10, <2>3, <3>1, <5>1
        <5> QED
          BY <2>1, <3>3, <5>1, <5>2 DEF QueueOK
      <4> QED
        BY <4>1, <4>2
    <3>4. Sent(d)' = Got(d)' + Len(queue'[d])
      BY <1>11, <2>3, <3>1, <3>2
    <3>5. Len(queue'[d]) <= QUEUE_MAXLEN
      BY <1>1, <1>9, <2>3, <3>1, <3>2
    <3>6. received'[d] \in Nat /\ (channels[d].edge.dtype = "REG" => received'[d] = Got(d)')
      BY <1>1, <1>11, <2>1 DEF QueueOK
    <3> QED
      BY <1>7, <1>11, <3>2, <3>3, <3>4, <3>5, <3>6 DEF QueueOK
  <2> QED
    BY <2>2, <2>3
<1>13. QueueInv'
  BY <1>1, <1>2, <1>7, <1>10, <1>12 DEF QueueInv
<1>14. HeldInv'
  BY <1>1, <1>2, <1>4, <1>5, <1>6, HeldSame
<1>15. CountInv'
  BY <1>1, <1>2, <1>4, <1>6, CountSame
<1>16. StructInv' /\ WrongInv'
  BY <1>1, <1>2, StructSame, WrongSame DEF WrongInv
<1> QED
  BY <1>2, <1>4, <1>13, <1>14, <1>15, <1>16, AfterStep

LEMMA ConsumeInv ==
  ASSUME RunInv, NEW t \in Thread, SyncConsume(t) PROVE RunInv'
<1> DEFINE D == {item(t)}
           c == inst(t)
<1>1. /\ Running(t) /\ item(t)[1] = "consume" /\ path # <<>> /\ queue[c] # <<>>
      /\ received' = [received EXCEPT ![c] = Head(queue[c])]
      /\ queue' = [queue EXCEPT ![c] = Tail(@)]
      /\ pc' = [pc EXCEPT ![t] = @ + 1]
      /\ UNCHANGED <<split, path, at, returned, from, visits, held, argstruct, loaded, count, wrong>>
  BY DEF SyncConsume, Running, struct
<1>2. SInv /\ ControlInv /\ HeldInv /\ CountInv /\ QueueInv /\ StructInv /\ WrongInv /\ phase = "done" /\ predecessor \notin Block
      /\ IsProgram(prog) /\ IInv
  BY <1>1, RunFacts
<1>3. /\ c \in DOMAIN channels /\ parent(Source(c)) = at[t] /\ item(t) = Consume(c) /\ channels[c].to = t
      /\ item(t) # Clone(Terminator(at[t])) /\ item(t) \notin Phis
  BY <1>1, CallItem
<1>4. Goes(t, D)
  BY <1>1, <1>2, <1>3, GoOn
<1>5. at[t] # predecessor
  BY <1>1, <1>2 DEF Running
<1>6. \A y : Clone(y) \notin D /\ Produce(y) \notin D /\ (Consume(y) \in D <=> y = c)
  BY <1>3, ItemsDiffer
<1>7. channels' = channels
  BY <1>1, RunSame
<1> HIDE DEF c, D
<1>8. QUEUE_MAXLEN \in Nat
  BY PipelineAssumption
<1>9. /\ DOMAIN queue' = DOMAIN channels /\ queue'[c] = Tail(queue[c]) /\ \A d \in DOMAIN channels \ {c} : queue'[d] = queue[d]
      /\ DOMAIN received' = DOMAIN channels /\ received'[c] = Head(queue[c])
      /\ \A d \in DOMAIN channels \ {c} : received'[d] = received[d]
  BY <1>1, <1>2, <1>3 DEF QueueInv
<1>10. \A d \in DOMAIN channels : /\ Sent(d) \in Nat /\ Got(d) \in Nat /\ Sent(d)' = Sent(d)
                                  /\ Got(d)' = Got(d) + (IF d = c THEN 1 ELSE 0)
  BY <1>1, <1>2, <1>3, <1>4, <1>6, Counts
<1>11. ASSUME NEW d \in DOMAIN channels PROVE QueueOK(d)'
  <2>1. QueueOK(d)
    BY <1>2 DEF QueueInv
  <2>2. CASE d # c
    BY <1>7, <1>9, <1>10, <2>1, <2>2 DEF QueueOK
  <2>3. CASE d = c
    <3>1. /\ queue[d] \in Seq(Nat) /\ Len(queue[d]) \in Nat /\ Sent(d) = Got(d) + Len(queue[d]) /\ Len(queue[d]) <= QUEUE_MAXLEN
          /\ queue[d] # <<>>
      BY <1>1, <2>1, <2>3 DEF QueueOK
    <3>2. /\ Tail(queue[d]) \in Seq(Nat) /\ Len(Tail(queue[d])) = Len(queue[d]) - 1 /\ Len(queue[d]) >= 1
          /\ Head(queue[d]) = queue[d][1] /\ Head(queue[d]) \in Nat
          /\ \A n \in 1..Len(queue[d]) - 1 : Tail(queue[d])[n] = queue[d][n + 1]
      BY <3>1
    <3>3. ASSUME channels[d].edge.dtype = "REG" PROVE received'[d] = Got(d)' /\ \A n \in 1..Len(queue'[d]) : queue'[d][n] = Got(d)' + n
      <4>1. \A n \in 1..Len(queue[d]) : queue[d][n] = Got(d) + n
        BY <2>1, <3>3 DEF QueueOK
      <4>2. received'[d] = Got(d) + 1
        BY <1>9, <2>3, <3>2, <3>1, <4>1
      <4>3. ASSUME NEW n \in 1..Len(queue'[d]) PROVE queue'[d][n] = Got(d)' + n
        <5>1. n \in 1..Len(queue[d]) - 1 /\ n + 1 \in 1..Len(queue[d])
          BY <1>9, <2>3, <3>1, <3>2
        <5>2. queue'[d][n] = Got(d) + (n + 1)
          BY <1>9, <2>3, <3>2, <4>1, <5>1
        <5> QED
          BY <1>10, <2>3, <5>1, <5>2
      <4> QED
        BY <1>10, <2>3, <4>2, <4>3
    <3>4. Sent(d)' = Got(d)' + Len(queue'[d])
      BY <1>9, <1>10, <2>3, <3>1, <3>2
    <3>5. Len(queue'[d]) <= QUEUE_MAXLEN /\ queue'[d] \in Seq(Nat) /\ received'[d] \in Nat
      <4>1. queue'[d] = Tail(queue[d]) /\ received'[d] = Head(queue[d])
        BY <1>9, <2>3
      <4>2. Len(Tail(queue[d])) <= QUEUE_MAXLEN
        BY <1>8, <3>1, <3>2
      <4> QED
        BY <3>2, <4>1, <4>2
    <3> QED
      BY <1>7, <3>3, <3>4, <3>5 DEF QueueOK
  <2> QED
    BY <2>2, <2>3
<1>12. QueueInv'
  BY <1>7, <1>9, <1>11 DEF QueueInv
<1>13. HeldInv'
  BY <1>1, <1>2, <1>4, <1>5, <1>6, HeldSame
<1>14. CountInv'
  BY <1>1, <1>2, <1>4, <1>6, CountSame
<1>15. StructInv' /\ WrongInv'
  BY <1>1, <1>2, StructSame, WrongSame DEF WrongInv
<1> QED
  BY <1>2, <1>4, <1>12, <1>13, <1>14, <1>15, AfterStep

-----------------------------------------------------------------------------
(* The other steps, and the whole *)

LEMMA RunStart == PInit => RunInv
<1> SUFFICES ASSUME PInit PROVE RunInv
  OBVIOUS
<1>1. SInv
  BY SplitStart DEF PInit
<1>2. /\ path = <<>> /\ returned = {} /\ at = [t \in Thread |-> predecessor]
      /\ pc = [t \in Thread |-> 1] /\ from = [t \in Thread |-> predecessor]
      /\ visits = [t \in Thread |-> [b \in Block |-> 0]]
      /\ held = [t \in Thread |-> <<>>] /\ received = <<>> /\ queue = <<>> /\ loaded = <<>>
      /\ count = [v \in Instr |-> 0] /\ wrong = {}
  BY DEF PInit
<1>3. ControlInv
  BY <1>2 DEF ControlInv, Copy
<1>4. DataInv
  BY <1>2 DEF DataInv, WrongInv, SameValues
<1> QED
  BY <1>1, <1>3, <1>4 DEF RunInv

\* Before the loop is launched only the workers change.
LEMMA BeforeInv ==
  ASSUME RunInv, path = <<>>, SInv', prog' = prog, UNCHANGED run
  PROVE  RunInv'
<1>1. UNCHANGED <<path, at, returned, pc, from, visits, held, received, queue, argstruct, loaded, count, wrong>>
  BY DEF run, control, struct
<1>2. Instr' = Instr
  BY ProgramSame
<1>3. ControlInv'
  BY <1>1 DEF RunInv, ControlInv, Copy
<1>4. DataInv'
  <2>1. wrong' = {}
    BY <1>1 DEF RunInv, DataInv
  <2> QED
    BY <1>1, <1>2, <2>1 DEF RunInv, DataInv, WrongInv, SameValues
<1> QED
  BY <1>3, <1>4 DEF RunInv

LEMMA SplitEnds == Split => prog' = prog /\ phase # "done"
<1> SUFFICES ASSUME Split PROVE prog' = prog /\ phase # "done"
  OBVIOUS
<1>1. CASE GetLiveinfo
  BY <1>1 DEF GetLiveinfo
<1>2. CASE FindRelevant
  BY <1>2 DEF FindRelevant
<1>3. ASSUME NEW BB \in todo, CopyBlock(BB) PROVE prog' = prog /\ phase # "done"
  BY <1>3 DEF CopyBlock
<1>4. CASE NextThread
  BY <1>4 DEF NextThread
<1>5. CASE InsertChannel
  BY <1>5 DEF InsertChannel
<1>6. CASE CannotInsert
  BY <1>6 DEF CannotInsert
<1>7. CASE SkipThread
  BY <1>7 DEF SkipThread
<1>8. CASE Cleanup
  BY <1>8 DEF Cleanup
<1> QED
  BY <1>1, <1>2, <1>3, <1>4, <1>5, <1>6, <1>7, <1>8 DEF Split

LEMMA SplitRunInv ==
  ASSUME RunInv, Split, UNCHANGED run PROVE RunInv'
<1>1. prog' = prog /\ phase # "done"
  BY SplitEnds
<1>2. path = <<>>
  BY <1>1 DEF RunInv, ControlInv
<1>3. SInv'
  BY SplitStep DEF RunInv
<1> QED
  BY <1>1, <1>2, <1>3, BeforeInv

\* Steps in which no worker goes on.
LEMMA IdleInv ==
  ASSUME RunInv, path # <<>>, StructInv',
         UNCHANGED <<split, path, control, held, received, queue, count, wrong>>
  PROVE  RunInv'
<1> DEFINE D == {}
<1>1. UNCHANGED <<split, path, at, returned, pc, from, visits, held, received, queue, count, wrong>>
  BY DEF control
<1>2. SInv /\ ControlInv /\ HeldInv /\ CountInv /\ QueueInv /\ WrongInv
  BY RunFacts
<1>3. PICK t \in Thread : TRUE
  BY Numbers
<1>4. AtInv(t)
  BY <1>2 DEF ControlInv
<1>5. AtInv(t)' /\ \A b, x : Times(t, b, x)' = Times(t, b, x)
  BY <1>1, <1>4, Stays
<1>6. \A x : x \notin D
  OBVIOUS
<1> HIDE DEF D
<1>7. \A b \in Copies(t) : \A x \in Items(t, b) :
        Times(t, b, x)' = Times(t, b, x) + (IF b = at[t] /\ x \in D THEN 1 ELSE 0)
  <2>1. \A b \in Copies(t) : \A x : Times(t, b, x) \in Nat
    BY <1>2, WhereFacts
  <2> QED
    BY <1>5, <1>6, <2>1
<1>8. /\ at' \in [Thread -> Copy] /\ from' \in [Thread -> Block \cup {predecessor}]
      /\ pc' \in [Thread -> Nat \ {0}] /\ returned' \subseteq Thread /\ DOMAIN visits' = Thread
      /\ \A q \in Thread \ {t} : /\ at'[q] = at[q] /\ pc'[q] = pc[q] /\ from'[q] = from[q]
                                 /\ visits'[q] = visits[q] /\ (q \in returned' <=> q \in returned)
  BY <1>1, <1>2 DEF ControlInv, Copy
<1>9. Goes(t, D)
  BY <1>1, <1>2, <1>5, <1>7, <1>8, GoesAlone
<1>10. HeldInv' /\ CountInv' /\ QueueInv' /\ WrongInv'
  <2>1. HeldInv'
    BY <1>1, <1>2, <1>6, <1>9, HeldSame
  <2>2. CountInv' /\ QueueInv'
    BY <1>1, <1>2, <1>6, <1>9, CountSame, QueueSame
  <2>3. WrongInv'
    BY <1>1, <1>2, WrongSame DEF WrongInv
  <2> QED
    BY <2>1, <2>2, <2>3
<1> QED
  BY <1>2, <1>9, <1>10, AfterStep

LEMMA RunStutter ==
  ASSUME RunInv, UNCHANGED vars PROVE RunInv'
<1>1. UNCHANGED <<split, run>>
  BY DEF vars
<1>2. CASE path = <<>>
  <2>1. SInv'
    BY <1>1, SplitSame DEF RunInv
  <2>2. prog' = prog
    BY <1>1 DEF split
  <2> QED
    BY <1>1, <1>2, <2>1, <2>2, BeforeInv
<1>3. CASE path # <<>>
  <2>1. UNCHANGED <<split, path, control, held, received, queue, count, wrong, argstruct, loaded, returned>>
    BY <1>1 DEF run, struct, control
  <2>2. StructInv
    BY <1>3, RunFacts
  <2>3. StructInv'
    BY <2>1, <2>2, StructSame
  <2> QED
    BY <1>3, <2>1, <2>3, IdleInv
<1> QED
  BY <1>2, <1>3

LEMMA JoinInv ==
  ASSUME RunInv, JoinAndLoad PROVE RunInv'
<1>1. /\ path # <<>> /\ returned = Thread /\ loaded' = argstruct.out
      /\ UNCHANGED <<split, path, control, held, received, queue, argstruct, count, wrong>>
  BY DEF JoinAndLoad
<1>2. StructInv
  BY <1>1, RunFacts
<1>3. UNCHANGED <<livein, liveout, prog, path>> /\ assigned' = assigned /\ \A b, j : Met(b, j)' = Met(b, j)
  BY <1>1, RunSame
<1>4. returned' = returned
  BY <1>1 DEF control
<1>5. StructInv'
  BY <1>1, <1>2, <1>3, <1>4 DEF StructInv, parent
<1> QED
  BY <1>1, <1>5, IdleInv

LEMMA LaunchInv ==
  ASSUME RunInv, NEW p \in Paths[MaxPath][header], Launch(p) PROVE RunInv'
<1>1. /\ phase = "done" /\ path = <<>> /\ path' = p
      /\ argstruct' = [ins |-> [n \in DOMAIN livein |-> Value(livein[n], 0)],
                       out |-> [n \in DOMAIN liveout |-> Unset]]
      /\ queue' = [c \in DOMAIN channels |-> <<>>]
      /\ received' = [c \in DOMAIN channels |-> Unset]
      /\ held' = [t \in Thread |-> [u \in Instr \cup Range(livein) |-> Unset]]
      /\ returned' = {t \in Thread : code[t] = <<>>}
      /\ UNCHANGED <<split, at, pc, from, visits, loaded, count, wrong>>
  BY DEF Launch
<1>2. SInv /\ ControlInv /\ DataInv
  BY DEF RunInv
<1>3. IsProgram(prog) /\ IInv
  BY <1>2, SplitAssumption DEF SInv, IInv, PhaseInv
<1>4. IsWalk(p, header) /\ Len(p) \in 1..MaxPath
  BY <1>3, PathsWalk
<1>5. /\ NumBlock \in Nat \ {0} /\ header \in Block /\ header # exit /\ predecessor \notin Block /\ exit \notin Block
      /\ predecessor # exit
  BY LoopAssumption DEF header, exit, Block, predecessor
<1>6. UNCHANGED <<prog, phase, livein, liveout, code, target, instMap, stores, operand, channels>>
      /\ Instr' = Instr /\ assigned' = assigned
  <2>1. UNCHANGED <<prog, phase, livein, liveout, code, target, instMap, stores, operand, channels>>
    BY <1>1 DEF split, live
  <2> QED
    BY <2>1, ProgramSame
<1>7. OnPath' /\ path' # <<>>
  <2>1. p \in Seq(Block) /\ Len(p) >= 1 /\ p[1] = header
    BY <1>4, <1>5 DEF IsWalk
  <2>2. \A j \in 1..Len(p) : p[j] \in Block /\ (IF j = Len(p) THEN exit ELSE p[j + 1]) \in prog.cfg[p[j]]
    BY <1>4, <2>1 DEF IsWalk
  <2>3. p # <<>>
    BY <2>1
  <2> QED
    BY <1>1, <1>4, <1>6, <2>1, <2>2, <2>3 DEF OnPath, After
<1>8. /\ at = at' /\ \A t \in Thread : at[t] = predecessor /\ from[t] = predecessor /\ pc[t] = 1
                                       /\ visits[t] = [b \in Block |-> 0]
      /\ at \in [Thread -> Copy] /\ from \in [Thread -> Block \cup {predecessor}]
      /\ pc \in [Thread -> Nat \ {0}] /\ DOMAIN visits = Thread
  BY <1>1, <1>2 DEF ControlInv
<1>9. \A b : Met(b, 0)' = 0
  <2>1. \A b : {m \in 1..0 : path'[m] = b} = {}
    OBVIOUS
  <2> QED
    BY <2>1, FS_EmptySet DEF Met
<1>10. ASSUME NEW t \in Thread PROVE AtInv(t)'
  <2>1. Where(t)' = 0
    BY <1>8 DEF Where
  <2>2. Copies(t)' = Copies(t) /\ Copies(t) \subseteq Block /\ (code[t] = <<>> <=> Copies(t) = {})
    BY <1>1, <1>2, <1>6, WorkerFacts DEF Copies
  <2>3. t \in returned' <=> Copies(t) = {}
    BY <1>1, <2>2
  <2>4. visits'[t] = [b \in Block |-> 0] /\ at'[t] = predecessor /\ pc'[t] = 1 /\ from'[t] = predecessor
    BY <1>1, <1>8
  <2>5. visits'[t] = [b \in Block |-> IF b \in Copies(t) THEN Met(b, Where(t))' ELSE 0]
    BY <1>9, <2>1, <2>4
  <2> QED
    BY <1>5, <2>2, <2>3, <2>4, <2>5 DEF AtInv
<1>11. ControlInv'
  <2>1. returned' \subseteq Thread
    BY <1>1
  <2>2. /\ at' \in [Thread -> Copy] /\ from' \in [Thread -> Block \cup {predecessor}]
        /\ pc' \in [Thread -> Nat \ {0}] /\ DOMAIN visits' = Thread /\ phase' = "done"
    BY <1>1, <1>6, <1>8 DEF Copy
  <2> QED
    BY <1>7, <1>10, <2>1, <2>2 DEF ControlInv
<1>12. ASSUME NEW t \in Thread, NEW b \in Block, NEW x PROVE Times(t, b, x)' = 0
  <2>1. at'[t] # b /\ visits'[t][b] = 0
    BY <1>1, <1>5, <1>8
  <2>2. ~Ahead(t, b, x)'
    BY <2>1 DEF Ahead
  <2>3. Times(t, b, x)' = visits'[t][b] - (IF Ahead(t, b, x)' THEN 1 ELSE 0)
    BY DEF Times
  <2>4. (IF Ahead(t, b, x)' THEN 1 ELSE 0) = 0
    BY <2>2
  <2> DEFINE z == IF Ahead(t, b, x)' THEN 1 ELSE 0
  <2>5. Times(t, b, x)' = visits'[t][b] - z /\ z = 0
    BY <2>3, <2>4
  <2> HIDE DEF z
  <2> QED
    BY <2>1, <2>5
<1>13. \A v \in Instr : Done(v)' = 0
  <2> SUFFICES ASSUME NEW v \in Instr PROVE Done(v)' = 0
    OBVIOUS
  <2>1. PICK q, b, x : q \in Thread /\ b \in Block /\ q = assigned[v] /\ b = parent(v) /\ x = Clone(v)
    BY <1>3, EdgeFacts, InstrFacts
  <2>2. Done(v)' = Times(q, b, x)'
    BY <1>6, <2>1 DEF Done, Times, Ahead, parent, Clone
  <2> QED
    BY <1>12, <2>1, <2>2
<1>14. \A c \in DOMAIN channels : Sent(c)' = 0 /\ Got(c)' = 0
  <2> SUFFICES ASSUME NEW c \in DOMAIN channels PROVE Sent(c)' = 0 /\ Got(c)' = 0
    OBVIOUS
  <2>1. Source(c) \in Instr /\ assigned[Source(c)] \in Thread /\ channels[c].to \in Thread /\ parent(Source(c)) \in Block
    BY <1>1, <1>2, <1>3, ChannelEnds, InstrFacts
  <2>2. PICK q, r, b, x, y : /\ q \in Thread /\ r \in Thread /\ b \in Block /\ q = assigned[Source(c)] /\ r = channels[c].to
                             /\ b = parent(Source(c)) /\ x = Produce(c) /\ y = Consume(c)
    BY <2>1
  <2>3. Sent(c)' = Times(q, b, x)'
    BY <1>6, <2>2 DEF Sent, Source, Times, Ahead, parent, Produce
  <2>4. Got(c)' = Times(r, b, y)'
    BY <1>6, <2>2 DEF Got, Source, Times, Ahead, parent, Consume
  <2> QED
    BY <1>12, <2>2, <2>3, <2>4
<1>15. HeldInv'
  <2>1. /\ DOMAIN held' = Thread
        /\ \A t \in Thread : DOMAIN held'[t] = Instr \cup Range(livein)
                             /\ \A u \in Instr \cup Range(livein) : held'[t][u] = 0
    BY <1>1 DEF Unset
  <2>2. \A t \in Thread : at'[t] = predecessor
    BY <1>8
  <2> QED
    BY <1>6, <1>13, <2>1, <2>2 DEF HeldInv
<1>16. CountInv'
  <2>1. count' = [v \in Instr |-> 0]
    BY <1>1, <1>2 DEF DataInv
  <2> QED
    BY <1>6, <1>13, <2>1 DEF CountInv
<1>17. QueueInv'
  <2>1. ASSUME NEW c \in DOMAIN channels PROVE QueueOK(c)'
    <3>1. queue'[c] = <<>> /\ received'[c] = 0
      BY <1>1 DEF Unset
    <3>2. Len(<<>>) = 0 /\ <<>> \in Seq(Nat) /\ QUEUE_MAXLEN \in Nat
      BY PipelineAssumption
    <3> QED
      BY <1>14, <3>1, <3>2 DEF QueueOK
  <2> QED
    BY <1>1, <1>6, <2>1 DEF QueueInv
<1>18. StructInv'
  <2>1. livein \in Seq({predecessor} \X Nat) /\ liveout \in Seq(prog.usedAfter)
    BY <1>1, <1>2 DEF SInv, ValueInv, LiveInv
  <2>2. \A n \in DOMAIN livein : Value(livein[n], 0) = livein[n][2]
    <3> SUFFICES ASSUME NEW n \in DOMAIN livein PROVE Value(livein[n], 0) = livein[n][2]
      OBVIOUS
    <3>1. livein[n] \in {predecessor} \X Nat
      BY <2>1
    <3> QED
      BY <3>1 DEF Value, parent
  <2>3. \A n \in DOMAIN liveout : assigned[liveout[n]] \notin returned'
    <3> SUFFICES ASSUME NEW n \in DOMAIN liveout PROVE assigned[liveout[n]] \notin returned'
      OBVIOUS
    <3> DEFINE v == liveout[n]
    <3>1. v \in prog.usedAfter
      BY <2>1
    <3> HIDE DEF v
    <3>2. v \in Instr
      BY <1>3, <3>1 DEF IsProgram, Instr
    <3>3. assigned[v] \in Thread /\ Copies(assigned[v]) # {}
      BY <1>1, <1>2, <3>2, CloneEnds
    <3>4. code[assigned[v]] # <<>>
      BY <1>1, <1>2, <3>3, WorkerFacts
    <3> QED
      BY <1>1, <3>4 DEF v
  <2>4. loaded' = <<>>
    BY <1>1, <1>2 DEF DataInv
  <2>5. /\ argstruct' = [ins |-> argstruct'.ins, out |-> argstruct'.out]
        /\ argstruct'.ins = [n \in DOMAIN livein |-> livein[n][2]]
        /\ DOMAIN argstruct'.out = DOMAIN liveout
    BY <1>1, <2>2
  <2> QED
    BY <1>6, <2>3, <2>4, <2>5 DEF StructInv
<1>19. WrongInv'
  <2>1. wrong' = {}
    BY <1>1, <1>2 DEF DataInv
  <2> QED
    BY <2>1 DEF WrongInv, SameValues
<1>20. SInv'
  BY <1>1, <1>2, SplitSame
<1> QED
  BY <1>7, <1>11, <1>15, <1>16, <1>17, <1>18, <1>19, <1>20 DEF RunInv, DataInv

LEMMA RunStep ==
  ASSUME RunInv, [PNext]_vars PROVE RunInv'
<1>1. CASE Split /\ UNCHANGED run
  BY <1>1, SplitRunInv
<1>2. ASSUME NEW p \in Paths[MaxPath][header], Launch(p) PROVE RunInv'
  BY <1>2, LaunchInv
<1>3. ASSUME NEW t \in Thread, Step(t) PROVE RunInv'
  BY <1>3, EnterInv, LeaveInv, ExecutePhisInv, ExecuteInv, ProduceInv, ConsumeInv, BranchInv DEF Step
<1>4. CASE JoinAndLoad
  BY <1>4, JoinInv
<1>5. CASE UNCHANGED vars
  BY <1>5, RunStutter
<1> QED
  BY <1>1, <1>2, <1>3, <1>4, <1>5 DEF PNext

\* The inductive invariant of the workers as they run, for every program, path and capacity:
\* each goes along the path from one of its copied blocks to the next, every register holds
\* the value of the latest execution, and a queue the values sent and not yet received.
THEOREM RunInductive == PSpec => []RunInv
<1>1. RunInv /\ [PNext]_vars => RunInv'
  BY RunStep
<1> QED
  BY RunStart, <1>1, PTL DEF PSpec

\* No instruction ever reads another value than in the loop, however far apart the workers
\* are (DSWP_5.cpp:34-76, 142-160), but for the phi nodes that are not repointed right.
THEOREM ValuesSame == PSpec => []SameValues
<1>1. RunInv => SameValues
  BY DEF RunInv, DataInv, WrongInv
<1> QED
  BY RunInductive, <1>1, PTL

LEMMA DoneAtEnd == RunInv => AllDone
<1> SUFFICES ASSUME RunInv, returned = Thread
             PROVE  /\ \A v \in Instr : count[v] = Met(parent(v), Len(path))
                    /\ \A c \in DOMAIN queue : queue[c] = <<>>
  BY DEF AllDone
<1>1. path # <<>>
  <2>1. ControlInv /\ 0 \in Thread
    BY Numbers DEF RunInv
  <2> QED
    BY <2>1 DEF ControlInv
<1>2. SInv /\ ControlInv /\ CountInv /\ QueueInv /\ phase = "done" /\ OnPath /\ IsProgram(prog)
      /\ predecessor \notin Block /\ exit \notin Block /\ predecessor # exit
  BY <1>1, RunFacts
<1>3. ASSUME NEW t \in Thread, NEW b \in Copies(t), NEW x \in Items(t, b)
      PROVE  Times(t, b, x) = Met(b, Len(path))
  <2>1. at[t] = exit
    BY <1>1, <1>2 DEF ControlInv, AtInv
  <2>2. Where(t) = Len(path)
    BY <1>2, <2>1 DEF Where
  <2>3. at[t] # b
    BY <1>1, <1>2, <2>1, WhereFacts
  <2> QED
    BY <1>1, <1>2, <2>2, <2>3, InOrder
<1>4. \A v \in Instr : count[v] = Met(parent(v), Len(path))
  BY <1>2, <1>3, CloneEnds DEF CountInv, Done
<1>5. ASSUME NEW c \in DOMAIN queue PROVE queue[c] = <<>>
  <2>1. c \in DOMAIN channels /\ QueueOK(c)
    BY <1>2 DEF QueueInv
  <2>2. Sent(c) = Met(parent(Source(c)), Len(path)) /\ Got(c) = Met(parent(Source(c)), Len(path))
    BY <1>2, <1>3, <2>1, ChannelEnds DEF Sent, Got
  <2>3. Met(parent(Source(c)), Len(path)) \in Nat
    <3>1. Len(path) \in Nat
      BY <1>2, PathFacts
    <3> QED
      BY <3>1, MetFacts
  <2>4. queue[c] \in Seq(Nat) /\ Sent(c) = Got(c) + Len(queue[c]) /\ Len(queue[c]) \in Nat
    BY <2>1 DEF QueueOK
  <2>5. Len(queue[c]) = 0
    BY <2>2, <2>3, <2>4
  <2> QED
    BY <2>4, <2>5
<1> QED
  BY <1>4, <1>5

\* When the workers have all returned nothing was left out or done once too often, and each
\* value produced was consumed (DSWP_5.cpp:34-36).
THEOREM LoopDone == PSpec => []AllDone
BY RunInductive, DoneAtEnd, PTL

LEMMA LoadedAtEnd == RunInv => LiveOutsLoaded
<1> SUFFICES ASSUME RunInv, loaded # <<>>, NEW n \in DOMAIN liveout
             PROVE  loaded[n] = Met(parent(liveout[n]), Len(path))
  BY DEF LiveOutsLoaded
<1>1. path # <<>>
  BY DEF RunInv, DataInv
<1>2. SInv /\ StructInv /\ phase = "done" /\ IsProgram(prog)
  BY <1>1, RunFacts
<1>3. liveout \in Seq(prog.usedAfter)
  BY <1>2 DEF SInv, ValueInv, LiveInv
<1> DEFINE v == liveout[n]
<1>4. v \in prog.usedAfter
  BY <1>3
<1> HIDE DEF v
<1>5. v \in Instr
  BY <1>2, <1>4 DEF IsProgram, Instr
<1>6. assigned[v] \in Thread
  BY <1>2, <1>5, CloneEnds
<1> QED
  BY <1>2, <1>6 DEF StructInv, v

\* The code after the loop gets the last value of every live-out (DSWP_4.cpp:152, 463-480).
THEOREM OutsLoaded == PSpec => []LiveOutsLoaded
BY RunInductive, LoadedAtEnd, PTL

\* Memory: in one worker by the order of the clones, between two by the tokens of their
\* channel, which is sent to after the first access and received from before the second.
LEMMA MemoryKept == RunInv => MemoryOrder
<1> SUFFICES ASSUME RunInv, path # <<>>, NEW f \in Range(allEdges), f.dtype = "MEM", count[f.v] > 0
             PROVE  LET j == Place(parent(f.v), count[f.v])
                    IN count[f.u] >= IF parent(f.u) # parent(f.v) \/ f.u[2] < f.v[2]
                                     THEN Met(parent(f.u), j) ELSE Met(parent(f.u), j - 1)
  BY DEF MemoryOrder
<1> DEFINE u == f.u
           v == f.v
           q == assigned[u]
           t == assigned[v]
           a == parent(u)
           b == parent(v)
           j == Place(b, Times(t, b, Clone(v)))
<1>1. SInv /\ ControlInv /\ CountInv /\ QueueInv /\ phase = "done" /\ OnPath /\ IsProgram(prog) /\ IInv
  BY RunFacts
<1>2. u \in Instr /\ v \in Instr /\ assigned[u] <= assigned[v]
  BY <1>1, EdgeFacts
<1>3. ~isTerminator(prog, u) /\ v \notin DOMAIN prog.phi
  BY <1>1 DEF IsProgram, EdgesFit, allEdges
<1>4. /\ q \in Thread /\ a \in Copies(q) /\ Clone(u) \in Items(q, a) /\ u \in instMap[q]
      /\ t \in Thread /\ b \in Copies(t) /\ Clone(v) \in Items(t, b) /\ v \in instMap[t]
  BY <1>1, <1>2, CloneEnds
<1>5. count[v] = Times(t, b, Clone(v)) /\ count[u] = Times(q, a, Clone(u))
  BY <1>1, <1>2 DEF CountInv, Done
<1>6. Times(t, b, Clone(v)) > 0
  BY <1>5
<1> SUFFICES /\ a # b \/ u[2] < v[2] => Times(q, a, Clone(u)) >= Met(a, j)
             /\ Times(q, a, Clone(u)) >= Met(a, j - 1)
  BY <1>5
<1>7. CASE q = t
  <2>1. a = b /\ u[2] < v[2] => Precedes(code[t][a], Clone(u), Clone(v))
    BY <1>1, <1>4, <1>7 DEF SInv, OrderInv, KeptInv, Copies
  <2>2. a \in Copies(t) /\ Clone(u) \in Items(t, a)
    BY <1>4, <1>7
  <2> HIDE DEF u, v, q, t, a, b
  <2>3. /\ a # b \/ Precedes(code[t][a], Clone(u), Clone(v)) => Times(t, a, Clone(u)) >= Met(a, j)
        /\ Times(t, a, Clone(u)) >= Met(a, j - 1)
    BY <1>1, <1>4, <1>6, <2>2, Behind
  <2> QED
    BY <1>7, <2>1, <2>3
<1>8. CASE q # t
  <2>1. PICK k0 \in 1..Len(allEdges) : allEdges[k0] = f
    BY <1>1, EdgeFacts
  <2>2. k = Len(allEdges) + 1
    BY <1>1 DEF IInv, PhaseInv
  <2>3. Len(allEdges) \in Nat
    BY <1>1, EdgeFacts
  <2>4. Passed(k0, t)
    BY <2>2, <2>3 DEF Passed
  <2>5. Needs(allEdges[k0], t)
    BY <1>2, <1>4, <1>8, <2>1, Numbers DEF Needs
  <2>6. PICK c \in DOMAIN channels : channels[c].edge = f /\ channels[c].to = t
    BY <1>1, <1>4, <2>1, <2>4, <2>5 DEF SInv, LinkInv, SeenInv
  <2>7. Source(c) = u
    BY <2>6 DEF Source
  <2>8. Produce(c) \in Items(q, a) /\ a \in Copies(t) /\ Consume(c) \in Items(t, a)
    BY <1>1, <2>6, <2>7, ChannelEnds
  <2>9. Sent(c) = Times(q, a, Produce(c)) /\ Got(c) = Times(t, a, Consume(c))
    BY <2>6, <2>7 DEF Sent, Got
  <2>10. Precedes(code[q][a], Clone(u), Produce(c))
    BY <1>1, <1>3, <2>7 DEF SInv, OrderInv, SentInv, Source
  <2>11. a = b /\ u[2] < v[2] => Precedes(code[t][a], Consume(c), Clone(v))
    BY <1>1, <1>3, <1>4, <2>6, <2>7 DEF SInv, OrderInv, GotInv, Source
  <2>12. Sent(c) \in Nat /\ Got(c) \in Nat /\ Times(q, a, Clone(u)) \in Nat
    BY <1>1, <1>4, <2>8, <2>9, InOrder
  <2>13. Sent(c) >= Got(c)
    <3>1. queue[c] \in Seq(Nat) /\ Sent(c) = Got(c) + Len(queue[c])
      BY <1>1 DEF QueueInv, QueueOK
    <3>2. Len(queue[c]) \in Nat
      BY <3>1
    <3> QED
      BY <2>12, <3>1, <3>2
  <2> HIDE DEF u, v, q, t, a, b
  <2>14. Times(q, a, Clone(u)) >= Times(q, a, Produce(c))
    BY <1>1, <1>4, <2>8, <2>10, InOrder
  <2>15. /\ a # b \/ Precedes(code[t][a], Consume(c), Clone(v)) => Times(t, a, Consume(c)) >= Met(a, j)
         /\ Times(t, a, Consume(c)) >= Met(a, j - 1)
    BY <1>1, <1>4, <1>6, <2>8, Behind
  <2>16. Met(a, j) \in Nat /\ Met(a, j - 1) \in Nat
    <3>1. j \in 1..Len(path) /\ Len(path) \in Nat
      BY <1>1, <1>4, <1>6, <2>8, Behind, PathFacts
    <3>2. j \in Nat /\ j - 1 \in Nat
      BY <3>1
    <3> QED
      BY <3>2, MetFacts
  <2>17. Times(q, a, Clone(u)) >= Times(t, a, Consume(c)) /\ Times(t, a, Consume(c)) \in Nat
    BY <2>9, <2>12, <2>13, <2>14
  <2> QED
    BY <2>11, <2>12, <2>15, <2>16, <2>17
<1> QED
  BY <1>7, <1>8

\* Two accesses that depend on each other happen in the order of the loop, in whichever
\* workers they are: the tokens of their channel see to it (DSWP_5.cpp:86-90).
THEOREM MemoryInOrder == PSpec => []MemoryOrder
BY RunInductive, MemoryKept, PTL

-----------------------------------------------------------------------------
(* Types *)

\* What else is needed of the workers as they are made.
ShapeInv ==
  /\ idom = Dominators(Entries(prog.cfg), predecessor)
  /\ relbb \subseteq Block /\ todo \subseteq relbb
  /\ \A t \in Thread :
       /\ \A p \in DOMAIN target[t] : p \in Instr /\ Range(target[t][p]) \subseteq Copy
       /\ t >= i => stores[t] = {}
       /\ \A o \in DOMAIN operand[t] : operand[t][o] \in DOMAIN channels

\* The entry of a loop comes before every block, and so dominates it.
LEMMA EntriesReach ==
  ASSUME NEW cfg, IsLoop(cfg), NEW F, F = Transposed(Entries(cfg))
  PROVE  /\ IsFiniteSet(F) /\ AllReach(F, predecessor)
         /\ NodesOf(F, predecessor) \subseteq Copy
         /\ \A f \in Entries(cfg) : f[1] \in NodesOf(F, predecessor)
<1> DEFINE E == EdgesOf(cfg)
           Inner == {f \in E : f[2] # exit}
           Back == Transposed(Inner)
           V == NodesOf(F, predecessor)
<1>1. (\E b \in Block : exit \in cfg[b]) /\ Reaching(Back, header, exit) = Block
  BY DEF IsLoop
<1>2. /\ IsFiniteSet(E) /\ E \subseteq Block \X (Block \cup {exit})
      /\ header \in Block /\ exit \notin Block
  BY LoopFinite
<1>3. Entries(cfg) = E \cup {<<predecessor, header>>}
  BY DEF Entries
<1>4. IsFiniteSet(F)
  <2> DEFINE swap == [f \in Entries(cfg) |-> <<f[2], f[1]>>]
  <2>1. swap \in Surjection(Entries(cfg), F)
    BY DEF Surjection, Transposed
  <2>2. IsFiniteSet(Entries(cfg))
    BY <1>2, <1>3, FS_AddElement
  <2> QED
    BY <2>1, <2>2, FS_Surjection
<1>5. IsFiniteSet(Back)
  <2> DEFINE swap == [f \in Inner |-> <<f[2], f[1]>>]
  <2>1. swap \in Surjection(Inner, Back)
    BY DEF Surjection, Transposed
  <2>2. IsFiniteSet(Inner)
    BY <1>2, FS_Subset
  <2> QED
    BY <2>1, <2>2, FS_Surjection
<1>6. \A f \in Entries(cfg) : <<f[2], f[1]>> \in F
  BY DEF Transposed
<1>7. \A g \in F : \E f \in Entries(cfg) : g = <<f[2], f[1]>>
  BY DEF Transposed
<1>8. V \subseteq Copy
  <2>1. V = {predecessor} \cup {g[1] : g \in F} \cup {g[2] : g \in F}
    BY DEF NodesOf
  <2>2. ASSUME NEW g \in F PROVE g[1] \in Copy /\ g[2] \in Copy
    <3>1. PICK f \in Entries(cfg) : g = <<f[2], f[1]>>
      BY <1>7
    <3>2. f[1] \in Block \cup {predecessor} /\ f[2] \in Block \cup {exit}
      BY <1>2, <1>3
    <3> QED
      BY <3>1, <3>2 DEF Copy
  <2>3. predecessor \in Copy
    BY DEF Copy
  <2> HIDE DEF V
  <2> QED
    BY <2>1, <2>2, <2>3
<1>9. \A f \in Entries(cfg) : f[1] \in V
  <2> SUFFICES ASSUME NEW f \in Entries(cfg) PROVE f[1] \in V
    OBVIOUS
  <2>1. <<f[2], f[1]>> \in F /\ <<f[2], f[1]>>[2] = f[1]
    BY <1>6
  <2> QED
    BY <2>1 DEF NodesOf
<1>10. ASSUME NEW S \in SUBSET V, predecessor \in S, \A g \in F : g[2] \in S => g[1] \in S
       PROVE  S = V
  <2>1. ASSUME NEW f \in Entries(cfg), f[1] \in S PROVE f[2] \in S
    <3> DEFINE g == <<f[2], f[1]>>
    <3>1. g \in F /\ g[1] = f[2] /\ g[2] = f[1]
      BY <1>6
    <3> HIDE DEF g
    <3> QED
      BY <1>10, <2>1, <3>1
  <2>2. header \in S
    <3> DEFINE f == <<predecessor, header>>
    <3>1. f \in Entries(cfg) /\ f[1] = predecessor /\ f[2] = header
      BY <1>3
    <3> HIDE DEF f
    <3> QED
      BY <1>10, <2>1, <3>1
  <2>3. Block \subseteq S
    <3>1. ASSUME NEW g \in Back, g[2] \in S PROVE g[1] \in S
      <4>1. PICK f \in Inner : g = <<f[2], f[1]>>
        BY DEF Transposed
      <4> QED
        BY <1>3, <2>1, <3>1, <4>1
    <3> HIDE DEF Back
    <3>2. Reaching(Back, header, exit) \subseteq S
      BY <1>5, <2>2, <3>1, ReachLeast
    <3> QED
      BY <1>1, <3>2 DEF Back
  <2>4. exit \in S
    <3>1. PICK b \in Block : exit \in cfg[b]
      BY <1>1
    <3> DEFINE f == <<b, exit>>
    <3>2. f \in Entries(cfg) /\ f[1] = b /\ f[2] = exit
      BY <1>3, <3>1 DEF EdgesOf
    <3> HIDE DEF f
    <3> QED
      BY <2>1, <2>3, <3>2
  <2>5. Copy \subseteq S
    BY <1>10, <2>3, <2>4 DEF Copy
  <2> QED
    BY <1>8, <2>5
<1>11. AllReach(F, predecessor)
  BY <1>10 DEF AllReach
<1> QED
  BY <1>4, <1>8, <1>9, <1>11

\* A phi node's way in is moved to a block that has a copy, or to the new entry.
LEMMA BBMapCopy ==
  ASSUME IsProgram(prog), ShapeInv, NEW x \in DOMAIN prog.phi, NEW q \in DOMAIN prog.phi[x]
  PROVE  BBMap(idom, q) \in Copy
<1> DEFINE F == Transposed(Entries(prog.cfg))
           C == relbb \cup {predecessor, exit}
           P == idom
<1>1. IsLoop(prog.cfg)
  BY DEF IsProgram
<1>2. /\ IsFiniteSet(F) /\ AllReach(F, predecessor) /\ \A f \in Entries(prog.cfg) : f[1] \in NodesOf(F, predecessor)
  BY <1>1, EntriesReach
<1>3. P = Postdominators(F, predecessor)
  BY DEF ShapeInv, Dominators
<1>4. q \in NodesOf(F, predecessor)
  <2> DEFINE f == <<q, parent(x)>>
  <2>1. DOMAIN prog.phi[x] = {r \in Block \cup {predecessor} : <<r, parent(x)>> \in Entries(prog.cfg)}
    BY DEF IsProgram, PhisFit
  <2>2. f \in Entries(prog.cfg) /\ f[1] = q
    BY <2>1
  <2> HIDE DEF f
  <2> QED
    BY <1>2, <2>2
<1>5. C \subseteq Copy /\ predecessor \in C
  BY DEF ShapeInv, Copy
<1>6. BBMap(idom, q) = CHOOSE y \in P[q] \cap C : \A z \in P[q] \cap C : z \in P[y]
  BY DEF BBMap
<1> HIDE DEF F, C, P
<1>7. \E y : IsNearest(P, C, q, y)
  BY <1>2, <1>3, <1>4, <1>5, NearestExists
<1>8. \E y \in P[q] \cap C : \A z \in P[q] \cap C : z \in P[y]
  BY <1>7 DEF IsNearest
<1>9. BBMap(idom, q) \in C
  BY <1>6, <1>8
<1> QED
  BY <1>5, <1>9

LEMMA ShapeStart == Init => ShapeInv
<1> SUFFICES ASSUME Init PROVE ShapeInv
  OBVIOUS
<1>1. /\ idom = Dominators(EdgesOf(prog.cfg) \cup {<<predecessor, header>>}, predecessor)
      /\ relbb = {} /\ todo = {}
      /\ \A t \in Thread : target[t] = <<>> /\ stores[t] = {} /\ operand[t] = <<>>
  BY DEF Init
<1> QED
  BY <1>1 DEF ShapeInv, Entries

LEMMA ShapeSame ==
  ASSUME ShapeInv, UNCHANGED <<prog, idom, target, operand, channels>>,
         relbb' \subseteq Block, todo' \subseteq relbb',
         \A t \in Thread : t >= i' => stores'[t] = {}
  PROVE  ShapeInv'
<1>1. Instr' = Instr
  BY DEF Instr
<1> QED
  BY <1>1 DEF ShapeInv, Copy

LEMMA ShapeCopy ==
  ASSUME IInv, ShapeInv, NEW BB \in todo, CopyBlock(BB)
  PROVE  ShapeInv'
<1> DEFINE T == Terminator(BB)
           ways == [s \in prog.cfg[BB] |-> BBMap(postidom, s)]
           phis == CopiedOf(BB) \cap DOMAIN prog.phi
           new == [x \in {T} \cup phis |->
                     IF x = T THEN ways ELSE [q \in DOMAIN prog.phi[x] |-> BBMap(idom, q)]]
<1>1. /\ IsProgram(prog) /\ BB \in Block /\ i \in Thread /\ relbb = RelevantBlocks(i)
      /\ UNCHANGED <<prog, idom, i, relbb, operand, channels, stores>> /\ todo' = todo \ {BB}
      /\ target' = [target EXCEPT ![i] = Over(new, @)]
  BY CopyStart
<1>2. DOMAIN target = Thread
  BY DEF IInv, PhaseInv
<1>3. T \in Instr /\ \A x \in phis : x \in Instr
  BY <1>1, InstrFacts, PhiFacts
<1>4. \A s \in prog.cfg[BB] : BBMap(postidom, s) \in Copy
  <2> SUFFICES ASSUME NEW s \in prog.cfg[BB] PROVE BBMap(postidom, s) \in Copy
    OBVIOUS
  <2>1. IsNearest(postidom, RelevantBlocks(i) \cup {predecessor, exit}, s, BBMap(postidom, s))
    BY BBMapNearest
  <2>2. BBMap(postidom, s) \in RelevantBlocks(i) \cup {predecessor, exit}
    BY <2>1 DEF IsNearest
  <2> QED
    BY <1>1, <2>2 DEF Copy, ShapeInv
<1>5. ASSUME NEW x \in DOMAIN new PROVE x \in Instr /\ Range(new[x]) \subseteq Copy
  <2>1. CASE x = T
    <3>1. new[x] = ways
      BY <2>1
    <3>2. Range(ways) \subseteq Copy
      BY <1>4 DEF Range
    <3> QED
      BY <1>3, <2>1, <3>1, <3>2
  <2>2. CASE x # T
    <3> DEFINE g == [q \in DOMAIN prog.phi[x] |-> BBMap(idom, q)]
    <3>1. x \in phis /\ new[x] = g
      BY <2>2
    <3>2. \A q \in DOMAIN prog.phi[x] : BBMap(idom, q) \in Copy
      BY <1>1, <3>1, BBMapCopy
    <3>3. Range(g) \subseteq Copy
      BY <3>2 DEF Range
    <3> QED
      BY <1>3, <3>1, <3>3
  <2> QED
    BY <2>1, <2>2
<1> HIDE DEF new
<1>6. ASSUME NEW t \in Thread, NEW p \in DOMAIN target'[t] PROVE p \in Instr /\ Range(target'[t][p]) \subseteq Copy
  <2>1. CASE t # i
    <3>1. target'[t] = target[t]
      BY <1>1, <2>1
    <3> QED
      BY <1>6, <3>1 DEF ShapeInv
  <2>2. CASE t = i
    <3>1. target'[t] = Over(new, target[t])
      BY <1>1, <1>2, <2>2
    <3>2. /\ p \in DOMAIN new \/ p \in DOMAIN target[t]
          /\ target'[t][p] = IF p \in DOMAIN new THEN new[p] ELSE target[t][p]
      BY <1>6, <3>1 DEF Over
    <3>3. p \in DOMAIN target[t] => p \in Instr /\ Range(target[t][p]) \subseteq Copy
      BY DEF ShapeInv
    <3>4. CASE p \in DOMAIN new
      BY <1>5, <3>2, <3>4
    <3>5. CASE p \notin DOMAIN new
      BY <3>2, <3>3, <3>5
    <3> QED
      BY <3>4, <3>5
  <2> QED
    BY <2>1, <2>2
<1>7. Instr' = Instr
  BY <1>1 DEF Instr
<1>8. relbb' \subseteq Block /\ todo' \subseteq relbb' /\ idom' = Dominators(Entries(prog.cfg), predecessor)'
  BY <1>1 DEF ShapeInv
<1>9. \A t \in Thread : (t >= i' => stores'[t] = {})
                        /\ \A o \in DOMAIN operand'[t] : operand'[t][o] \in DOMAIN channels'
  BY <1>1 DEF ShapeInv
<1> QED
  BY <1>6, <1>7, <1>8, <1>9 DEF ShapeInv, Copy

LEMMA ShapeInsert ==
  ASSUME SInv, ShapeInv, InsertChannel
  PROVE  ShapeInv'
<1>1. /\ channels' = Append(channels, [edge |-> e, to |-> vtr]) /\ vtr < MAX_THREAD
      /\ UNCHANGED <<prog, idom, i, relbb, todo, target, stores>>
      /\ operand' = operand \/ \E user : operand' = Redirected(user)
  BY DEF InsertChannel, live
<1>2. IInv /\ vtr \in Nat
  BY PhaseNumbers DEF SInv, IInv
<1>3. DOMAIN operand = Thread /\ channels \in Seq([edge : Range(allEdges), to : Thread]) /\ vtr \in Thread
  BY <1>1, <1>2, Numbers DEF IInv, PhaseInv, ChannelInv
<1>4. /\ DOMAIN channels \subseteq DOMAIN channels'
      /\ Len(channels) + 1 \in DOMAIN channels'
  BY <1>1, <1>3
<1>5. ASSUME NEW t \in Thread, NEW o \in DOMAIN operand'[t] PROVE operand'[t][o] \in DOMAIN channels'
  <2>1. \A r \in DOMAIN operand[t] : operand[t][r] \in DOMAIN channels
    BY DEF ShapeInv
  <2>2. CASE operand'[t] = operand[t]
    BY <1>4, <1>5, <2>1, <2>2
  <2>3. CASE operand'[t] # operand[t]
    <3>1. PICK user : operand' = Redirected(user)
      BY <1>1, <2>3
    <3> DEFINE g == [x \in {<<user, e.u>>} |-> Len(channels) + 1]
    <3>2. operand' = [operand EXCEPT ![vtr] = Over(g, @)]
      BY <3>1 DEF Redirected
    <3>3. operand'[t] = Over(g, operand[t])
      BY <1>3, <2>3, <3>2
    <3>4. \A x \in DOMAIN g : g[x] = Len(channels) + 1
      OBVIOUS
    <3> HIDE DEF g
    <3>5. /\ o \in DOMAIN g \/ o \in DOMAIN operand[t]
          /\ operand'[t][o] = IF o \in DOMAIN g THEN g[o] ELSE operand[t][o]
      BY <1>5, <3>3 DEF Over
    <3> QED
      BY <1>4, <2>1, <3>4, <3>5
  <2> QED
    BY <2>2, <2>3
<1>6. Instr' = Instr
  BY <1>1 DEF Instr
<1> QED
  BY <1>1, <1>5, <1>6 DEF ShapeInv, Copy

LEMMA ShapeStep ==
  ASSUME SInv, ShapeInv, Split
  PROVE  ShapeInv'
<1>0. IInv /\ i \in Nat /\ (\A t \in Thread : t \in Nat) /\ DOMAIN stores = Thread
  BY PhaseNumbers, Numbers DEF SInv, IInv, ValueInv, LiveInv
<1>1. relbb \subseteq Block /\ todo \subseteq relbb /\ \A t \in Thread : t >= i => stores[t] = {}
  BY DEF ShapeInv
<1>2. ASSUME FindRelevant PROVE ShapeInv'
  <2>1. relbb' = RelevantBlocks(i) /\ todo' = relbb' /\ UNCHANGED <<prog, idom, target, operand, channels, stores, i>>
    BY <1>2 DEF FindRelevant, live
  <2>2. RelevantBlocks(i) \subseteq Block
    BY <1>0, SplitAssumption, RelevantFacts DEF IInv, PhaseInv
  <2> QED
    BY <1>1, <2>1, <2>2, ShapeSame
<1>3. ASSUME NextThread PROVE ShapeInv'
  <2>1. /\ i' = i + 1 /\ UNCHANGED <<prog, idom, target, operand, channels, relbb, todo>>
        /\ stores' = [stores EXCEPT ![i] = {j \in DOMAIN liveout : Stored(liveout[j])}]
    BY <1>3 DEF NextThread, live
  <2>2. ASSUME NEW t \in Thread, t >= i' PROVE stores'[t] = {}
    <3>1. t # i /\ t >= i
      BY <1>0, <2>1, <2>2
    <3> QED
      BY <1>0, <1>1, <2>1, <3>1
  <2> QED
    BY <1>1, <2>1, <2>2, ShapeSame
<1>4. ASSUME GetLiveinfo \/ CannotInsert \/ SkipThread \/ Cleanup PROVE ShapeInv'
  <2>1. UNCHANGED <<prog, idom, target, operand, channels, relbb, todo, stores, i>>
    BY <1>4 DEF GetLiveinfo, CannotInsert, SkipThread, Cleanup, live
  <2> QED
    BY <1>1, <2>1, ShapeSame
<1> QED
  BY <1>0, <1>2, <1>3, <1>4, ShapeCopy, ShapeInsert DEF Split

\* The types follow from what is known about the copies, their items and the channels.
LEMMA TypesSplit ==
  ASSUME SInv, ShapeInv
  PROVE  TypeOK
<1>1. IInv /\ LiveInv /\ IsProgram(prog)
  BY SplitAssumption DEF SInv, ValueInv, IInv, PhaseInv
<1>2. prog.assigned \in [Instr -> Thread] /\ i \in Nat /\ \A t \in Thread : t \in Nat
  BY <1>1, EdgeFacts, PhaseNumbers, Numbers DEF assigned, IInv
<1>3. /\ phase \in {"live", "relevant", "copy", "sync", "done", "no header", "nowhere"}
      /\ i \in 0..MAX_THREAD /\ k \in 1..Len(allEdges) + 1 /\ vtr \in 0..MAX_THREAD
  BY <1>1 DEF IInv, PhaseInv
<1>4. \A c \in DOMAIN channels : channels[c].edge \in Range(allEdges) /\ channels[c].to \in Thread
  <2> DEFINE R == [edge : Range(allEdges), to : Thread]
  <2>1. channels \in Seq(R)
    BY <1>1 DEF IInv, ChannelInv
  <2>2. \A r \in R : r.edge \in Range(allEdges) /\ r.to \in Thread
    OBVIOUS
  <2> HIDE DEF R
  <2>3. \A c \in DOMAIN channels : channels[c] \in R
    BY <2>1
  <2> QED
    BY <2>2, <2>3
<1>5. ASSUME NEW t \in Thread
      PROVE  /\ DOMAIN code[t] \subseteq Block
             /\ instMap[t] \subseteq Instr
             /\ \A p \in DOMAIN placeEquivalents[t] : placeEquivalents[t][p] \in instMap[t]
             /\ stores[t] \subseteq DOMAIN liveout
  <2>1. DOMAIN code[t] \subseteq Block
    <3>1. DOMAIN code[t] = Blocks(t) /\ relbb \subseteq Block /\ RelevantBlocks(t) \subseteq Block
      BY <1>1, RelevantFacts DEF IInv, CopyInv, ShapeInv
    <3> QED
      BY <3>1 DEF Blocks
  <2>2. instMap[t] = Covered(t) \cap Own(t) /\ Own(t) \subseteq Instr
    BY <1>1 DEF IInv, CopyInv, Own
  <2>3. \A p \in DOMAIN placeEquivalents[t] : placeEquivalents[t][p] \in instMap[t]
    BY <1>1 DEF IInv, CopyInv
  <2>4. stores[t] \subseteq DOMAIN liveout
    <3>1. CASE t < i
      BY <1>1, <1>2, <3>1 DEF LiveInv
    <3>2. CASE ~(t < i)
      <4>1. t >= i
        BY <1>2, <3>2
      <4> QED
        BY <4>1 DEF ShapeInv
    <3> QED
      BY <3>1, <3>2
  <2> QED
    BY <2>1, <2>2, <2>3, <2>4
<1>6. ASSUME NEW t \in Thread, NEW b \in DOMAIN code[t] PROVE Range(code[t][b]) \subseteq Item
  <2>1. Range(code[t][b]) = Items(t, b)
    BY <1>1, ListsRange DEF IInv, ItemInv
  <2>2. DOMAIN channels = 1..Len(channels)
    BY <1>1 DEF IInv, ChannelInv
  <2>3. Clones(t, b) \subseteq Item
    <3>1. \A v \in instMap[t] : Clone(v) \in Item
      BY <1>5 DEF Item
    <3> QED
      BY <3>1 DEF Clones
  <2>4. \A c \in DOMAIN channels : Produce(c) \in Item /\ Consume(c) \in Item
    BY <2>2 DEF Item, Produce, Consume
  <2>5. Produces(t, b) \subseteq Item /\ Consumes(t, b) \subseteq Item
    BY <2>4 DEF Produces, Consumes
  <2> QED
    BY <2>1, <2>3, <2>5 DEF Items
<1>7. /\ relbb \subseteq Block /\ todo \subseteq relbb
      /\ \A t \in Thread : /\ \A p \in DOMAIN target[t] : p \in Instr /\ Range(target[t][p]) \subseteq Copy
                           /\ \A o \in DOMAIN operand[t] : operand[t][o] \in DOMAIN channels
  BY DEF ShapeInv
<1> QED
  BY <1>2, <1>3, <1>4, <1>5, <1>6, <1>7 DEF TypeOK

\* Every function that is being made has copies of blocks of the loop with items of its own
\* only, and its branches and phi nodes lead to blocks there are (DSWP_4.cpp:282-398).
THEOREM SplitTypes == Spec => []TypeOK
<1> DEFINE I == SInv /\ ShapeInv
<1>1. Init => I
  BY SplitStart, ShapeStart
<1>2. I /\ [Next]_split => I'
  <2> SUFFICES ASSUME I, [Next]_split PROVE I'
    OBVIOUS
  <2>1. CASE Split
    BY <2>1, SplitStep, ShapeStep
  <2>2. CASE UNCHANGED split
    <3>1. UNCHANGED <<prog, idom, target, operand, channels, relbb, todo, stores, i>>
      BY <2>2 DEF split, live
    <3>2. ShapeInv'
      BY <3>1, ShapeSame DEF ShapeInv
    <3> QED
      BY <2>2, <3>2, SplitSame
  <2> QED
    BY <2>1, <2>2 DEF Next, Ended
<1>3. I => TypeOK
  BY TypesSplit
<1> HIDE DEF I
<1> QED
  BY <1>1, <1>2, <1>3, PTL DEF Spec

\* The functions that AtInv and CountInv tell the values of.
TableInv == visits = [t \in Thread |-> visits[t]] /\ count = [v \in Instr |-> count[v]]

LEMMA TableStep ==
  ASSUME TableInv, [PNext]_vars
  PROVE  TableInv'
<1>1. Instr' = Instr
  <2>1. prog' = prog
    BY SplitEnds DEF PNext, Step, Launch, JoinAndLoad, Enter, Leave, ExecutePhis, Execute, SyncProduce, SyncConsume,
                     Branch, vars, split
  <2> QED
    BY <2>1 DEF Instr
<1>2. visits' = [t \in Thread |-> visits'[t]]
  <2>1. ASSUME NEW t \in Thread, Step(t) PROVE visits' = visits \/ \E b, n : visits' = [visits EXCEPT ![t][b] = n]
    <3>1. CASE Enter(t)
      BY <3>1 DEF Enter
    <3>2. CASE Branch(t)
      <4> DEFINE to == target[t][inst(t)][After(Place(at[t], now(t)))]
      <4>1. visits' = IF to = exit THEN visits ELSE [visits EXCEPT ![t][to] = @ + 1]
        BY <3>2 DEF Branch
      <4>2. [visits EXCEPT ![t][to] = @ + 1] = [visits EXCEPT ![t][to] = visits[t][to] + 1]
        OBVIOUS
      <4> HIDE DEF to
      <4> QED
        BY <4>1, <4>2
    <3>3. CASE Leave(t) \/ ExecutePhis(t) \/ Execute(t) \/ SyncProduce(t) \/ SyncConsume(t)
      BY <3>3 DEF Leave, ExecutePhis, Execute, SyncProduce, SyncConsume
    <3> QED
      BY <2>1, <3>1, <3>2, <3>3 DEF Step
  <2>2. (\A t \in Thread : ~Step(t)) => visits' = visits
    BY DEF PNext, Launch, JoinAndLoad, vars, run, control
  <2> QED
    BY <2>1, <2>2 DEF TableInv
<1>3. count' = [v \in Instr |-> count'[v]]
  <2>1. \/ count' = count
        \/ \E t, S : count' = Counted(t, S)
    BY DEF PNext, Step, Launch, JoinAndLoad, Enter, Leave, ExecutePhis, Execute, SyncProduce, SyncConsume,
           Branch, vars, run, control
  <2>2. \A t, S : Counted(t, S) = [v \in Instr |-> Counted(t, S)[v]]
    BY DEF Counted
  <2> QED
    BY <2>1, <2>2 DEF TableInv
<1> QED
  BY <1>1, <1>2, <1>3 DEF TableInv

\* No block is entered and no instruction executed more often than the path is long.
LEMMA TypesRun ==
  ASSUME RunInv, ShapeInv, TableInv
  PROVE  PTypeOK
<1>1. SInv /\ ControlInv /\ DataInv /\ TypeOK
  BY TypesSplit DEF RunInv
<1>2. MaxPath \in Nat \ {0} /\ QUEUE_MAXLEN \in Nat
  BY PipelineAssumption
<1>3. /\ at \in [Thread -> Copy] /\ returned \subseteq Thread
      /\ from \in [Thread -> Block \cup {predecessor}] /\ pc \in [Thread -> Nat \ {0}]
      /\ wrong \subseteq Instr
  BY <1>1 DEF ControlInv, DataInv, WrongInv
<1>4. /\ path \in Seq(Block)
      /\ \A t \in Thread : visits[t] \in [Block -> 0..MaxPath + 1]
      /\ \A v \in Instr : count[v] \in 0..MaxPath + 1
      /\ \A t \in Thread : Range(held[t]) \subseteq Nat
      /\ Range(received) \subseteq Nat
      /\ \A c \in DOMAIN queue : Range(queue[c]) \subseteq Nat /\ Len(queue[c]) <= QUEUE_MAXLEN
  <2>1. CASE path = <<>>
    <3>1. /\ \A t \in Thread : visits[t] = [b \in Block |-> 0] /\ held[t] = <<>>
          /\ received = <<>> /\ queue = <<>> /\ count = [v \in Instr |-> 0]
      BY <1>1, <2>1 DEF ControlInv, DataInv
    <3>2. Range(<<>>) = {} /\ DOMAIN <<>> = {} /\ 0 \in 0..MaxPath + 1 /\ path \in Seq(Block)
      BY <1>2, <2>1 DEF Range
    <3> QED
      BY <3>1, <3>2
  <2>2. CASE path # <<>>
    <3>1. /\ OnPath /\ HeldInv /\ CountInv /\ QueueInv /\ phase = "done"
          /\ path \in Seq(Block) /\ Len(path) \in 1..MaxPath
      BY <2>2, RunFacts DEF OnPath
    <3>2. ASSUME NEW b, NEW j \in 0..Len(path) PROVE Met(b, j) \in 0..MaxPath + 1
      <4>1. j \in Nat
        BY <3>1
      <4>2. Met(b, j) \in Nat /\ Met(b, j) <= j
        BY <4>1, MetFacts
      <4> QED
        BY <1>2, <3>1, <4>1, <4>2
    <3>3. ASSUME NEW t \in Thread PROVE visits[t] \in [Block -> 0..MaxPath + 1]
      <4>1. Where(t) \in 0..Len(path)
        BY <1>1, <2>2, WhereFacts
      <4>2. visits[t] = [b \in Block |-> IF b \in Copies(t) THEN Met(b, Where(t)) ELSE 0]
        BY <1>1, <2>2 DEF ControlInv, AtInv
      <4>3. \A b \in Block : (IF b \in Copies(t) THEN Met(b, Where(t)) ELSE 0) \in 0..MaxPath + 1
        BY <1>2, <3>2, <4>1
      <4> QED
        BY <4>2, <4>3
    <3>4. ASSUME NEW v \in Instr PROVE count[v] \in 0..MaxPath + 1
      <4> DEFINE t == assigned[v]
                 b == parent(v)
      <4>1. t \in Thread /\ b \in Copies(t) /\ Clone(v) \in Items(t, b)
        BY <1>1, <3>1, CloneEnds
      <4>2. count[v] = Times(t, b, Clone(v))
        BY <3>1 DEF CountInv, Done
      <4> HIDE DEF t, b
      <4>3. Times(t, b, Clone(v)) <= Met(b, Where(t)) /\ Times(t, b, Clone(v)) \in Nat
        BY <1>1, <2>2, <4>1, InOrder
      <4>4. Where(t) \in 0..Len(path)
        BY <1>1, <2>2, <4>1, WhereFacts
      <4>5. Met(b, Where(t)) \in 0..MaxPath + 1
        BY <3>2, <4>4
      <4> QED
        BY <1>2, <4>2, <4>3, <4>5
    <3>5. \A t \in Thread : Range(held[t]) \subseteq Nat
      BY <3>1 DEF HeldInv, Range
    <3>6. /\ Range(received) \subseteq Nat
          /\ \A c \in DOMAIN queue : Range(queue[c]) \subseteq Nat /\ Len(queue[c]) <= QUEUE_MAXLEN
      BY <3>1 DEF QueueInv, QueueOK, Range
    <3> QED
      BY <3>1, <3>3, <3>4, <3>5, <3>6
  <2> QED
    BY <2>1, <2>2
<1>5. visits \in [Thread -> [Block -> 0..MaxPath + 1]] /\ count \in [Instr -> 0..MaxPath + 1]
  BY <1>4 DEF TableInv
<1> QED
  BY <1>1, <1>3, <1>4, <1>5 DEF PTypeOK

\* A running worker always stands in a block it has, no register or queue holds anything but
\* values, and no queue ever holds more than QUEUE_MAXLEN (queue.c:21-27).
THEOREM RunTypes == PSpec => []PTypeOK
<1> DEFINE I == ShapeInv /\ TableInv
<1>1. PInit => I
  BY ShapeStart DEF PInit, TableInv
<1>2. RunInv /\ I /\ [PNext]_vars => I'
  <2> SUFFICES ASSUME RunInv, I, [PNext]_vars PROVE I'
    OBVIOUS
  <2>1. TableInv'
    BY TableStep
  <2>2. CASE Split
    BY <2>1, <2>2, ShapeStep DEF RunInv
  <2>3. CASE UNCHANGED split
    <3>1. UNCHANGED <<prog, idom, target, operand, channels, relbb, todo, stores, i>>
      BY <2>3 DEF split, live
    <3> QED
      BY <2>1, <3>1, ShapeSame DEF ShapeInv
  <2>4. Split \/ UNCHANGED split
    BY DEF PNext, Step, Launch, JoinAndLoad, Enter, Leave, ExecutePhis, Execute, SyncProduce, SyncConsume,
           Branch, vars
  <2> QED
    BY <2>2, <2>3, <2>4
<1>3. RunInv /\ I => PTypeOK
  BY TypesRun
<1> HIDE DEF I
<1> QED
  BY RunInductive, <1>1, <1>2, <1>3, PTL DEF PSpec

-----------------------------------------------------------------------------
(* Nobody waits for each other in a ring *)

\* What a worker needs to take its next step: a produce room in the queue, a consume a
\* value, a branch an execution of it on the path; nothing else is ever waited for.
CanStep(t) ==
  \/ at[t] \in {predecessor, exit} /\ t \notin returned
  \/ /\ Running(t)
     /\ \/ item(t)[1] = "clone" /\ now(t) <= Met(at[t], Len(path))
        \/ item(t)[1] = "produce" /\ HasRoom(inst(t))
        \/ item(t)[1] = "consume" /\ queue[inst(t)] # <<>>

NeverStuck == path # <<>> => returned = Thread \/ \E t \in Thread : CanStep(t)

LEMMA MetLess ==
  ASSUME NEW b, NEW l \in Nat, NEW j \in Nat, Met(b, l) < Met(b, j)
  PROVE  l < j
<1>1. Met(b, l) \in Nat /\ Met(b, j) \in Nat /\ (j <= l => Met(b, j) <= Met(b, l))
  BY MetFacts
<1> QED
  BY <1>1

\* A worker that waits for room waits for one that is behind it on the path.
LEMMA WaitsForRoom ==
  ASSUME RunInv, NEW t \in Thread, Running(t), item(t)[1] = "produce", ~HasRoom(inst(t))
  PROVE  \E q \in Thread \ returned : Where(q) < Where(t)
<1> DEFINE c == inst(t)
           q == channels[c].to
           b == at[t]
<1>1. /\ SInv /\ ControlInv /\ QueueInv /\ path # <<>> /\ phase = "done" /\ OnPath
      /\ predecessor \notin Block /\ exit \notin Block /\ predecessor # exit
  BY RunFacts DEF Running
<1>2. c \in DOMAIN channels /\ parent(Source(c)) = b /\ item(t) = Produce(c) /\ assigned[Source(c)] = t
  BY CallItem
<1>3. q \in Thread /\ b \in Copies(q) /\ Consume(c) \in Items(q, b)
  BY <1>1, <1>2, ChannelEnds
<1>4. /\ now(t) = Met(b, Where(t)) /\ Times(t, b, item(t)) = now(t) - 1 /\ now(t) \in Nat
  BY <1>1, ItemFacts
<1>5. QueueOK(c)
  BY <1>1, <1>2 DEF QueueInv
<1> HIDE DEF b, c, q
<1>6. /\ Sent(c) = Met(b, Where(t)) - 1 /\ Got(c) = Times(q, b, Consume(c))
  BY <1>2, <1>4 DEF Sent, Got, q
<1>7. Len(queue[c]) >= 1 /\ Len(queue[c]) \in Nat /\ Sent(c) = Got(c) + Len(queue[c])
  <2>1. queue[c] \in Seq(Nat) /\ Sent(c) = Got(c) + Len(queue[c])
    BY <1>5 DEF QueueOK
  <2>2. Len(queue[c]) \in Nat
    BY <2>1
  <2>3. ~(Len(queue[c]) < QUEUE_MAXLEN)
    BY DEF HasRoom, c
  <2> QED
    BY <2>1, <2>2, <2>3, PipelineAssumption
<1>8. /\ Where(t) \in Nat /\ Where(q) \in Nat /\ Where(t) <= Len(path) /\ Len(path) \in Nat
  <2>1. Where(t) \in 0..Len(path) /\ Where(q) \in 0..Len(path) /\ Len(path) \in Nat
    BY <1>1, <1>3, WhereFacts
  <2> QED
    BY <2>1
<1>9. /\ Times(q, b, Consume(c)) \in Nat
      /\ at[q] # b => Times(q, b, Consume(c)) = Met(b, Where(q))
      /\ at[q] = b => Times(q, b, Consume(c)) >= Met(b, Where(q) - 1)
  BY <1>1, <1>3, InOrder
<1>10. at[q] = b => Met(b, Where(q)) = Met(b, Where(q) - 1) + 1 /\ Met(b, Where(q) - 1) \in Nat
  <2> SUFFICES ASSUME at[q] = b PROVE Met(b, Where(q)) = Met(b, Where(q) - 1) + 1 /\ Met(b, Where(q) - 1) \in Nat
    OBVIOUS
  <2>1. AtInv(q) /\ at[q] \in Block
    BY <1>1, <1>3 DEF ControlInv, Running, b
  <2>2. Where(q) - 1 \in Nat
    BY <2>1 DEF AtInv, InBlock
  <2>3. Met(b, Where(q) - 1) \in Nat
    BY <2>2, MetFacts
  <2>4. visits[q][b] = Met(b, Where(q)) /\ visits[q][b] = Met(b, Where(q) - 1) + 1
    BY <1>1, <1>3, WhereFacts
  <2> QED
    BY <2>3, <2>4
<1>11. Met(b, Where(q)) \in Nat /\ Met(b, Where(t)) \in Nat
  BY <1>8, MetFacts
<1>12. Met(b, Where(q)) < Met(b, Where(t))
  BY <1>6, <1>7, <1>9, <1>10, <1>11
<1>13. Where(q) < Where(t)
  BY <1>8, <1>12, MetLess
<1>14. q \notin returned
  <2> SUFFICES ASSUME q \in returned PROVE FALSE
    OBVIOUS
  <2>1. at[q] = exit
    BY <1>1, <1>3 DEF ControlInv, AtInv
  <2>2. Where(q) = Len(path)
    BY <1>1, <2>1 DEF Where
  <2> QED
    BY <1>8, <1>13, <2>2
<1> QED
  BY <1>3, <1>13, <1>14

\* A worker that waits for a value waits for an earlier worker, which is not ahead of it.
LEMMA WaitsForValue ==
  ASSUME RunInv, NEW t \in Thread, Running(t), item(t)[1] = "consume", queue[inst(t)] = <<>>
  PROVE  \E q \in Thread \ returned : Where(q) <= Where(t) /\ q < t
<1> DEFINE c == inst(t)
           q == assigned[Source(c)]
           b == at[t]
<1>1. /\ SInv /\ ControlInv /\ QueueInv /\ path # <<>> /\ phase = "done" /\ OnPath
      /\ predecessor \notin Block /\ exit \notin Block /\ predecessor # exit
  BY RunFacts DEF Running
<1>2. c \in DOMAIN channels /\ parent(Source(c)) = b /\ item(t) = Consume(c) /\ channels[c].to = t
  BY CallItem
<1>3. q \in Thread /\ b \in Copies(q) /\ Produce(c) \in Items(q, b) /\ q < t
  <2>1. q < t
    BY <1>1, <1>2 DEF SInv, IInv, ChannelInv, Source
  <2> QED
    BY <1>1, <1>2, <2>1, ChannelEnds
<1>4. /\ now(t) = Met(b, Where(t)) /\ Times(t, b, item(t)) = now(t) - 1 /\ now(t) \in Nat
  BY <1>1, ItemFacts
<1>5. Sent(c) = Got(c)
  <2>1. Sent(c) = Got(c) + Len(queue[c]) /\ QueueOK(c)
    BY <1>1, <1>2 DEF QueueInv, QueueOK
  <2>2. Len(queue[c]) = 0
    BY DEF c
  <2>3. Sent(c) = Got(c) + 0 /\ Got(c) \in Nat
    <3>1. Got(c) = Times(t, b, item(t))
      BY <1>2 DEF Got
    <3>2. Times(t, b, item(t)) \in Nat
      BY <1>1, ItemFacts, WhereFacts
    <3> QED
      BY <2>1, <2>2, <3>1, <3>2
  <2> QED
    BY <2>3
<1> HIDE DEF b, c, q
<1>6. Times(q, b, Produce(c)) = Met(b, Where(t)) - 1
  BY <1>2, <1>4, <1>5 DEF Sent, Got, q
<1>7. /\ Where(t) \in Nat /\ Where(q) \in Nat /\ Where(t) <= Len(path) /\ Len(path) \in Nat
  <2>1. Where(t) \in 0..Len(path) /\ Where(q) \in 0..Len(path) /\ Len(path) \in Nat
    BY <1>1, <1>3, WhereFacts
  <2> QED
    BY <2>1
<1>8. /\ Times(q, b, Produce(c)) \in Nat
      /\ at[q] # b => Times(q, b, Produce(c)) = Met(b, Where(q))
      /\ at[q] = b => Times(q, b, Produce(c)) >= Met(b, Where(q) - 1)
  BY <1>1, <1>3, InOrder
<1>9. Met(b, Where(t)) \in Nat
  BY <1>7, MetFacts
<1>10. ASSUME Where(t) < Where(q) PROVE FALSE
  <2>1. Where(q) - 1 \in Nat /\ Where(t) <= Where(q) - 1 /\ Where(t) <= Where(q)
    BY <1>7, <1>10
  <2>2. Met(b, Where(t)) <= Met(b, Where(q) - 1) /\ Met(b, Where(t)) <= Met(b, Where(q))
        /\ Met(b, Where(q) - 1) \in Nat /\ Met(b, Where(q)) \in Nat
    BY <1>7, <2>1, MetFacts
  <2> QED
    BY <1>6, <1>8, <1>9, <2>2
<1>11. q \notin returned
  <2> SUFFICES ASSUME q \in returned PROVE FALSE
    OBVIOUS
  <2>1. at[q] = exit /\ b \in Block
    BY <1>1, <1>3 DEF ControlInv, AtInv, Running, b
  <2>2. Where(q) = Len(path) /\ at[q] # b
    BY <1>1, <2>1 DEF Where
  <2>3. Met(b, Where(t)) <= Met(b, Where(q)) /\ Met(b, Where(q)) \in Nat
    BY <1>7, <2>2, MetFacts
  <2> QED
    BY <1>6, <1>8, <1>9, <2>2, <2>3
<1> QED
  BY <1>3, <1>7, <1>10, <1>11

LEMMA Lexicographic ==
  ASSUME NEW M \in Nat, NEW a \in Nat, NEW b \in Nat, NEW q \in Nat, NEW t \in Nat, q < M,
         a < b \/ (a <= b /\ q < t)
  PROVE  a * M + q < b * M + t
<1>1. a * M \in Nat /\ b * M \in Nat
  OBVIOUS
<1>2. PICK d \in Nat : b = a + d
  <2>1. b - a \in Nat /\ b = a + (b - a)
    OBVIOUS
  <2> QED
    BY <2>1
<1>3. b * M = a * M + d * M
  BY <1>2
<1>4. d >= 1 => d * M >= M
  OBVIOUS
<1>5. d * M \in Nat /\ (d = 0 => d * M = 0)
  OBVIOUS
<1> QED
  BY <1>1, <1>2, <1>3, <1>4, <1>5

\* A worker that cannot go on waits for one that has not come as far on the path, or for an
\* earlier one that has not come farther.
LEMMA Waits ==
  ASSUME RunInv, path # <<>>, NEW t \in Thread \ returned, ~CanStep(t)
  PROVE  \E q \in Thread \ returned : Where(q) < Where(t) \/ (Where(q) <= Where(t) /\ q < t)
<1>1. /\ SInv /\ ControlInv /\ AtInv(t)
  BY RunFacts DEF ControlInv
<1>2. at[t] \notin {predecessor, exit}
  BY DEF CanStep
<1>3. Running(t)
  <2>1. Copies(t) \subseteq Block
    BY <1>1, RunFacts, WorkerFacts
  <2> QED
    BY <1>1, <1>2, <2>1 DEF AtInv, Running
<1>4. item(t) \in Items(t, at[t])
  BY <1>1, <1>3, ItemFacts
<1>5. item(t)[1] \in {"clone", "produce", "consume"}
  BY <1>4 DEF Items, Clones, Produces, Consumes, Clone, Produce, Consume
<1>6. item(t)[1] # "clone"
  BY <1>1, <1>3, NowFacts DEF CanStep
<1>7. CASE item(t)[1] = "produce"
  BY <1>3, <1>7, WaitsForRoom DEF CanStep
<1>8. CASE item(t)[1] = "consume"
  BY <1>3, <1>8, WaitsForValue DEF CanStep
<1> QED
  BY <1>5, <1>6, <1>7, <1>8

LEMMA SomeoneSteps == RunInv => NeverStuck
<1> SUFFICES ASSUME RunInv, path # <<>>, \A t \in Thread : ~CanStep(t)
             PROVE  returned = Thread
  BY DEF NeverStuck
<1> DEFINE m(t) == Where(t) * MAX_THREAD + t
           T == {n \in Nat : \A t \in Thread \ returned : n < m(t)}
<1>1. /\ MAX_THREAD \in Nat /\ \A t \in Thread : t \in Nat /\ t < MAX_THREAD
      /\ SInv /\ ControlInv /\ returned \subseteq Thread
  BY Numbers, RunFacts DEF ControlInv
<1>2. \A t \in Thread : Where(t) \in Nat
  <2> SUFFICES ASSUME NEW t \in Thread PROVE Where(t) \in Nat
    OBVIOUS
  <2>1. Where(t) \in 0..Len(path) /\ Len(path) \in Nat
    BY <1>1, WhereFacts
  <2> QED
    BY <2>1
<1>3. \A t \in Thread : m(t) \in Nat
  BY <1>1, <1>2
<1>4. \A t \in Thread \ returned : \E q \in Thread \ returned : m(q) < m(t)
  <2> SUFFICES ASSUME NEW t \in Thread \ returned PROVE \E q \in Thread \ returned : m(q) < m(t)
    OBVIOUS
  <2>1. PICK q \in Thread \ returned : Where(q) < Where(t) \/ (Where(q) <= Where(t) /\ q < t)
    BY Waits
  <2>2. Where(q) \in Nat /\ Where(t) \in Nat /\ q \in Nat /\ t \in Nat /\ q < MAX_THREAD
    BY <1>1, <1>2
  <2>3. m(q) < m(t)
    BY <1>1, <2>1, <2>2, Lexicographic
  <2> QED
    BY <2>3
<1> HIDE DEF m
<1>5. 0 \in T
  <2> SUFFICES ASSUME NEW t \in Thread \ returned PROVE 0 < m(t)
    OBVIOUS
  <2>1. PICK q \in Thread \ returned : m(q) < m(t)
    BY <1>4
  <2> QED
    BY <1>3, <2>1
<1>6. ASSUME NEW n \in Nat, n \in T PROVE n + 1 \in T
  <2> SUFFICES ASSUME NEW t \in Thread \ returned PROVE n + 1 < m(t)
    OBVIOUS
  <2>1. PICK q \in Thread \ returned : m(q) < m(t)
    BY <1>4
  <2>2. n < m(q)
    BY <1>6
  <2> QED
    BY <1>3, <2>1, <2>2
<1>7. Nat \subseteq T
  <2> HIDE DEF T
  <2> QED
    BY <1>5, <1>6, SetInduction
<1>8. ASSUME NEW t \in Thread \ returned PROVE FALSE
  BY <1>3, <1>7
<1> QED
  BY <1>1, <1>8

\* No workers wait for each other in a ring, whatever the loop, the channels and the capacity
\* of the queues (simple_sync.c:10-22): of those that have not returned the one that has come
\* least far can go on.
THEOREM NoDeadlock == PSpec => []NeverStuck
BY RunInductive, SomeoneSteps, PTL
=============================================================================
