--------------------------- MODULE LoopCFGProofs ---------------------------
(* What LoopCFG says about paths and postdominators, for every finite graph. *)

EXTENDS LoopCFG, SequencesExt, FiniteSetTheorems, SequenceTheorems, WellFoundedInduction, TLAPS

-----------------------------------------------------------------------------
(* Numbers *)

\* A property of 0 that every number hands on to the next one is one of all.
LEMMA SetInduction ==
  ASSUME NEW S, 0 \in S, \A n \in Nat : n \in S => n + 1 \in S
  PROVE  Nat \subseteq S
<1> DEFINE T == {n \in Nat : n \notin S}
           R == OpToRel(<, Nat)
<1> SUFFICES ASSUME T # {} PROVE FALSE
  OBVIOUS
<1>1. PICK n \in T : \A m \in T : <<m, n>> \notin R
  BY NatLessThanWellFounded, WFMin
<1>2. n \in Nat /\ n # 0 /\ n - 1 \in Nat /\ n - 1 < n /\ (n - 1) + 1 = n
  OBVIOUS
<1>3. n - 1 \in S
  BY <1>1, <1>2 DEF OpToRel
<1> QED
  BY <1>2, <1>3

\* Numbers have a smallest, and a largest if they are bounded.
LEMMA Least ==
  ASSUME NEW S, S \subseteq Nat, S # {}
  PROVE  \E m \in S : \A n \in S : n >= m
<1> DEFINE R == OpToRel(<, Nat)
<1>1. PICK m \in S : \A n \in S : <<n, m>> \notin R
  BY NatLessThanWellFounded, WFMin
<1>2. \A n \in S : n \in Nat /\ m \in Nat /\ ~(n < m)
  BY <1>1 DEF OpToRel
<1> QED
  BY <1>2

LEMMA Largest ==
  ASSUME NEW m \in Nat, NEW S, S \subseteq 0..m, S # {}
  PROVE  \E x \in S : \A y \in S : y <= x
<1> DEFINE T == {j \in 0..m : m - j \in S}
<1>1. \A x \in S : m - x \in 0..m /\ m - (m - x) = x
  OBVIOUS
<1>2. T \subseteq Nat /\ T # {}
  <2>1. PICK x \in S : TRUE
    OBVIOUS
  <2>2. m - x \in T
    BY <1>1
  <2>3. T \subseteq Nat
    OBVIOUS
  <2> HIDE DEF T
  <2> QED
    BY <2>2, <2>3
<1>3. PICK j \in T : \A l \in T : l >= j
  <2> HIDE DEF T
  <2> QED
    BY <1>2, Least
<1>4. \A y \in S : m - y \in T
  BY <1>1
<1>5. m - j \in S /\ j \in 0..m
  OBVIOUS
<1>6. ASSUME NEW y \in S PROVE y <= m - j
  <2>1. m - y >= j /\ y \in 0..m
    BY <1>3, <1>4
  <2> QED
    BY <1>5, <2>1
<1> QED
  BY <1>5, <1>6

\* A recursive function on a first few numbers exists.
Iterates(n, A, B, f) == f = [m \in 0..n |-> IF m = 0 THEN A ELSE B[f[m - 1]]]

LEMMA Recursion ==
  ASSUME NEW n \in Nat, NEW A, NEW B
  PROVE  \E f : Iterates(n, A, B, f)
<1> DEFINE S == {m \in Nat : \E f : f = [l \in 0..m |-> IF l = 0 THEN A ELSE B[f[l - 1]]]}
<1>1. 0 \in S
  <2> DEFINE f == [l \in 0..0 |-> A]
  <2>1. f = [l \in 0..0 |-> IF l = 0 THEN A ELSE B[f[l - 1]]]
    OBVIOUS
  <2> QED
    BY <2>1
<1>2. ASSUME NEW m \in Nat, m \in S PROVE m + 1 \in S
  <2>1. PICK f : f = [l \in 0..m |-> IF l = 0 THEN A ELSE B[f[l - 1]]]
    BY <1>2
  <2> DEFINE g == [l \in 0..m + 1 |-> IF l = m + 1 THEN B[f[m]] ELSE f[l]]
             h == [l \in 0..m + 1 |-> IF l = 0 THEN A ELSE B[g[l - 1]]]
  <2>2. ASSUME NEW l \in 0..m + 1 PROVE g[l] = h[l]
    <3>1. CASE l = m + 1
      <4>1. g[m] = f[m] /\ g[l] = B[f[m]] /\ l # 0 /\ l - 1 = m
        BY <3>1
      <4> QED
        BY <4>1
    <3>2. CASE l # m + 1 /\ l = 0
      BY <2>1, <3>2
    <3>3. CASE l # m + 1 /\ l # 0
      <4>1. l \in 0..m /\ l - 1 \in 0..m + 1 /\ l - 1 # m + 1
        BY <3>3
      <4>2. g[l] = f[l] /\ g[l - 1] = f[l - 1] /\ f[l] = B[f[l - 1]]
        BY <2>1, <3>3, <4>1
      <4> QED
        BY <3>3, <4>2
    <3> QED
      BY <3>1, <3>2, <3>3
  <2>3. g = h
    BY <2>2
  <2> HIDE DEF g
  <2>4. \E q : q = [l \in 0..m + 1 |-> IF l = 0 THEN A ELSE B[q[l - 1]]]
    BY <2>3
  <2> QED
    BY <2>4
<1> HIDE DEF S
<1>3. n \in S
  BY <1>1, <1>2, SetInduction
<1> QED
  BY <1>3 DEF S, Iterates
-----------------------------------------------------------------------------
(* Lists of lists *)

\* The function behind FlattenSeq exists.
Flattens(s, N, f) == f = [m \in 1..N |-> IF m = 1 THEN s[m] ELSE f[m - 1] \o s[m]]

LEMMA FlattenExists ==
  ASSUME NEW s, NEW N \in Nat
  PROVE  \E f : Flattens(s, N, f)
<1> DEFINE S == {m \in Nat : \E f : Flattens(s, m, f)}
<1>1. 0 \in S
  <2> DEFINE f == [l \in 1..0 |-> <<>>]
  <2>1. f = [l \in 1..0 |-> IF l = 1 THEN s[l] ELSE f[l - 1] \o s[l]]
    OBVIOUS
  <2> QED
    BY <2>1 DEF Flattens
<1>2. ASSUME NEW m \in Nat, m \in S PROVE m + 1 \in S
  <2>1. PICK f : f = [l \in 1..m |-> IF l = 1 THEN s[l] ELSE f[l - 1] \o s[l]]
    BY <1>2 DEF Flattens
  <2> DEFINE last == IF m = 0 THEN s[1] ELSE f[m] \o s[m + 1]
             g == [l \in 1..m + 1 |-> IF l = m + 1 THEN last ELSE f[l]]
             h == [l \in 1..m + 1 |-> IF l = 1 THEN s[l] ELSE g[l - 1] \o s[l]]
  <2>2. ASSUME NEW l \in 1..m + 1 PROVE g[l] = h[l]
    <3>1. CASE l = m + 1 /\ l = 1
      BY <3>1
    <3>2. CASE l = m + 1 /\ l # 1
      <4>1. m \in 1..m + 1 /\ m # m + 1 /\ l - 1 = m /\ m # 0
        BY <3>2
      <4>2. g[m] = f[m] /\ g[l] = f[m] \o s[m + 1]
        BY <3>2, <4>1
      <4> QED
        BY <3>2, <4>1, <4>2
    <3>3. CASE l # m + 1 /\ l = 1
      BY <2>1, <3>3
    <3>4. CASE l # m + 1 /\ l # 1
      <4>1. l \in 1..m /\ l - 1 \in 1..m + 1 /\ l - 1 # m + 1
        BY <3>4
      <4>2. /\ g[l] = f[l] /\ g[l - 1] = f[l - 1]
            /\ f[l] = f[l - 1] \o s[l]
        BY <2>1, <3>4, <4>1
      <4> QED
        BY <3>4, <4>2
    <3> QED
      BY <3>1, <3>2, <3>3, <3>4
  <2>3. g = h
    BY <2>2
  <2> HIDE DEF g
  <2>4. Flattens(s, m + 1, g)
    BY <2>3 DEF Flattens
  <2> QED
    BY <2>4
<1>3. N \in S
  <2> HIDE DEF S
  <2> QED
    BY <1>1, <1>2, SetInduction
<1> QED
  BY <1>3

\* A list of lists as one list is at least as long as the first of them.
LEMMA Flattened ==
  ASSUME NEW T, NEW s, NEW N \in Nat \ {0}, s \in [1..N -> Seq(T)]
  PROVE  FlattenSeq(s) \in Seq(T) /\ Len(FlattenSeq(s)) >= Len(s[1])
<1> DEFINE f == CHOOSE f : f = [m \in 1..Len(s) |-> IF m = 1 THEN s[m] ELSE f[m - 1] \o s[m]]
           W == {m \in Nat : m \in 1..N => f[m] \in Seq(T) /\ Len(f[m]) >= Len(s[1])}
<1>1. Len(s) = N
  OBVIOUS
<1>2. FlattenSeq(s) = f[N]
  BY <1>1 DEF FlattenSeq
<1>3. f = [m \in 1..N |-> IF m = 1 THEN s[m] ELSE f[m - 1] \o s[m]]
  <2>1. \E g : g = [m \in 1..N |-> IF m = 1 THEN s[m] ELSE g[m - 1] \o s[m]]
    BY FlattenExists DEF Flattens
  <2> QED
    BY <1>1, <2>1, Zenon
<1> HIDE DEF f
<1>4. \A m \in 1..N : s[m] \in Seq(T)
  OBVIOUS
<1>5. 0 \in W
  OBVIOUS
<1>6. ASSUME NEW m \in Nat, m \in W PROVE m + 1 \in W
  <2> SUFFICES ASSUME m + 1 \in 1..N
               PROVE  f[m + 1] \in Seq(T) /\ Len(f[m + 1]) >= Len(s[1])
    OBVIOUS
  <2>1. s[m + 1] \in Seq(T) /\ s[1] \in Seq(T)
    BY <1>4
  <2>2. CASE m = 0
    <3>1. f[1] = s[1]
      BY <1>3
    <3>2. Len(s[1]) \in Nat
      BY <2>1
    <3> QED
      BY <2>1, <2>2, <3>1, <3>2
  <2>3. CASE m # 0
    <3>1. m \in 1..N /\ m + 1 # 1 /\ (m + 1) - 1 = m
      BY <2>3
    <3>2. f[m] \in Seq(T) /\ Len(f[m]) >= Len(s[1])
      BY <1>6, <3>1
    <3>3. f[m + 1] = f[m] \o s[m + 1]
      BY <1>3, <3>1
    <3>4. f[m] \o s[m + 1] \in Seq(T) /\ Len(f[m] \o s[m + 1]) = Len(f[m]) + Len(s[m + 1])
      BY <2>1, <3>2, ConcatProperties
    <3>5. Len(f[m]) \in Nat /\ Len(s[m + 1]) \in Nat /\ Len(s[1]) \in Nat
      BY <2>1, <3>2
    <3>6. Len(f[m]) + Len(s[m + 1]) >= Len(s[1])
      <4>1. \A x, y, z \in Nat : x >= z => x + y >= z
        OBVIOUS
      <4> QED
        BY <3>2, <3>5, <4>1, Zenon
    <3> QED
      BY <3>3, <3>4, <3>6
  <2> QED
    BY <2>2, <2>3
<1>7. N \in W
  <2> HIDE DEF W
  <2> QED
    BY <1>5, <1>6, SetInduction
<1> QED
  BY <1>2, <1>7

-----------------------------------------------------------------------------
(* Paths *)

NodesOf(E, to) == {to} \cup {f[1] : f \in E} \cup {f[2] : f \in E}

\* Nodes that lead to S in one step, S included.
StepBack(E, not, S) == S \cup {f[1] : f \in {g \in E : g[2] \in S /\ g[1] # not}}

\* What Reaching counts up: the nodes at most so many steps away.
Within(E, to, not) ==
  CHOOSE f : f = [m \in 0..Cardinality(NodesOf(E, to)) |->
                    IF m = 0 THEN {to} \ {not}
                    ELSE [S \in SUBSET NodesOf(E, to) |-> StepBack(E, not, S)][f[m - 1]]]

Bound(E, to) == Cardinality(NodesOf(E, to))

LEMMA ReachingWithin ==
  ASSUME NEW E, NEW to, NEW not
  PROVE  Reaching(E, to, not) = Within(E, to, not)[Bound(E, to)]
BY DEF Reaching, Within, NodesOf, StepBack, Bound

LEMMA NodesFinite ==
  ASSUME NEW E, NEW to, IsFiniteSet(E)
  PROVE  IsFiniteSet(NodesOf(E, to)) /\ Bound(E, to) \in Nat
<1> DEFINE A == {f[1] : f \in E}
           B == {f[2] : f \in E}
           fa == [f \in E |-> f[1]]
           fb == [f \in E |-> f[2]]
<1>1. IsFiniteSet(A)
  <2>1. fa \in Surjection(E, A)
    BY DEF Surjection
  <2> QED
    BY <2>1, FS_Surjection
<1>2. IsFiniteSet(B)
  <2>1. fb \in Surjection(E, B)
    BY DEF Surjection
  <2> QED
    BY <2>1, FS_Surjection
<1>3. IsFiniteSet({to})
  BY FS_Singleton
<1>4. NodesOf(E, to) = ({to} \cup A) \cup B
  BY DEF NodesOf
<1> HIDE DEF A, B
<1>5. IsFiniteSet(({to} \cup A) \cup B)
  BY <1>1, <1>2, <1>3, FS_Union
<1> QED
  BY <1>4, <1>5, FS_CardinalityType DEF Bound

LEMMA WithinSteps ==
  ASSUME NEW E, NEW to, NEW not, IsFiniteSet(E)
  PROVE  /\ Bound(E, to) \in Nat
         /\ Within(E, to, not)[0] = {to} \ {not}
         /\ \A m \in 0..Bound(E, to) :
              /\ Within(E, to, not)[m] \subseteq NodesOf(E, to)
              /\ m < Bound(E, to) =>
                   Within(E, to, not)[m + 1] = StepBack(E, not, Within(E, to, not)[m])
<1> DEFINE N == Bound(E, to)
           W == Within(E, to, not)
           V == NodesOf(E, to)
           B == [S \in SUBSET V |-> StepBack(E, not, S)]
<1>1. N \in Nat
  BY NodesFinite
<1>2. W = [m \in 0..N |-> IF m = 0 THEN {to} \ {not} ELSE B[W[m - 1]]]
  <2> DEFINE A == {to} \ {not}
  <2>1. \E f : f = [m \in 0..N |-> IF m = 0 THEN A ELSE B[f[m - 1]]]
    <3> HIDE DEF A, B, N
    <3>1. \E f : Iterates(N, A, B, f)
      BY <1>1, Recursion
    <3> QED
      BY <3>1 DEF Iterates
  <2>2. W = CHOOSE f : f = [m \in 0..N |-> IF m = 0 THEN A ELSE B[f[m - 1]]]
    BY DEF Within, Bound
  <2> HIDE DEF A, B, W
  <2>3. W = [m \in 0..N |-> IF m = 0 THEN A ELSE B[W[m - 1]]]
    BY <2>1, <2>2
  <2> QED
    BY <2>3 DEF A
<1> HIDE DEF W
<1>3. W[0] = {to} \ {not} /\ W[0] \subseteq V
  BY <1>1, <1>2 DEF NodesOf
<1>4. ASSUME NEW m \in Nat, m < N, W[m] \subseteq V
      PROVE  W[m + 1] = StepBack(E, not, W[m]) /\ W[m + 1] \subseteq V
  <2>1. m + 1 \in 0..N /\ m + 1 # 0 /\ (m + 1) - 1 = m
    BY <1>1, <1>4
  <2>2. W[m + 1] = B[W[m]]
    BY <1>2, <2>1
  <2>3. W[m + 1] = StepBack(E, not, W[m])
    BY <1>4, <2>2
  <2> QED
    BY <1>4, <2>3 DEF StepBack, NodesOf
<1> DEFINE S == {m \in Nat : m <= N => W[m] \subseteq V}
<1>5. 0 \in S
  BY <1>3
<1>6. ASSUME NEW m \in Nat, m \in S PROVE m + 1 \in S
  BY <1>1, <1>4, <1>6
<1>7. Nat \subseteq S
  <2> HIDE DEF S
  <2> QED
    BY <1>5, <1>6, SetInduction
<1>8. \A m \in 0..N : W[m] \subseteq V
  BY <1>1, <1>7
<1> QED
  BY <1>1, <1>3, <1>4, <1>8 DEF W

AreStages(E, to, not, N, W) ==
  /\ N \in Nat /\ W[0] = {to} \ {not} /\ Reaching(E, to, not) = W[N]
  /\ \A m \in 0..N : m < N => W[m + 1] = StepBack(E, not, W[m])

LEMMA Stages ==
  ASSUME NEW E, NEW to, NEW not, IsFiniteSet(E)
  PROVE  \E N, W : AreStages(E, to, not, N, W)
<1>1. AreStages(E, to, not, Bound(E, to), Within(E, to, not))
  BY WithinSteps, ReachingWithin DEF AreStages
<1> QED
  BY <1>1

\* A set with to in it that every step back stays in holds all that leads to to.
LEMMA ReachLeast ==
  ASSUME NEW E, NEW to, NEW not, IsFiniteSet(E)
  PROVE  \A S : /\ to # not => to \in S
                /\ \A f \in E : f[2] \in S /\ f[1] # not => f[1] \in S
                => Reaching(E, to, not) \subseteq S
<1>0. PICK N, W : AreStages(E, to, not, N, W)
  BY Stages
<1>1. /\ N \in Nat /\ W[0] = {to} \ {not} /\ Reaching(E, to, not) = W[N]
      /\ \A m \in 0..N : m < N => W[m + 1] = StepBack(E, not, W[m])
  BY <1>0 DEF AreStages
<1> SUFFICES ASSUME NEW S, to # not => to \in S,
                    \A f \in E : f[2] \in S /\ f[1] # not => f[1] \in S
             PROVE  Reaching(E, to, not) \subseteq S
  OBVIOUS
<1> DEFINE T == {m \in Nat : m <= N => W[m] \subseteq S}
<1>2. 0 \in T
  BY <1>1
<1>3. ASSUME NEW m \in Nat, m \in T PROVE m + 1 \in T
  <2> SUFFICES ASSUME m + 1 <= N PROVE W[m + 1] \subseteq S
    OBVIOUS
  <2>1. m \in 0..N /\ m < N /\ m <= N
    BY <1>1
  <2>2. W[m + 1] = StepBack(E, not, W[m]) /\ W[m] \subseteq S
    BY <1>1, <1>3, <2>1
  <2> QED
    BY <2>2 DEF StepBack
<1>4. Nat \subseteq T
  <2> HIDE DEF T
  <2> QED
    BY <1>2, <1>3, SetInduction
<1>5. W[N] \subseteq S
  BY <1>1, <1>4
<1> QED
  BY <1>1, <1>5

LEMMA ReachNodes ==
  ASSUME NEW E, NEW to, NEW not, IsFiniteSet(E)
  PROVE  Reaching(E, to, not) \subseteq NodesOf(E, to) \ {not}
<1> DEFINE S == NodesOf(E, to) \ {not}
<1>1. \A f \in E : f[2] \in S /\ f[1] # not => f[1] \in S
  BY DEF NodesOf
<1>2. to # not => to \in S
  BY DEF NodesOf
<1> HIDE DEF S
<1>3. Reaching(E, to, not) \subseteq S
  BY <1>1, <1>2, ReachLeast
<1> QED
  BY <1>3 DEF S

\* The sets grow as long as they can, and cannot do so for longer than there are nodes.
LEMMA WithinStable ==
  ASSUME NEW E, NEW to, NEW not, IsFiniteSet(E)
  PROVE  StepBack(E, not, Within(E, to, not)[Bound(E, to)]) = Within(E, to, not)[Bound(E, to)]
<1> DEFINE N == Bound(E, to)
           W == Within(E, to, not)
           V == NodesOf(E, to)
           T == {m \in Nat : m <= N => \/ StepBack(E, not, W[m]) = W[m]
                                       \/ to # not /\ Cardinality(W[m]) >= m + 1}
<1>1. /\ N \in Nat /\ W[0] = {to} \ {not}
      /\ \A m \in 0..N : W[m] \subseteq V
      /\ \A m \in 0..N : m < N => W[m + 1] = StepBack(E, not, W[m])
  BY WithinSteps
<1>2. IsFiniteSet(V) /\ N = Cardinality(V)
  BY NodesFinite DEF Bound
<1> HIDE DEF N, W, V
<1>3. ASSUME NEW A, NEW B, A \subseteq B, A # B, B \subseteq V
      PROVE  Cardinality(A) \in Nat /\ Cardinality(B) \in Nat /\ Cardinality(A) < Cardinality(B)
  <2>1. IsFiniteSet(A) /\ IsFiniteSet(B)
    BY <1>2, <1>3, FS_Subset
  <2> QED
    BY <1>3, <2>1, FS_Subset, FS_CardinalityType
<1>4. 0 \in T
  <2>1. CASE to = not
    <3>1. W[0] = {}
      BY <1>1, <2>1
    <3>2. StepBack(E, not, {}) = {}
      BY DEF StepBack
    <3> QED
      BY <3>1, <3>2
  <2>2. CASE to # not
    <3>1. W[0] = {to}
      BY <1>1, <2>2
    <3>2. Cardinality({to}) = 1
      BY FS_Singleton
    <3> QED
      BY <2>2, <3>1, <3>2
  <2> QED
    BY <2>1, <2>2
<1>5. ASSUME NEW m \in Nat, m \in T PROVE m + 1 \in T
  <2> SUFFICES ASSUME m + 1 <= N, StepBack(E, not, W[m + 1]) # W[m + 1]
               PROVE  to # not /\ Cardinality(W[m + 1]) >= (m + 1) + 1
    OBVIOUS
  <2>1. m \in 0..N /\ m + 1 \in 0..N /\ m < N /\ m <= N
    BY <1>1
  <2>2. W[m + 1] = StepBack(E, not, W[m]) /\ W[m + 1] \subseteq V
    BY <1>1, <2>1
  <2>3. StepBack(E, not, W[m]) # W[m]
    BY <2>2
  <2>4. to # not /\ Cardinality(W[m]) >= m + 1
    BY <1>5, <2>1, <2>3
  <2>5. W[m] \subseteq W[m + 1] /\ W[m] # W[m + 1]
    BY <2>2, <2>3 DEF StepBack
  <2>6. Cardinality(W[m]) \in Nat /\ Cardinality(W[m + 1]) \in Nat /\ Cardinality(W[m]) < Cardinality(W[m + 1])
    BY <1>3, <2>2, <2>5
  <2> QED
    BY <2>4, <2>6
<1>6. Nat \subseteq T
  <2> HIDE DEF T
  <2> QED
    BY <1>4, <1>5, SetInduction
<1>7. StepBack(E, not, W[N]) = W[N] \/ Cardinality(W[N]) >= N + 1
  BY <1>1, <1>6
<1>8. Cardinality(W[N]) \in Nat /\ Cardinality(W[N]) <= N
  <2>1. W[N] \subseteq V
    BY <1>1
  <2> QED
    BY <1>2, <2>1, FS_Subset, FS_CardinalityType
<1> QED
  BY <1>1, <1>7, <1>8 DEF W, N

LEMMA ReachStep ==
  ASSUME NEW E, NEW to, NEW not, IsFiniteSet(E), NEW f \in E,
         f[2] \in Reaching(E, to, not), f[1] # not
  PROVE  f[1] \in Reaching(E, to, not)
<1> DEFINE R == Reaching(E, to, not)
<1>1. StepBack(E, not, R) = R
  BY ReachingWithin, WithinStable
<1> HIDE DEF R
<1>2. f[1] \in StepBack(E, not, R)
  BY DEF StepBack, R
<1> QED
  BY <1>1, <1>2 DEF R

LEMMA ReachStart ==
  ASSUME NEW E, NEW to, NEW not, IsFiniteSet(E), to # not
  PROVE  to \in Reaching(E, to, not)
<1>0. PICK N, W : AreStages(E, to, not, N, W)
  BY Stages
<1>1. /\ N \in Nat /\ W[0] = {to} \ {not} /\ Reaching(E, to, not) = W[N]
      /\ \A m \in 0..N : m < N => W[m + 1] = StepBack(E, not, W[m])
  BY <1>0 DEF AreStages
<1> DEFINE T == {m \in Nat : m <= N => to \in W[m]}
<1>2. 0 \in T
  BY <1>1
<1>3. ASSUME NEW m \in Nat, m \in T PROVE m + 1 \in T
  <2> SUFFICES ASSUME m + 1 <= N PROVE to \in W[m + 1]
    OBVIOUS
  <2>1. m \in 0..N /\ m < N /\ m <= N
    BY <1>1
  <2> QED
    BY <1>1, <1>3, <2>1 DEF StepBack
<1>4. Nat \subseteq T
  <2> HIDE DEF T
  <2> QED
    BY <1>2, <1>3, SetInduction
<1> QED
  BY <1>1, <1>4
-----------------------------------------------------------------------------
(* Postdominators *)

LEMMA PdDef ==
  ASSUME NEW E, NEW root
  PROVE  /\ DOMAIN Postdominators(E, root) = NodesOf(E, root)
         /\ \A x \in NodesOf(E, root) :
              Postdominators(E, root)[x] = {y \in NodesOf(E, root) : x \notin Reaching(E, root, y)}
         /\ root \in NodesOf(E, root)
         /\ \A f \in E : f[1] \in NodesOf(E, root) /\ f[2] \in NodesOf(E, root)
BY DEF Postdominators, NodesOf

\* Postdominance: reflexive, with the root on top.
LEMMA PdSelf ==
  ASSUME NEW E, NEW root, IsFiniteSet(E), NEW x \in NodesOf(E, root)
  PROVE  /\ x \in Postdominators(E, root)[x]
         /\ root \in Postdominators(E, root)[x]
         /\ Postdominators(E, root)[root] = {root}
<1>1. x \notin Reaching(E, root, x) /\ root \notin Reaching(E, root, root)
  BY ReachNodes
<1>2. x \notin Reaching(E, root, root)
  <2> DEFINE S == {}
  <2>1. Reaching(E, root, root) \subseteq S
    <3>1. \A f \in E : f[2] \in S /\ f[1] # root => f[1] \in S
      OBVIOUS
    <3> HIDE DEF S
    <3> QED
      BY <3>1, ReachLeast
  <2> QED
    BY <2>1
<1>3. \A y \in NodesOf(E, root) : y # root => root \in Reaching(E, root, y)
  BY ReachStart
<1> QED
  BY <1>1, <1>2, <1>3, PdDef

\* What postdominates a node and is not the node postdominates what follows it.
LEMMA PdStep ==
  ASSUME NEW E, NEW root, IsFiniteSet(E), NEW f \in E,
         NEW y \in Postdominators(E, root)[f[1]], y # f[1]
  PROVE  y \in Postdominators(E, root)[f[2]]
<1>1. /\ f[1] \in NodesOf(E, root) /\ f[2] \in NodesOf(E, root)
      /\ y \in NodesOf(E, root) /\ f[1] \notin Reaching(E, root, y)
  BY PdDef
<1>2. f[2] \notin Reaching(E, root, y)
  BY <1>1, ReachStep
<1> QED
  BY <1>1, <1>2, PdDef

LEMMA PdTransitive ==
  ASSUME NEW E, NEW root, IsFiniteSet(E), NEW x \in NodesOf(E, root),
         NEW y \in Postdominators(E, root)[x], NEW z \in Postdominators(E, root)[y]
  PROVE  z \in Postdominators(E, root)[x]
<1> DEFINE Ry == Reaching(E, root, y)
           Rz == Reaching(E, root, z)
           S == Ry \cap Rz
<1>1. /\ y \in NodesOf(E, root) /\ z \in NodesOf(E, root)
      /\ x \notin Ry /\ y \notin Rz
  BY PdDef
<1>2. root # z => root \in S
  <2>1. root # z => root \in Rz
    BY ReachStart
  <2>2. root # z => root # y
    BY <1>1, <2>1
  <2> QED
    BY <2>1, <2>2, ReachStart
<1>3. ASSUME NEW f \in E, f[2] \in S, f[1] # z PROVE f[1] \in S
  <2>1. f[1] \in Rz
    BY <1>3, ReachStep
  <2>2. f[1] # y
    BY <1>1, <2>1
  <2> QED
    BY <1>3, <2>1, <2>2, ReachStep
<1>4. Rz \subseteq S
  <2> HIDE DEF S
  <2> QED
    BY <1>2, <1>3, ReachLeast
<1>5. x \notin Rz
  BY <1>1, <1>4
<1> QED
  BY <1>1, <1>5, PdDef

\* From every node a path leads to the root.
AllReach(E, root) ==
  \A S \in SUBSET NodesOf(E, root) :
    root \in S /\ (\A f \in E : f[2] \in S => f[1] \in S) => S = NodesOf(E, root)

LEMMA PdAntisymmetric ==
  ASSUME NEW E, NEW root, IsFiniteSet(E), AllReach(E, root), NEW x \in NodesOf(E, root),
         NEW y \in Postdominators(E, root)[x], x \in Postdominators(E, root)[y]
  PROVE  x = y
<1> DEFINE Rx == Reaching(E, root, x)
           Ry == Reaching(E, root, y)
           S == Rx \cap Ry
<1> SUFFICES ASSUME x # y PROVE FALSE
  OBVIOUS
<1>1. y \in NodesOf(E, root) /\ x \notin Ry /\ y \notin Rx
  BY PdDef
<1>2. root # x /\ root # y
  BY <1>1, ReachStart
<1>3. root \in S
  BY <1>2, ReachStart
<1>4. ASSUME NEW f \in E, f[2] \in S PROVE f[1] \in S
  <2>1. f[1] # x => f[1] \in Rx
    BY <1>4, ReachStep
  <2>2. f[1] # y => f[1] \in Ry
    BY <1>4, ReachStep
  <2> QED
    BY <1>1, <2>1, <2>2
<1>5. S \subseteq NodesOf(E, root)
  BY ReachNodes
<1>6. S = NodesOf(E, root)
  BY <1>3, <1>4, <1>5 DEF AllReach
<1> QED
  BY <1>1, <1>6

\* The postdominators of a node are in line.
LEMMA PdLinear ==
  ASSUME NEW E, NEW root, IsFiniteSet(E), AllReach(E, root), NEW x \in NodesOf(E, root),
         NEW y \in Postdominators(E, root)[x], NEW z \in Postdominators(E, root)[x]
  PROVE  z \in Postdominators(E, root)[y] \/ y \in Postdominators(E, root)[z]
<1> DEFINE Ry == Reaching(E, root, y)
           Rz == Reaching(E, root, z)
           S == Ry \cup Rz
<1> SUFFICES ASSUME z \notin Postdominators(E, root)[y], y \notin Postdominators(E, root)[z]
             PROVE  FALSE
  OBVIOUS
<1>1. /\ y \in NodesOf(E, root) /\ z \in NodesOf(E, root)
      /\ x \notin Ry /\ x \notin Rz /\ y \in Rz /\ z \in Ry
  BY PdDef
<1>2. root \in S
  <2>1. root # y \/ root # z
    BY <1>1, ReachNodes
  <2> QED
    BY <2>1, ReachStart
<1>3. ASSUME NEW f \in E, f[2] \in S PROVE f[1] \in S
  <2>1. f[2] \in Ry => f[1] \in S
    BY <1>1, ReachStep
  <2>2. f[2] \in Rz => f[1] \in S
    BY <1>1, ReachStep
  <2> QED
    BY <1>3, <2>1, <2>2
<1>4. S \subseteq NodesOf(E, root)
  BY ReachNodes
<1>5. S = NodesOf(E, root)
  BY <1>2, <1>3, <1>4 DEF AllReach
<1> QED
  BY <1>1, <1>5

\* The nearest postdominator of a node among the members of C.
IsNearest(P, C, x, y) == y \in P[x] \cap C /\ \A z \in P[x] \cap C : z \in P[y]

LEMMA NearestUnique ==
  ASSUME NEW E, NEW root, IsFiniteSet(E), AllReach(E, root), NEW x \in NodesOf(E, root), NEW C, NEW P,
         P = Postdominators(E, root),
         NEW y, IsNearest(P, C, x, y), NEW z, IsNearest(P, C, x, z)
  PROVE  y = z
<1>1. y \in P[z] /\ z \in P[y] /\ y \in P[x]
  BY DEF IsNearest
<1>2. y \in NodesOf(E, root)
  BY <1>1, PdDef
<1> QED
  BY <1>1, <1>2, PdAntisymmetric

\* The postdominators of a node are a chain, so that those in C have a first one: BBMap
\* in loopSplit never goes up its tree in vain (DSWP_4.cpp:315-328).
THEOREM NearestExists ==
  ASSUME NEW E, NEW root, IsFiniteSet(E), AllReach(E, root), NEW x \in NodesOf(E, root), NEW C, root \in C,
         NEW P, P = Postdominators(E, root)
  PROVE  \E y : IsNearest(P, C, x, y)
<1> DEFINE V == NodesOf(E, root)
           L == P[x] \cap C
           R == StrictSubsetOrdering(V)
           T == {V \ P[y] : y \in L}
<1>0. DOMAIN P = V /\ L \subseteq V /\ \A y \in V : P[y] \subseteq V
  BY PdDef
<1>1. root \in L
  BY PdSelf
<1>2. IsFiniteSet(V)
  BY NodesFinite
<1>3. T \subseteq FiniteSubsetsOf(V) /\ T # {}
  <2>1. \A y : IsFiniteSet(V \ P[y]) /\ V \ P[y] \in SUBSET V
    BY <1>2, FS_Subset
  <2> QED
    BY <1>1, <2>1 DEF FiniteSubsetsOf
<1>4. PICK A \in T : \A B \in T : <<B, A>> \notin R
  <2>1. IsWellFoundedOn(R, FiniteSubsetsOf(V))
    BY FS_StrictSubsetOrderingWellFounded
  <2> HIDE DEF T, R
  <2> QED
    BY <1>3, <2>1, WFMin
<1>5. PICK y \in L : A = V \ P[y]
  OBVIOUS
<1>6. ASSUME NEW z \in L PROVE z \in P[y]
  <2> SUFFICES ASSUME z \notin P[y] PROVE FALSE
    OBVIOUS
  <2>1. y \in P[z]
    BY <1>0, PdLinear
  <2>2. P[y] \subseteq P[z]
    BY <1>0, <2>1, PdTransitive
  <2>3. z \in P[z] /\ z \in V
    BY <1>0, PdSelf
  <2>4. V \ P[z] \in T /\ V \ P[z] \subseteq V \ P[y] /\ V \ P[z] # V \ P[y]
    BY <2>2, <2>3
  <2>5. <<V \ P[z], A>> \in R
    BY <1>5, <2>4 DEF StrictSubsetOrdering
  <2> QED
    BY <1>4, <2>4, <2>5
<1> QED
  BY <1>6 DEF IsNearest

\* The postdominators of a postdominator are postdominators, all but those it follows.
LEMMA PdSubset ==
  ASSUME NEW E, NEW root, IsFiniteSet(E), NEW P, P = Postdominators(E, root), NEW x \in NodesOf(E, root)
  PROVE  P[x] \subseteq NodesOf(E, root) /\ \A y \in P[x] : P[y] \subseteq P[x]
<1>1. P[x] \subseteq NodesOf(E, root)
  BY PdDef
<1>2. ASSUME NEW y \in P[x], NEW z \in P[y] PROVE z \in P[x]
  BY <1>2, PdTransitive
<1> QED
  BY <1>1, <1>2

\* Every node but the root has a parent in the tree, which has the other postdominators.
LEMMA ParentIs ==
  ASSUME NEW E, NEW root, IsFiniteSet(E), AllReach(E, root), NEW P, P = Postdominators(E, root),
         NEW x \in NodesOf(E, root), x # root
  PROVE  Parent(P, x) \in P[x] /\ P[Parent(P, x)] = P[x] \ {x}
<1> DEFINE C == NodesOf(E, root) \ {x}
<1>1. root \in C
  BY DEF NodesOf
<1>2. PICK y : IsNearest(P, C, x, y)
  <2> HIDE DEF C
  <2> QED
    BY <1>1, NearestExists
<1>3. y \in P[x] /\ y # x /\ P[y] \subseteq P[x] /\ P[x] \subseteq NodesOf(E, root)
  BY <1>2, PdSubset DEF IsNearest
<1>4. P[x] \ {x} \subseteq P[y]
  BY <1>2, <1>3 DEF IsNearest
<1>5. x \notin P[y]
  BY <1>3, PdAntisymmetric
<1>6. P[y] = P[x] \ {x}
  BY <1>3, <1>4, <1>5
<1> QED
  BY <1>3, <1>6 DEF Parent

\* Two nodes have a nearest common ancestor in the tree, which has what postdominates both.
LEMMA CommonIs ==
  ASSUME NEW E, NEW root, IsFiniteSet(E), AllReach(E, root), NEW P, P = Postdominators(E, root),
         NEW x \in NodesOf(E, root), NEW s \in NodesOf(E, root)
  PROVE  NearestCommon(P, x, s) \in P[x] /\ P[NearestCommon(P, x, s)] = P[x] \cap P[s]
<1> DEFINE C == P[s]
<1>1. root \in C
  BY PdSelf
<1>2. PICK y : IsNearest(P, C, x, y)
  <2> HIDE DEF C
  <2> QED
    BY <1>1, NearestExists
<1>3. y \in P[x] /\ y \in P[s] /\ P[y] \subseteq P[x] /\ P[y] \subseteq P[s]
  BY <1>2, PdSubset DEF IsNearest
<1>4. P[x] \cap P[s] \subseteq P[y]
  BY <1>2 DEF IsNearest
<1>5. P[y] = P[x] \cap P[s]
  BY <1>3, <1>4
<1> QED
  BY <1>3, <1>5 DEF NearestCommon

\* The nearest member after a step: a block that is decided there, or a postdominator
\* of the block before.
LEMMA NearestDecided ==
  ASSUME NEW E, NEW root, NEW P, P = Postdominators(E, root), NEW C,
         NEW x, NEW s, <<x, s>> \in E, NEW y, IsNearest(P, C, s, y), ~Decides(E, P, x, y)
  PROVE  y # x /\ y \in P[x]
<1>1. s \in DOMAIN P /\ y \in P[s]
  <2>1. s \in NodesOf(E, root)
    BY DEF NodesOf
  <2> QED
    BY <2>1, PdDef DEF IsNearest
<1> QED
  BY <1>1 DEF Decides

\* Where the nearest members after two steps are not decided, they are the same.
LEMMA NearestAgree ==
  ASSUME NEW E, NEW root, IsFiniteSet(E), AllReach(E, root), NEW P, P = Postdominators(E, root), NEW C,
         NEW x, NEW s, NEW q, <<x, s>> \in E, <<x, q>> \in E,
         NEW y, IsNearest(P, C, s, y), ~Decides(E, P, x, y),
         NEW z, IsNearest(P, C, q, z), ~Decides(E, P, x, z)
  PROVE  y = z
<1>1. y # x /\ y \in P[x] /\ z # x /\ z \in P[x]
  BY NearestDecided
<1>2. y \in P[q] /\ z \in P[s]
  <2> DEFINE f == <<x, s>>
             g == <<x, q>>
  <2>1. f \in E /\ f[1] = x /\ f[2] = s /\ g \in E /\ g[1] = x /\ g[2] = q
    OBVIOUS
  <2> HIDE DEF f, g
  <2> QED
    BY <1>1, <2>1, PdStep
<1>3. y \in P[z] /\ z \in P[y]
  BY <1>2 DEF IsNearest
<1>4. y \in NodesOf(E, root)
  <2>1. x \in NodesOf(E, root)
    BY DEF NodesOf
  <2> QED
    BY <1>1, <2>1, PdDef
<1> QED
  BY <1>3, <1>4, PdAntisymmetric

\* No member decided at x, and x none itself: the nearest member stays the same.
LEMMA NearestStays ==
  ASSUME NEW E, NEW root, IsFiniteSet(E), AllReach(E, root), NEW P, P = Postdominators(E, root), NEW C,
         NEW x, NEW s, <<x, s>> \in E, x \notin C,
         NEW y, IsNearest(P, C, x, y), NEW z, IsNearest(P, C, s, z), ~Decides(E, P, x, z)
  PROVE  y = z
<1>1. z \in P[x] /\ z \in C /\ y \in C /\ y \in P[x] /\ y # x
  BY NearestDecided DEF IsNearest
<1>2. z \in P[y]
  BY <1>1 DEF IsNearest
<1>3. y \in P[s]
  <2> DEFINE f == <<x, s>>
  <2>1. f \in E /\ f[1] = x /\ f[2] = s
    OBVIOUS
  <2> HIDE DEF f
  <2> QED
    BY <1>1, <2>1, PdStep
<1>4. y \in P[z]
  BY <1>1, <1>3 DEF IsNearest
<1>5. y \in NodesOf(E, root)
  <2>1. x \in NodesOf(E, root)
    BY DEF NodesOf
  <2> QED
    BY <1>1, <2>1, PdDef
<1> QED
  BY <1>2, <1>4, <1>5, PdAntisymmetric

\* Where the members of C are decided in C only, all paths come first to the nearest:
\* what a branch of a worker may jump over has no copy (DSWP_4.cpp:315-328).
THEOREM FirstIsNearest ==
  ASSUME NEW E, NEW root, IsFiniteSet(E), AllReach(E, root), NEW P, P = Postdominators(E, root),
         NEW C, root \in C, C \subseteq NodesOf(E, root), \A f \in E : f = <<f[1], f[2]>>,
         \A x \in NodesOf(E, root) \ C : \A y \in C : ~Decides(E, P, x, y),
         NEW other, other \notin NodesOf(E, root),
         NEW x \in NodesOf(E, root), NEW y, IsNearest(P, C, x, y)
  PROVE  {z \in C : x \in Reaching({f \in E : f[1] \notin C}, z, other)} = {y}
<1> DEFINE V == NodesOf(E, root)
           K == {f \in E : f[1] \notin C}
<1>0. /\ IsFiniteSet(K) /\ DOMAIN P = V /\ \A u \in V : u \in P[u] /\ P[u] \subseteq V
      /\ \A f \in E : f[1] \in V /\ f[2] \in V
  BY FS_Subset, PdSelf, PdDef
<1>1. ASSUME NEW z \in C, x \in Reaching(K, z, other)
      PROVE  y = z
  <2> DEFINE S == {u \in V : IsNearest(P, C, u, z)}
  <2>1. z \in S
    BY <1>0 DEF IsNearest
  <2>2. ASSUME NEW f \in K, f[2] \in S PROVE f[1] \in S
    <3>1. f[1] \in V /\ f[1] \notin C /\ <<f[1], f[2]>> \in E
      BY <1>0
    <3>2. PICK u : IsNearest(P, C, f[1], u)
      BY <3>1, NearestExists
    <3>3. IsNearest(P, C, f[2], z) /\ ~Decides(E, P, f[1], z)
      BY <2>2, <3>1
    <3>4. u = z
      BY <3>1, <3>2, <3>3, NearestStays
    <3> QED
      BY <3>1, <3>2, <3>4
  <2>3. Reaching(K, z, other) \subseteq S
    <3> HIDE DEF S, K
    <3> QED
      BY <1>0, <2>1, <2>2, ReachLeast
  <2>4. IsNearest(P, C, x, z)
    BY <1>1, <2>3
  <2> QED
    BY <2>4, NearestUnique
<1>2. x \in Reaching(K, y, other)
  <2> DEFINE S == {u \in V : \A z : IsNearest(P, C, u, z) => u \in Reaching(K, z, other)}
  <2>1. ASSUME NEW u \in V \cap C PROVE u \in S
    <3> SUFFICES ASSUME NEW z, IsNearest(P, C, u, z) PROVE u \in Reaching(K, z, other)
      OBVIOUS
    <3>1. u \in P[u]
      BY <1>0
    <3>2. IsNearest(P, C, u, u)
      BY <3>1 DEF IsNearest
    <3>3. u = z
      BY <3>2, NearestUnique
    <3>4. u # other
      OBVIOUS
    <3> QED
      BY <1>0, <3>3, <3>4, ReachStart
  <2>2. root \in S
    BY <2>1
  <2>3. ASSUME NEW f \in E, f[2] \in S PROVE f[1] \in S
    <3>1. CASE f[1] \in C
      BY <1>0, <2>1, <3>1
    <3>2. CASE f[1] \notin C
      <4> SUFFICES ASSUME NEW z, IsNearest(P, C, f[1], z) PROVE f[1] \in Reaching(K, z, other)
        BY <1>0
      <4>1. PICK u : IsNearest(P, C, f[2], u)
        BY <1>0, NearestExists
      <4>2. u \in C /\ <<f[1], f[2]>> \in E
        BY <4>1 DEF IsNearest
      <4>3. ~Decides(E, P, f[1], u)
        BY <1>0, <3>2, <4>2
      <4>4. z = u
        BY <3>2, <4>1, <4>2, <4>3, NearestStays
      <4>5. f \in K /\ f[2] \in Reaching(K, z, other) /\ f[1] # other
        BY <1>0, <2>3, <3>2, <4>1, <4>4
      <4> HIDE DEF K
      <4> QED
        BY <1>0, <4>5, ReachStep
    <3> QED
      BY <3>1, <3>2
  <2>4. S = V
    <3> HIDE DEF K
    <3>1. S \subseteq V
      OBVIOUS
    <3> HIDE DEF S
    <3> QED
      BY <2>2, <2>3, <3>1 DEF AllReach
  <2> QED
    BY <2>4
<1>3. y \in C
  BY DEF IsNearest
<1> QED
  BY <1>1, <1>2, <1>3
-----------------------------------------------------------------------------
(* Loops *)

LEMMA LoopFinite ==
  ASSUME NEW cfg, NEW P, P = Postdominators(EdgesOf(cfg), exit)
  PROVE  /\ IsFiniteSet(EdgesOf(cfg)) /\ EdgesOf(cfg) \subseteq Block \X (Block \cup {exit})
         /\ header \in Block /\ exit \notin Block /\ -1 \notin Block /\ -1 # exit
<1>1. IsFiniteSet(Block)
  BY LoopAssumption, FS_Interval DEF Block
<1>2. IsFiniteSet(Block \cup {exit})
  BY <1>1, FS_AddElement
<1>3. IsFiniteSet(Block \X (Block \cup {exit}))
  BY <1>1, <1>2, FS_Product
<1>4. EdgesOf(cfg) \subseteq Block \X (Block \cup {exit})
  BY DEF EdgesOf
<1>5. IsFiniteSet(EdgesOf(cfg))
  BY <1>3, <1>4, FS_Subset
<1>6. header \in Block /\ exit \notin Block /\ -1 \notin Block /\ -1 # exit
  BY LoopAssumption DEF header, exit, Block
<1> QED
  BY <1>4, <1>5, <1>6

\* Every block of a loop is on the way to its exit.
LEMMA LoopReaches ==
  ASSUME NEW cfg, IsLoop(cfg)
  PROVE  /\ NodesOf(EdgesOf(cfg), exit) = Block \cup {exit}
         /\ AllReach(EdgesOf(cfg), exit)
<1> DEFINE E == EdgesOf(cfg)
           Inner == {f \in E : f[2] # exit}
           Back == Transposed(Inner)
<1>1. /\ \E b \in Block : exit \in cfg[b]
      /\ Reaching(Inner, header, exit) = Block /\ Reaching(Back, header, exit) = Block
  BY DEF IsLoop
<1>2. /\ IsFiniteSet(E) /\ E \subseteq Block \X (Block \cup {exit})
      /\ header \in Block /\ exit \notin Block
  BY LoopFinite
<1>3. IsFiniteSet(Inner)
  BY <1>2, FS_Subset
<1>4. IsFiniteSet(Back)
  <2> DEFINE swap == [f \in Inner |-> <<f[2], f[1]>>]
  <2>1. swap \in Surjection(Inner, Back)
    BY DEF Surjection, Transposed
  <2> QED
    BY <1>3, <2>1, FS_Surjection
<1>5. PICK b \in Block : <<b, exit>> \in E
  BY <1>1 DEF EdgesOf
<1>6. ASSUME NEW S, exit \in S, \A f \in E : f[2] \in S => f[1] \in S
      PROVE  Block \subseteq S
  <2> DEFINE T == {n \in Block : n \in S => header \in S}
  <2>1. header \in T
    BY <1>2
  <2>2. ASSUME NEW f \in Back, f[2] \in T PROVE f[1] \in T
    <3>1. PICK g \in Inner : f = <<g[2], g[1]>>
      BY DEF Transposed
    <3>2. f[1] = g[2] /\ f[2] = g[1] /\ g[2] \in Block
      BY <1>2, <3>1
    <3> QED
      BY <1>6, <2>2, <3>2
  <2>3. Reaching(Back, header, exit) \subseteq T
    <3> HIDE DEF T, Back
    <3> QED
      BY <1>4, <2>1, <2>2, ReachLeast
  <2>4. b \in S
    <3> DEFINE f == <<b, exit>>
    <3>1. f \in E /\ f[1] = b /\ f[2] = exit
      BY <1>5
    <3> QED
      BY <1>6, <3>1
  <2>5. header \in S
    BY <1>1, <2>3, <2>4
  <2>6. \A f \in Inner : f[2] \in S /\ f[1] # exit => f[1] \in S
    BY <1>6
  <2>7. Reaching(Inner, header, exit) \subseteq S
    <3> HIDE DEF Inner
    <3> QED
      BY <1>3, <2>5, <2>6, ReachLeast
  <2> QED
    BY <1>1, <2>7
<1>7. NodesOf(E, exit) = Block \cup {exit}
  <2>1. NodesOf(E, exit) \subseteq Block \cup {exit}
    BY <1>2 DEF NodesOf
  <2> DEFINE S == NodesOf(E, exit)
  <2>2. exit \in S /\ \A f \in E : f[1] \in S
    BY DEF NodesOf
  <2>3. Block \subseteq S
    <3> HIDE DEF S
    <3> QED
      BY <1>6, <2>2
  <2> QED
    BY <2>1, <2>2, <2>3
<1>8. AllReach(E, exit)
  <2> SUFFICES ASSUME NEW S \in SUBSET NodesOf(E, exit), exit \in S,
                      \A f \in E : f[2] \in S => f[1] \in S
               PROVE  S = NodesOf(E, exit)
    BY DEF AllReach
  <2>1. Block \subseteq S
    BY <1>6
  <2> QED
    BY <1>7, <2>1
<1> QED
  BY <1>7, <1>8
=============================================================================
