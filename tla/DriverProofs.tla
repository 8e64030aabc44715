---------------------------- MODULE DriverProofs ----------------------------
(* Proofs about module Driver, for any module the pass is run on and any      *)
(* number of worker functions.                                                *)
EXTENDS Driver, SequenceTheorems, TLAPS

(* The inductive invariant *)

InCall == pc \in DOMAIN Calls

\* Which calls came before, in the run on this loop.
Earlier == [
  initialize |-> {},
  buildPDG |-> {"initialize"},
  findSCC |-> {"initialize", "buildPDG"},
  threadPartition |-> {"initialize", "buildPDG", "findSCC"},
  getLiveinfo |-> {"initialize", "buildPDG", "findSCC", "threadPartition"},
  getDominators |-> {"initialize", "buildPDG", "findSCC", "threadPartition", "getLiveinfo"},
  preLoopSplit |-> {"initialize", "buildPDG", "findSCC", "threadPartition", "getLiveinfo",
                    "getDominators"},
  loopSplit |-> {"initialize", "buildPDG", "findSCC", "threadPartition", "getLiveinfo",
                 "getDominators", "preLoopSplit"},
  insertSynchronization |-> {"initialize", "buildPDG", "findSCC", "threadPartition", "getLiveinfo",
                             "getDominators", "preLoopSplit", "loopSplit"},
  cleanup |-> {"initialize", "buildPDG", "findSCC", "threadPartition", "getLiveinfo",
               "getDominators", "preLoopSplit", "loopSplit", "insertSynchronization"}]

\* Between two loops the tables are empty; during a run they hold entries of this loop
\* only, and those of the calls before are filled.
TableInv ==
  /\ pc \in {"function", "run", "finished"} => \A t \in Table : tables[t] = {}
  /\ InCall \/ pc = "clear" => \A t \in Table : tables[t] \subseteq {L}
  /\ InCall => \A d \in Earlier[pc] : \A t \in Calls[d].fills : tables[t] = {L}

\* The number of the loop at hand has not been used before preLoopSplit.
CounterInv ==
  /\ \A p \in madeFor : p[1][1] <= loopCounter
  /\ pc \in DOMAIN Calls \ {"loopSplit", "insertSynchronization", "cleanup"} =>
       \A p \in madeFor : p[1][1] < loopCounter

\* The functions that are not generated are those of the source.
NameInv ==
  /\ \A g \in generated : g[1] > 0
  /\ \A f \in DOMAIN functions : functions[f].name[1] = 0 \/ functions[f].name \in generated
  /\ InCall => functions[fn].name[1] = 0 /\ loopCounter > 0

\* Where the pass is.
PlaceInv ==
  /\ pc = "function" => fn = 0 \/ nth > Len(functions[fn].loops)
  /\ pc = "finished" => fn = Len(functions) /\ nth > Len(functions[fn].loops)
  /\ pc \notin {"function", "finished"} /\ functions[fn].loops # <<>> => declared

\* What runOnLoop has found out about the loop at hand.
LoopInv ==
  /\ InCall => this.depth = 1 /\ this.unique
  /\ pc \in DOMAIN Calls \ {"initialize", "buildPDG", "findSCC"} => this.sccs > 1

Past(f, m) == f < fn \/ (f = fn /\ (m < nth \/ (m = nth /\ pc = "clear")))

\* The loops replaced so far.
ReplacedInv ==
  /\ \A r \in replaced : r[1] \in DOMAIN functions /\ r[2] \in DOMAIN functions[r[1]].loops
  /\ \A f \in DOMAIN functions : \A m \in DOMAIN functions[f].loops :
       <<f, m>> \in replaced <=>
         Past(f, m) /\ functions[f].name[1] = 0 /\ Splittable(functions[f].loops[m])

DeathInv == pc = "segfault" => ~Known

IInv == /\ TypeOK /\ TableInv /\ CounterInv /\ OneLoopPerWorker /\ NameInv /\ PlaceInv
        /\ LoopInv /\ ReplacedInv /\ DeathInv
-----------------------------------------------------------------------------
(* The table of calls *)

LEMMA CallNames ==
  /\ DOMAIN Calls = {"initialize", "buildPDG", "findSCC", "threadPartition", "getLiveinfo",
                     "getDominators", "preLoopSplit", "loopSplit", "insertSynchronization", "cleanup"}
  /\ DOMAIN Earlier = DOMAIN Calls
  /\ DOMAIN Then = {"buildPDG", "threadPartition", "getLiveinfo", "loopSplit", "insertSynchronization"}
BY DEF Calls, Then, Earlier

\* What a call empties it fills again.
LEMMA ResetsFilled == \A c \in DOMAIN Calls : Calls[c].resets \subseteq Calls[c].fills
BY CallNames DEF Calls

\* What a call reads was filled by one before.
LEMMA ReadsFilled ==
  \A c \in DOMAIN Calls : c # "initialize" =>
    \A t \in Calls[c].reads : \E d \in Earlier[c] : t \in Calls[d].fills
<1> SUFFICES ASSUME NEW c \in DOMAIN Calls, c # "initialize", NEW t \in Calls[c].reads
             PROVE  \E d \in Earlier[c] : t \in Calls[d].fills
  OBVIOUS
<1>1. CASE c \in {"buildPDG", "findSCC", "threadPartition", "getLiveinfo"}
  BY <1>1 DEF Calls, Earlier
<1>2. CASE c \in {"getDominators", "preLoopSplit"}
  BY <1>2 DEF Calls, Earlier
<1>3. CASE c = "loopSplit"
  BY <1>3 DEF Calls, Earlier
<1>4. CASE c \in {"insertSynchronization", "cleanup"}
  BY <1>4 DEF Calls, Earlier
<1> QED
  BY <1>1, <1>2, <1>3, <1>4, CallNames

LEMMA FillsTables == \A c \in DOMAIN Calls : Calls[c].fills \subseteq Table
BY DEF Table

\* The tables after a call, when they had entries of this loop only.
LEMMA Filling ==
  ASSUME NEW c \in DOMAIN Calls, Fill(c), \A t \in Table : tables[t] \subseteq {L}
  PROVE  /\ \A t \in Table : tables'[t] \subseteq {L}
         /\ \A t \in Table : t \in Calls[c].fills \/ tables[t] = {L} => tables'[t] = {L}
<1> SUFFICES ASSUME NEW t \in Table
             PROVE  /\ tables'[t] \subseteq {L}
                    /\ t \in Calls[c].fills \/ tables[t] = {L} => tables'[t] = {L}
  OBVIOUS
<1>1. tables'[t] = (IF t \in Calls[c].resets THEN {} ELSE tables[t])
                      \cup (IF t \in Calls[c].fills THEN {L} ELSE {})
  BY DEF Fill
<1>2. t \in Calls[c].resets => t \in Calls[c].fills
  BY ResetsFilled
<1>3. tables[t] \subseteq {L}
  OBVIOUS
<1> HIDE DEF L
<1> QED
  BY <1>1, <1>2, <1>3
-----------------------------------------------------------------------------
(* Places and types *)

\* Appending the workers leaves the functions that were there.
LEMMA AppendWorkers ==
  ASSUME functions \in Seq(Function), loopCounter \in Nat, PreLoopSplit
  PROVE  /\ functions' \in Seq(Function) /\ Len(functions) <= Len(functions')
         /\ \A f \in DOMAIN functions : f \in DOMAIN functions' /\ functions'[f] = functions[f]
         /\ \A f \in DOMAIN functions' \ DOMAIN functions :
              f > Len(functions) /\ functions'[f].name \in Workers
<1>1. CASE UNCHANGED functions
  BY <1>1
<1>2. CASE \E loops \in [1..MAX_THREAD -> WorkerLoops] :
             functions' = functions \o [i \in 1..MAX_THREAD |->
               [name |-> Worker(i - 1), loops |-> loops[i], returns |-> TRUE]]
  <2>1. PICK loops \in [1..MAX_THREAD -> WorkerLoops] :
             functions' = functions \o [i \in 1..MAX_THREAD |->
               [name |-> Worker(i - 1), loops |-> loops[i], returns |-> TRUE]]
    BY <1>2
  <2> DEFINE w == [i \in 1..MAX_THREAD |->
               [name |-> Worker(i - 1), loops |-> loops[i], returns |-> TRUE]]
  <2>2. MAX_THREAD \in Nat
    BY DriverAssumption
  <2>3. ASSUME NEW i \in 1..MAX_THREAD
        PROVE  w[i] \in Function /\ w[i].name \in Workers
    <3>1. i - 1 \in 0..MAX_THREAD - 1 /\ i - 1 \in Nat
      BY <2>2
    <3>2. Worker(i - 1) \in Nat \X Nat /\ Worker(i - 1) \in Workers
      BY <3>1 DEF Worker, Workers
    <3>3. loops[i] \in Seq(Loop)
      BY DriverAssumption
    <3> QED
      BY <3>2, <3>3 DEF Function
  <2>4. w \in Seq(Function) /\ Len(w) = MAX_THREAD
    <3>1. w \in [1..MAX_THREAD -> Function]
      BY <2>3
    <3> HIDE DEF w
    <3> QED
      BY <2>2, <3>1
  <2>5. \A i \in 1..Len(w) : w[i].name \in Workers
    BY <2>3, <2>4
  <2>6. functions' = functions \o w
    BY <2>1
  <2> HIDE DEF w
  <2>7. functions' \in Seq(Function) /\ Len(functions') = Len(functions) + MAX_THREAD
    BY <2>4, <2>6, ConcatProperties
  <2>8. \A f \in 1..Len(functions) : functions'[f] = functions[f]
    BY <2>4, <2>6, ConcatProperties
  <2>9. ASSUME NEW f \in DOMAIN functions', f \notin DOMAIN functions
        PROVE  f > Len(functions) /\ functions'[f].name \in Workers
    <3>1. f > Len(functions) /\ f - Len(functions) \in 1..Len(w)
      BY <2>2, <2>4, <2>7, <2>9
    <3>2. functions'[f] = w[f - Len(functions)]
      BY <2>4, <2>6, <2>7, <3>1
    <3> QED
      BY <2>5, <3>1, <3>2
  <2> QED
    BY <2>2, <2>7, <2>8, <2>9
<1> QED
  BY <1>1, <1>2 DEF PreLoopSplit

LEMMA FilledType ==
  ASSUME TypeOK, NEW c \in DOMAIN Calls, Fill(c), fn > 0
  PROVE  tables' \in [Table -> SUBSET ((1..fn) \X (Nat \ {0}))]
<1>1. fn \in Nat /\ nth \in Nat \ {0} /\ fn \in 1..fn
  BY DEF TypeOK
<1>2. L \in (1..fn) \X (Nat \ {0})
  BY <1>1 DEF L
<1>3. tables \in [Table -> SUBSET ((1..fn) \X (Nat \ {0}))]
  BY DEF TypeOK
<1> HIDE DEF L
<1>4. \A t \in Table : (IF t \in Calls[c].resets THEN {} ELSE tables[t])
                       \cup (IF t \in Calls[c].fills THEN {L} ELSE {}) \in SUBSET ((1..fn) \X (Nat \ {0}))
  BY <1>2, <1>3
<1> QED
  BY <1>4 DEF Fill

LEMMA InitTypeOK == Init => TypeOK
<1> SUFFICES ASSUME Init PROVE TypeOK
  OBVIOUS
<1>1. functions \in Seq(Function) /\ functions # <<>>
  BY DriverAssumption DEF Init
<1>2. fn \in 0..Len(functions) /\ fn = 0
  BY <1>1 DEF Init
<1>3. tables \in [Table -> SUBSET ((1..fn) \X (Nat \ {0}))]
  BY DEF Init
<1>4. pc = "function" /\ pc \notin DOMAIN Calls
  BY CallNames DEF Init
<1>5. declared \in BOOLEAN
  BY DEF Init
<1>6. generated = {} /\ madeFor = {} /\ replaced = {} /\ loopCounter \in Nat /\ nth \in Nat \ {0}
  BY DEF Init
<1> QED
  BY <1>1, <1>2, <1>3, <1>4, <1>5, <1>6 DEF TypeOK

\* A call is made for a loop of a function of the module.
LEMMA InCallPlace ==
  ASSUME TypeOK, pc \in DOMAIN Calls \cup {"clear"}
  PROVE  /\ fn \in DOMAIN functions /\ fn > 0 /\ nth \in DOMAIN functions[fn].loops
         /\ this \in Loop /\ declared
<1>1. pc # "function"
  BY CallNames
<1>2. fn \in 1..Len(functions) /\ functions \in Seq(Function)
  BY <1>1 DEF TypeOK
<1>3. functions[fn] \in Function
  BY <1>2
<1>4. functions[fn].loops \in Seq(Loop) /\ nth \in DOMAIN functions[fn].loops /\ declared
  BY <1>3 DEF TypeOK, Function
<1> QED
  BY <1>2, <1>4 DEF this

\* The calls do not move the pass, and leave all else as it is.
LEMMA CallKeepsType ==
  ASSUME TypeOK, NEW c \in DOMAIN Calls, Fill(c), fn > 0, UNCHANGED place,
         loopCounter' \in Nat, generated' = generated, madeFor' = madeFor, replaced' = replaced,
         nth \in DOMAIN functions[fn].loops, declared,
         pc' \in {"run", "clear"} \cup (DOMAIN Calls \ {"initialize"}) \cup Fatal
  PROVE  TypeOK'
<1>1. functions' = functions /\ declared' = declared /\ fn' = fn /\ nth' = nth
  BY DEF place
<1>2. tables' \in [Table -> SUBSET ((1..fn') \X (Nat \ {0}))]
  BY <1>1, FilledType
<1> QED
  BY <1>1, <1>2 DEF TypeOK

LEMMA NextTypeOK == TypeOK /\ PlaceInv /\ [Next]_vars => TypeOK'
<1> SUFFICES ASSUME TypeOK, PlaceInv, [Next]_vars PROVE TypeOK'
  OBVIOUS
<1>1. CASE NextFunction
  <2>1. functions' = functions /\ fn' = fn + 1 /\ nth' = 1 /\ pc' = "run" /\ generated' = generated
        /\ loopCounter' = loopCounter /\ tables' = tables /\ madeFor' = madeFor /\ replaced' = replaced
        /\ fn < Len(functions)
    BY <1>1 DEF NextFunction
  <2>2. functions \in Seq(Function) /\ fn \in 0..Len(functions) /\ fn' \in 0..Len(functions') /\ fn' > 0
    BY <2>1 DEF TypeOK
  <2>3. 1..fn \subseteq 1..fn'
    BY <2>1, <2>2
  <2>4. /\ tables' \in [Table -> SUBSET ((1..fn') \X (Nat \ {0}))]
        /\ madeFor' \subseteq generated' \X ((1..fn') \X (Nat \ {0}))
        /\ replaced' \subseteq (1..fn') \X (Nat \ {0})
    <3> DEFINE A == 1..fn  B == 1..fn'  N == Nat \ {0}
    <3>1. A \subseteq B
      BY <2>3
    <3>2. tables \in [Table -> SUBSET (A \X N)] /\ madeFor \subseteq generated \X (A \X N)
          /\ replaced \subseteq A \X N
      BY DEF TypeOK
    <3> HIDE DEF A, B, N
    <3>3. A \X N \subseteq B \X N
      BY <3>1
    <3>4. \A t \in Table : tables[t] \in SUBSET (B \X N)
      BY <3>2, <3>3
    <3>5. tables \in [Table -> SUBSET (B \X N)]
      BY <3>2, <3>4
    <3>6. madeFor \subseteq generated \X (B \X N) /\ replaced \subseteq B \X N
      BY <3>2, <3>3
    <3> QED
      BY <3>5, <3>6, <2>1 DEF B, N
  <2>5. declared' \in BOOLEAN
    BY <1>1 DEF NextFunction
  <2>6. pc' \notin DOMAIN Calls \cup {"clear"}
    BY <2>1, CallNames
  <2> QED
    BY <2>1, <2>2, <2>4, <2>5, <2>6 DEF TypeOK
<1>2. CASE EndFunction
  <2>1. pc' \in {"function", "finished"} /\ pc' \notin DOMAIN Calls \cup {"clear"} /\ fn > 0
    BY <1>2, CallNames DEF EndFunction, TypeOK
  <2> QED
    BY <1>2, <2>1 DEF EndFunction, TypeOK, place
<1>3. CASE Skip
  <2>1. pc' \notin DOMAIN Calls \cup {"clear"}
    BY <1>3, CallNames DEF Skip
  <2> QED
    BY <1>3, <2>1 DEF Skip, TypeOK
<1>4. CASE Initialize
  <2>1. fn > 0 /\ fn \in DOMAIN functions
    BY <1>4 DEF Initialize, TypeOK
  <2>2. functions[fn] \in Function
    BY <2>1 DEF TypeOK
  <2>3. nth \in DOMAIN functions[fn].loops
    BY <1>4, <2>2 DEF Initialize, TypeOK, Function
  <2>4. declared
    BY <1>4, <2>2, <2>3 DEF Initialize, PlaceInv, Function
  <2>5. loopCounter' \in Nat
    BY <1>4 DEF Initialize, NextCounter, TypeOK
  <2>6. pc' \in {"buildPDG", "clear"}
    BY <1>4 DEF Initialize
  <2> QED
    BY <1>4, <2>1, <2>3, <2>4, <2>5, <2>6, CallKeepsType, CallNames DEF Initialize
<1>5. ASSUME NEW c \in DOMAIN Then, Call(c)
      PROVE  TypeOK'
  <2>1. c \in DOMAIN Calls /\ pc = c
    BY <1>5, CallNames DEF Call
  <2>2. fn > 0 /\ nth \in DOMAIN functions[fn].loops /\ declared
    BY <2>1, InCallPlace
  <2>3. pc' \in DOMAIN Calls \ {"initialize"}
    BY <1>5, CallNames DEF Call, Then
  <2> QED
    BY <1>5, <2>1, <2>2, <2>3, CallKeepsType DEF Call, TypeOK
<1>6. ASSUME NEW c \in {"buildPDG", "loopSplit", "insertSynchronization"}, Error(c)
      PROVE  TypeOK'
  <2>1. pc' \in Fatal /\ pc' \notin DOMAIN Calls \cup {"clear"} /\ fn > 0
    <3>1. pc \in DOMAIN Calls
      BY <1>6, CallNames DEF Error
    <3> QED
      BY <1>6, <3>1, CallNames, InCallPlace DEF Error, Fatal
  <2> QED
    BY <1>6, <2>1 DEF Error, TypeOK, place
<1>7. CASE FindSCC
  <2>1. pc \in DOMAIN Calls /\ "findSCC" \in DOMAIN Calls
    BY <1>7, CallNames DEF FindSCC
  <2>2. fn > 0 /\ nth \in DOMAIN functions[fn].loops /\ declared
    BY <2>1, InCallPlace
  <2>3. pc' \in {"clear", "threadPartition"}
    BY <1>7 DEF FindSCC
  <2> QED
    BY <1>7, <2>1, <2>2, <2>3, CallKeepsType, CallNames DEF FindSCC, TypeOK
<1>8. CASE GetDominators
  <2>1. pc \in DOMAIN Calls /\ "getDominators" \in DOMAIN Calls
    BY <1>8, CallNames DEF GetDominators
  <2>2. fn > 0 /\ nth \in DOMAIN functions[fn].loops /\ declared
    BY <2>1, InCallPlace
  <2>3. CASE Known
    BY <1>8, <2>1, <2>2, <2>3, CallKeepsType, CallNames DEF GetDominators, TypeOK
  <2>4. CASE ~Known
    <3>1. pc' \in Fatal /\ pc' \notin DOMAIN Calls \cup {"clear"} /\ tables' = tables
      BY <1>8, <2>4, CallNames DEF GetDominators, Fatal
    <3> QED
      BY <1>8, <2>2, <3>1 DEF GetDominators, TypeOK, place
  <2> QED
    BY <2>3, <2>4
<1>9. CASE PreLoopSplit
  <2>1. pc \in DOMAIN Calls /\ "preLoopSplit" \in DOMAIN Calls
    BY <1>9, CallNames DEF PreLoopSplit
  <2>2. fn \in DOMAIN functions /\ fn > 0 /\ nth \in DOMAIN functions[fn].loops /\ declared
    BY <2>1, InCallPlace
  <2>3. functions' \in Seq(Function) /\ functions'[fn] = functions[fn] /\ fn \in DOMAIN functions'
    BY <1>9, <2>2, AppendWorkers DEF TypeOK
  <2>4. tables' \in [Table -> SUBSET ((1..fn) \X (Nat \ {0}))]
    BY <1>9, <2>1, <2>2, FilledType DEF PreLoopSplit
  <2>5. Workers \subseteq Nat \X Nat
    <3>1. MAX_THREAD \in Nat /\ loopCounter \in Nat
      BY DriverAssumption DEF TypeOK
    <3> QED
      BY <3>1 DEF Workers, Worker
  <2>6. generated' = generated \cup Workers /\ madeFor' = madeFor \cup (Workers \X {L})
    BY <1>9 DEF PreLoopSplit, Remembered
  <2>7. L \in (1..fn) \X (Nat \ {0})
    BY <2>2 DEF L, TypeOK
  <2>8. generated' \subseteq Nat \X Nat /\ madeFor' \subseteq generated' \X ((1..fn) \X (Nat \ {0}))
    <3> HIDE DEF L
    <3> QED
      BY <2>5, <2>6, <2>7 DEF TypeOK
  <2>9. pc' = "loopSplit" /\ declared' = declared /\ fn' = fn /\ nth' = nth
        /\ loopCounter' = loopCounter /\ replaced' = replaced
    BY <1>9 DEF PreLoopSplit
  <2> QED
    BY <2>2, <2>3, <2>4, <2>8, <2>9, CallNames DEF TypeOK
<1>10. CASE Cleanup
  <2>1. pc \in DOMAIN Calls /\ "cleanup" \in DOMAIN Calls
    BY <1>10, CallNames DEF Cleanup
  <2>2. fn > 0 /\ nth \in DOMAIN functions[fn].loops /\ declared
    BY <2>1, InCallPlace
  <2>3. tables' \in [Table -> SUBSET ((1..fn) \X (Nat \ {0}))]
    BY <1>10, <2>1, <2>2, FilledType DEF Cleanup
  <2>4. replaced' \subseteq (1..fn) \X (Nat \ {0})
    BY <1>10, <2>2 DEF Cleanup, L, TypeOK
  <2> QED
    BY <1>10, <2>2, <2>3, <2>4 DEF Cleanup, TypeOK, place
<1>11. CASE Clear
  <2>1. tables' = [t \in Table |-> {}] /\ pc' = "run" /\ fn > 0
    BY <1>11, InCallPlace DEF Clear, Cleared
  <2>2. tables' \in [Table -> SUBSET ((1..fn) \X (Nat \ {0}))]
    BY <2>1
  <2>3. pc' \notin DOMAIN Calls \cup {"clear"}
    BY <2>1, CallNames
  <2> QED
    BY <1>11, <2>1, <2>2, <2>3 DEF Clear, TypeOK
<1>12. CASE UNCHANGED vars
  BY <1>12 DEF vars, place, TypeOK
<1> QED
  BY <1>1, <1>2, <1>3, <1>4, <1>5, <1>6, <1>7, <1>8, <1>9, <1>10, <1>11, <1>12 DEF Next
-----------------------------------------------------------------------------
(* Where the pass is, and the tables *)

\* The steps of a run leave the loop they are at.
LEMMA SameLoop ==
  ASSUME TypeOK, PlaceInv,
         \/ Initialize \/ FindSCC \/ GetDominators \/ PreLoopSplit \/ Cleanup \/ UNCHANGED vars
         \/ \E c \in DOMAIN Then : Call(c)
         \/ \E c \in {"buildPDG", "loopSplit", "insertSynchronization"} : Error(c)
  PROVE  /\ fn' = fn /\ nth' = nth /\ L' = L /\ declared' = declared
         /\ \A f \in DOMAIN functions : f \in DOMAIN functions' /\ functions'[f] = functions[f]
         /\ functions' = functions \/ PreLoopSplit
<1>1. fn' = fn /\ nth' = nth /\ declared' = declared /\ (functions' = functions \/ PreLoopSplit)
  BY DEF Initialize, FindSCC, GetDominators, PreLoopSplit, Cleanup, Call, Error, vars, place
<1>2. ASSUME PreLoopSplit
      PROVE  \A f \in DOMAIN functions : f \in DOMAIN functions' /\ functions'[f] = functions[f]
  BY <1>2, AppendWorkers DEF TypeOK
<1> QED
  BY <1>1, <1>2 DEF L

\* The loop a run is begun on.
LEMMA AtLoop ==
  ASSUME TypeOK, PlaceInv, Initialize
  PROVE  /\ fn \in DOMAIN functions /\ fn > 0 /\ functions[fn] \in Function
         /\ nth \in DOMAIN functions[fn].loops /\ this \in Loop /\ declared
<1>1. fn > 0 /\ fn \in DOMAIN functions
  BY DEF Initialize, TypeOK
<1>2. functions[fn] \in Function
  BY <1>1 DEF TypeOK
<1>3. nth \in DOMAIN functions[fn].loops /\ functions[fn].loops \in Seq(Loop)
  BY <1>2 DEF Initialize, TypeOK, Function
<1>4. declared
  BY <1>2, <1>3 DEF Initialize, PlaceInv, Function
<1> QED
  BY <1>1, <1>2, <1>3, <1>4 DEF this

LEMMA NextPlaceInv == TypeOK /\ PlaceInv /\ [Next]_vars => PlaceInv'
<1> SUFFICES ASSUME TypeOK, PlaceInv, [Next]_vars PROVE PlaceInv'
  OBVIOUS
<1>1. CASE NextFunction
  BY <1>1 DEF NextFunction, PlaceInv
<1>2. CASE EndFunction
  BY <1>2 DEF EndFunction, PlaceInv, place, TypeOK
<1>3. CASE Skip
  BY <1>3 DEF Skip, PlaceInv
<1>4. CASE Initialize
  <2>1. pc' \notin {"function", "finished"} /\ declared'
    BY <1>4, AtLoop, SameLoop DEF Initialize
  <2> QED
    BY <2>1 DEF PlaceInv
<1>5. ASSUME \/ FindSCC \/ GetDominators \/ PreLoopSplit \/ Cleanup \/ Clear
             \/ \E c \in DOMAIN Then : Call(c)
             \/ \E c \in {"buildPDG", "loopSplit", "insertSynchronization"} : Error(c)
      PROVE  PlaceInv'
  <2>1. pc \in DOMAIN Calls \cup {"clear"}
    BY <1>5, CallNames DEF FindSCC, GetDominators, PreLoopSplit, Cleanup, Clear, Call, Error
  <2>2. declared'
    BY <1>5, <2>1, InCallPlace, SameLoop DEF Clear
  <2>3. pc' \notin {"function", "finished"}
    BY <1>5, CallNames DEF FindSCC, GetDominators, PreLoopSplit, Cleanup, Clear, Call, Error, Then
  <2> QED
    BY <2>2, <2>3 DEF PlaceInv
<1>6. CASE UNCHANGED vars
  BY <1>6 DEF vars, place, PlaceInv
<1> QED
  BY <1>1, <1>2, <1>3, <1>4, <1>5, <1>6 DEF Next

\* A call fills its tables and keeps those of the calls before.
LEMMA AfterCall ==
  ASSUME TableInv, NEW c \in DOMAIN Calls, Fill(c), L' = L,
         pc = c \/ (c = "initialize" /\ pc = "run"),
         pc' \in DOMAIN Calls \cup {"clear"},
         pc' \in DOMAIN Calls => Earlier[pc'] = Earlier[c] \cup {c}
  PROVE  TableInv'
<1>1. \A t \in Table : tables[t] \subseteq {L}
  BY DEF TableInv, InCall
<1>2. \A d \in Earlier[c] : d \in DOMAIN Calls /\ \A t \in Calls[d].fills : tables[t] = {L}
  BY CallNames DEF TableInv, InCall, Earlier
<1>3. \A t \in Table : tables'[t] \subseteq {L'}
  BY <1>1, Filling
<1>4. ASSUME InCall', NEW d \in Earlier[pc'], NEW t \in Calls[d].fills
      PROVE  tables'[t] = {L'}
  <2>1. d = c \/ d \in Earlier[c]
    BY <1>4 DEF InCall
  <2>2. t \in Table
    BY <1>2, <2>1, FillsTables
  <2> QED
    BY <1>1, <1>2, <2>1, <2>2, Filling
<1>5. pc' \notin {"function", "run", "finished"}
  BY CallNames
<1> QED
  BY <1>3, <1>4, <1>5 DEF TableInv

LEMMA NextTableInv == TypeOK /\ PlaceInv /\ TableInv /\ [Next]_vars => TableInv'
<1> SUFFICES ASSUME TypeOK, PlaceInv, TableInv, [Next]_vars PROVE TableInv'
  OBVIOUS
<1>1. ASSUME NextFunction \/ EndFunction \/ Skip
      PROVE  TableInv'
  <2>1. pc \in {"function", "run"} /\ pc' \in {"function", "run", "finished"} /\ tables' = tables
    BY <1>1 DEF NextFunction, EndFunction, Skip
  <2> QED
    BY <2>1, CallNames DEF TableInv, InCall
<1>2. CASE Initialize
  <2>1. pc' \in {"buildPDG", "clear"} /\ pc = "run" /\ Fill("initialize")
    BY <1>2 DEF Initialize
  <2>2. pc' \in DOMAIN Calls => Earlier[pc'] = Earlier["initialize"] \cup {"initialize"}
    BY <2>1, CallNames DEF Earlier
  <2> QED
    BY <1>2, <2>1, <2>2, SameLoop, AfterCall, CallNames
<1>3. ASSUME NEW c \in DOMAIN Then, Call(c)
      PROVE  TableInv'
  <2>1. pc' \in DOMAIN Calls /\ pc = c /\ Fill(c) /\ c \in DOMAIN Calls
    BY <1>3, CallNames DEF Call, Then
  <2>2. Earlier[pc'] = Earlier[c] \cup {c}
    BY <1>3, CallNames DEF Call, Then, Earlier
  <2> QED
    BY <1>3, <2>1, <2>2, SameLoop, AfterCall
<1>4. ASSUME NEW c \in {"buildPDG", "loopSplit", "insertSynchronization"}, Error(c)
      PROVE  TableInv'
  <2>1. pc' = "error"
    BY <1>4 DEF Error
  <2> QED
    BY <2>1, CallNames DEF TableInv, InCall
<1>5. CASE FindSCC
  <2>1. pc' \in {"clear", "threadPartition"} /\ pc = "findSCC" /\ Fill("findSCC")
    BY <1>5 DEF FindSCC
  <2>2. pc' \in DOMAIN Calls => Earlier[pc'] = Earlier["findSCC"] \cup {"findSCC"}
    BY <2>1, CallNames DEF Earlier
  <2> QED
    BY <1>5, <2>1, <2>2, SameLoop, AfterCall, CallNames
<1>6. CASE GetDominators
  <2>1. CASE Known
    <3>1. pc' = "preLoopSplit" /\ pc = "getDominators" /\ Fill("getDominators")
      BY <1>6, <2>1 DEF GetDominators
    <3>2. Earlier[pc'] = Earlier["getDominators"] \cup {"getDominators"}
      BY <3>1 DEF Earlier
    <3> QED
      BY <1>6, <3>1, <3>2, SameLoop, AfterCall, CallNames
  <2>2. CASE ~Known
    BY <1>6, <2>2, CallNames DEF GetDominators, TableInv, InCall
  <2> QED
    BY <2>1, <2>2
<1>7. CASE PreLoopSplit
  <2>1. pc' = "loopSplit" /\ pc = "preLoopSplit" /\ Fill("preLoopSplit")
    BY <1>7 DEF PreLoopSplit
  <2>2. Earlier[pc'] = Earlier["preLoopSplit"] \cup {"preLoopSplit"}
    BY <2>1 DEF Earlier
  <2> QED
    BY <1>7, <2>1, <2>2, SameLoop, AfterCall, CallNames
<1>8. CASE Cleanup
  <2>1. pc' = "clear" /\ pc = "cleanup" /\ Fill("cleanup")
    BY <1>8 DEF Cleanup
  <2> QED
    BY <1>8, <2>1, SameLoop, AfterCall, CallNames
<1>9. CASE Clear
  <2>1. tables' = [t \in Table |-> {}] /\ pc' = "run"
    BY <1>9 DEF Clear, Cleared
  <2> QED
    BY <2>1, CallNames DEF TableInv, InCall
<1>10. CASE UNCHANGED vars
  <2>1. L' = L /\ pc' = pc /\ tables' = tables
    BY <1>10 DEF vars, place, L
  <2> QED
    BY <2>1 DEF TableInv, InCall
<1> QED
  BY <1>1, <1>2, <1>3, <1>4, <1>5, <1>6, <1>7, <1>8, <1>9, <1>10 DEF Next
-----------------------------------------------------------------------------
(* The names of the workers *)

\* The steps other than Initialize and PreLoopSplit number no loop and make no worker,
\* and those that end in the calls before preLoopSplit begin there, too.
LEMMA NoNewNames ==
  ASSUME TypeOK, PlaceInv, [Next]_vars, ~Initialize, ~PreLoopSplit
  PROVE  /\ loopCounter' = loopCounter /\ madeFor' = madeFor /\ generated' = generated
         /\ functions' = functions
         /\ InCall' => InCall /\ fn' = fn /\ nth' = nth
         /\ pc' \in DOMAIN Calls \ {"loopSplit", "insertSynchronization", "cleanup"} =>
              pc \in DOMAIN Calls \ {"loopSplit", "insertSynchronization", "cleanup"}
<1>1. ASSUME NextFunction \/ EndFunction \/ Skip \/ Clear
      PROVE  /\ loopCounter' = loopCounter /\ madeFor' = madeFor /\ generated' = generated
             /\ functions' = functions /\ pc' \notin DOMAIN Calls
  BY <1>1, CallNames DEF NextFunction, EndFunction, Skip, Clear, place
<1>2. ASSUME NEW c \in DOMAIN Then, Call(c)
      PROVE  /\ loopCounter' = loopCounter /\ madeFor' = madeFor /\ generated' = generated
             /\ UNCHANGED place /\ pc = c /\ pc' = Then[c]
  BY <1>2 DEF Call
<1>3. ASSUME NEW c \in {"buildPDG", "loopSplit", "insertSynchronization"}, Error(c)
      PROVE  /\ loopCounter' = loopCounter /\ madeFor' = madeFor /\ generated' = generated
             /\ UNCHANGED place /\ pc' \notin DOMAIN Calls
  BY <1>3, CallNames DEF Error
<1>4. ASSUME FindSCC \/ GetDominators \/ Cleanup
      PROVE  /\ loopCounter' = loopCounter /\ madeFor' = madeFor /\ generated' = generated
             /\ UNCHANGED place /\ pc \in DOMAIN Calls
             /\ pc' \in DOMAIN Calls => pc \in {"findSCC", "getDominators"}
  BY <1>4, CallNames DEF FindSCC, GetDominators, Cleanup
<1>5. ASSUME UNCHANGED vars
      PROVE  /\ loopCounter' = loopCounter /\ madeFor' = madeFor /\ generated' = generated
             /\ UNCHANGED place /\ pc' = pc
  BY <1>5 DEF vars
<1>6. ASSUME NEW c \in DOMAIN Then
      PROVE  /\ c \in DOMAIN Calls
             /\ Then[c] \notin {"loopSplit", "insertSynchronization", "cleanup"} =>
                  c \notin {"loopSplit", "insertSynchronization", "cleanup"}
  BY CallNames DEF Then
<1> QED
  BY <1>1, <1>2, <1>3, <1>4, <1>5, <1>6 DEF Next, InCall, place

LEMMA NextCounterInv ==
  TypeOK /\ PlaceInv /\ CounterInv /\ OneLoopPerWorker /\ [Next]_vars
    => CounterInv' /\ OneLoopPerWorker'
<1> SUFFICES ASSUME TypeOK, PlaceInv, CounterInv, OneLoopPerWorker, [Next]_vars
             PROVE  CounterInv' /\ OneLoopPerWorker'
  OBVIOUS
<1>1. loopCounter \in Nat /\ \A p \in madeFor : p[1][1] \in Nat
  BY DEF TypeOK
<1>2. CASE Initialize
  <2>1. loopCounter' = loopCounter + 1 /\ madeFor' = madeFor
    BY <1>2 DEF Initialize, NextCounter
  <2> QED
    BY <1>1, <2>1 DEF CounterInv, OneLoopPerWorker
<1>3. CASE PreLoopSplit
  <2>1. /\ loopCounter' = loopCounter /\ madeFor' = madeFor \cup (Workers \X {L})
        /\ pc = "preLoopSplit" /\ pc' = "loopSplit"
    BY <1>3 DEF PreLoopSplit
  <2>2. \A w \in Workers : w[1] = loopCounter
    BY DEF Workers, Worker
  <2>3. \A p \in madeFor : p[1][1] < loopCounter
    BY <2>1, CallNames DEF CounterInv
  <2> HIDE DEF L
  <2>4. \A p \in Workers \X {L} : p[1][1] = loopCounter /\ p[2] = L
    BY <2>2
  <2>5. CounterInv'
    BY <1>1, <2>1, <2>3, <2>4 DEF CounterInv
  <2>6. OneLoopPerWorker'
    <3> SUFFICES ASSUME NEW p \in madeFor', NEW q \in madeFor', p[1] = q[1]
                 PROVE  p[2] = q[2]
      BY DEF OneLoopPerWorker
    <3>1. CASE p \in madeFor /\ q \in madeFor
      BY <3>1 DEF OneLoopPerWorker
    <3>2. CASE p \in Workers \X {L} /\ q \in Workers \X {L}
      BY <2>4, <3>2
    <3>3. p[1][1] = q[1][1]
      OBVIOUS
    <3>4. p \in madeFor <=> q \in madeFor
      BY <1>1, <2>1, <2>3, <2>4, <3>3
    <3> QED
      BY <2>1, <3>1, <3>2, <3>4
  <2> QED
    BY <2>5, <2>6
<1>4. CASE ~Initialize /\ ~PreLoopSplit
  BY <1>4, NoNewNames DEF CounterInv, OneLoopPerWorker
<1> QED
  BY <1>2, <1>3, <1>4

LEMMA NextNameInv == TypeOK /\ PlaceInv /\ NameInv /\ [Next]_vars => NameInv'
<1> SUFFICES ASSUME TypeOK, PlaceInv, NameInv, [Next]_vars PROVE NameInv'
  OBVIOUS
<1>1. CASE Initialize
  <2>1. loopCounter' = loopCounter + 1 /\ generated' = generated /\ functions' = functions /\ fn' = fn
        /\ functions[fn].name \notin generated
    BY <1>1 DEF Initialize, NextCounter, isGenerated, place
  <2>2. fn \in DOMAIN functions /\ loopCounter' > 0
    BY <1>1, <2>1, AtLoop DEF TypeOK
  <2>3. functions[fn].name[1] = 0
    BY <2>1, <2>2 DEF NameInv
  <2> QED
    BY <2>1, <2>2, <2>3 DEF NameInv
<1>2. CASE PreLoopSplit
  <2>1. loopCounter' = loopCounter /\ generated' = generated \cup Workers /\ pc = "preLoopSplit" /\ fn' = fn
    BY <1>2 DEF PreLoopSplit, Remembered
  <2>2. InCall /\ pc \in DOMAIN Calls
    BY <2>1, CallNames DEF InCall
  <2>3. fn \in DOMAIN functions
    BY <2>2, InCallPlace
  <2>4. functions'[fn].name[1] = 0 /\ loopCounter' > 0
    BY <1>2, <2>1, <2>2, <2>3, SameLoop DEF NameInv
  <2>5. \A g \in generated' : g[1] > 0
    <3>1. \A w \in Workers : w[1] = loopCounter
      BY DEF Workers, Worker
    <3> QED
      BY <2>1, <2>4, <3>1 DEF NameInv
  <2>6. ASSUME NEW f \in DOMAIN functions'
        PROVE  functions'[f].name[1] = 0 \/ functions'[f].name \in generated'
    <3>1. CASE f \in DOMAIN functions
      BY <1>2, <2>1, <3>1, SameLoop DEF NameInv
    <3>2. CASE f \notin DOMAIN functions
      BY <1>2, <2>1, <3>2, AppendWorkers DEF TypeOK
    <3> QED
      BY <3>1, <3>2
  <2> QED
    BY <2>1, <2>4, <2>5, <2>6 DEF NameInv
<1>3. CASE ~Initialize /\ ~PreLoopSplit
  BY <1>3, NoNewNames DEF NameInv
<1> QED
  BY <1>1, <1>2, <1>3

LEMMA NextLoopInv == TypeOK /\ PlaceInv /\ LoopInv /\ [Next]_vars => LoopInv'
<1> SUFFICES ASSUME TypeOK, PlaceInv, LoopInv, [Next]_vars PROVE LoopInv'
  OBVIOUS
<1>1. CASE Initialize
  <2>1. this.depth = 1 /\ UNCHANGED place /\ pc' = IF this.unique THEN "buildPDG" ELSE "clear"
    BY <1>1 DEF Initialize, TopLevel
  <2>2. this' = this
    BY <2>1 DEF place, this
  <2>3. InCall' => this.unique
    BY <2>1, CallNames DEF InCall
  <2>4. pc' \notin DOMAIN Calls \ {"initialize", "buildPDG", "findSCC"}
    BY <2>1, CallNames
  <2> QED
    BY <2>1, <2>2, <2>3, <2>4 DEF LoopInv
<1>2. CASE PreLoopSplit
  <2>1. pc = "preLoopSplit" /\ pc \in DOMAIN Calls /\ InCall
    BY <1>2, CallNames DEF PreLoopSplit, InCall
  <2>2. this' = this
    BY <1>2, <2>1, InCallPlace, SameLoop DEF this
  <2> QED
    BY <2>1, <2>2 DEF LoopInv
<1>3. CASE ~Initialize /\ ~PreLoopSplit
  <2>1. InCall' => InCall /\ this' = this
    BY <1>3, NoNewNames DEF this
  <2>2. ASSUME pc' \in DOMAIN Calls \ {"initialize", "buildPDG", "findSCC"}
        PROVE  this.sccs > 1
    <3>1. InCall /\ pc \in DOMAIN Calls
      BY <2>1, <2>2 DEF InCall
    <3>2. CASE pc \notin {"initialize", "buildPDG", "findSCC"}
      BY <3>1, <3>2 DEF LoopInv
    <3>3. CASE FindSCC
      <4>1. this.sccs # 1 /\ this \in Loop
        BY <2>2, <3>1, <3>3, InCallPlace, CallNames DEF FindSCC
      <4> QED
        BY <4>1 DEF Loop
    <3>4. CASE pc \in {"initialize", "buildPDG", "findSCC"} /\ ~FindSCC
      <4>1. pc' \in {"findSCC", "error"} \/ pc' = pc
        BY <1>3, <3>4, CallNames DEF Next, NextFunction, EndFunction, Skip, Call, Then, Error,
           GetDominators, Cleanup, Clear, vars
      <4> QED
        BY <2>2, <3>4, <4>1, CallNames
    <3> QED
      BY <3>2, <3>3, <3>4
  <2> QED
    BY <2>1, <2>2 DEF LoopInv, InCall
<1> QED
  BY <1>1, <1>2, <1>3
-----------------------------------------------------------------------------
(* The loops replaced *)

\* ReplacedInv is kept by a step that leaves replaced alone, and by which no loop that
\* should be replaced becomes past.
LEMMA NoneReplaced ==
  ASSUME TypeOK, ReplacedInv, replaced' = replaced, functions' = functions,
         \A f \in DOMAIN functions : \A m \in DOMAIN functions[f].loops :
           functions[f].name[1] = 0 /\ Splittable(functions[f].loops[m])
             => (Past(f, m)' <=> Past(f, m))
  PROVE  ReplacedInv'
BY DEF ReplacedInv, Splittable

\* The place of a loop.
LEMMA LoopPlace ==
  ASSUME TypeOK, NEW f \in DOMAIN functions, NEW m \in DOMAIN functions[f].loops
  PROVE  /\ f \in Nat /\ m \in 1..Len(functions[f].loops) /\ Len(functions[f].loops) \in Nat
         /\ fn \in Nat /\ nth \in Nat \ {0} /\ f <= Len(functions) /\ fn <= Len(functions)
         /\ functions[f].loops[m] \in Loop
<1>1. functions[f] \in Function /\ f \in 1..Len(functions) /\ Len(functions) \in Nat
  BY DEF TypeOK
<1>2. functions[f].loops \in Seq(Loop)
  BY <1>1 DEF Function
<1> QED
  BY <1>1, <1>2 DEF TypeOK

LEMMA NextReplacedInv ==
  TypeOK /\ PlaceInv /\ NameInv /\ LoopInv /\ ReplacedInv /\ [Next]_vars => ReplacedInv'
<1> SUFFICES ASSUME TypeOK, PlaceInv, NameInv, LoopInv, ReplacedInv, [Next]_vars PROVE ReplacedInv'
  OBVIOUS
<1>1. CASE NextFunction
  <2>1. /\ replaced' = replaced /\ functions' = functions /\ fn' = fn + 1 /\ nth' = 1 /\ pc' = "run"
        /\ pc = "function"
    BY <1>1 DEF NextFunction
  <2>2. ASSUME NEW f \in DOMAIN functions, NEW m \in DOMAIN functions[f].loops
        PROVE  Past(f, m)' <=> Past(f, m)
    <3>1. /\ f \in Nat /\ m \in 1..Len(functions[f].loops) /\ Len(functions[f].loops) \in Nat
          /\ fn \in Nat /\ nth \in Nat
      BY LoopPlace
    <3>2. fn = 0 \/ nth > Len(functions[fn].loops)
      BY <2>1 DEF PlaceInv
    <3>3. Past(f, m)' <=> f <= fn
      BY <2>1, <3>1 DEF Past
    <3>4. f = fn => m < nth
      BY <3>1, <3>2, <2>2, LoopPlace DEF TypeOK
    <3>5. Past(f, m) <=> f <= fn
      BY <3>1, <3>4, <2>1 DEF Past
    <3> QED
      BY <3>3, <3>5
  <2> QED
    BY <2>1, <2>2, NoneReplaced
<1>2. CASE EndFunction
  <2>1. /\ replaced' = replaced /\ functions' = functions /\ fn' = fn /\ nth' = nth
        /\ pc' # "clear" /\ pc # "clear"
    BY <1>2 DEF EndFunction, place
  <2> QED
    BY <2>1, NoneReplaced DEF Past
<1>3. CASE Skip
  <2>1. /\ replaced' = replaced /\ functions' = functions /\ fn' = fn /\ nth' = nth + 1
        /\ pc' = "run" /\ pc = "run" /\ (~TopLevel \/ isGenerated)
    BY <1>3 DEF Skip
  <2>2. ASSUME NEW f \in DOMAIN functions, NEW m \in DOMAIN functions[f].loops,
               functions[f].name[1] = 0, Splittable(functions[f].loops[m])
        PROVE  Past(f, m)' <=> Past(f, m)
    <3>1. f \in Nat /\ m \in Nat /\ fn \in Nat /\ nth \in Nat
      BY LoopPlace
    <3>2. ~(f = fn /\ m = nth)
      BY <2>1, <2>2 DEF TopLevel, isGenerated, this, Splittable, NameInv
    <3> QED
      BY <2>1, <3>1, <3>2 DEF Past
  <2> QED
    BY <2>1, <2>2, NoneReplaced
<1>4. CASE Initialize
  <2>1. /\ replaced' = replaced /\ functions' = functions /\ fn' = fn /\ nth' = nth
        /\ pc = "run" /\ pc' = IF this.unique THEN "buildPDG" ELSE "clear"
    BY <1>4 DEF Initialize, place
  <2>2. ASSUME NEW f \in DOMAIN functions, NEW m \in DOMAIN functions[f].loops,
               Splittable(functions[f].loops[m])
        PROVE  Past(f, m)' <=> Past(f, m)
    BY <2>1, <2>2 DEF Past, this, Splittable
  <2> QED
    BY <2>1, <2>2, NoneReplaced
<1>5. ASSUME NEW c \in DOMAIN Then, Call(c)
      PROVE  ReplacedInv'
  <2>1. /\ replaced' = replaced /\ functions' = functions /\ fn' = fn /\ nth' = nth
        /\ pc' # "clear" /\ pc # "clear"
    BY <1>5, CallNames DEF Call, place, Then
  <2> QED
    BY <2>1, NoneReplaced DEF Past
<1>6. ASSUME NEW c \in {"buildPDG", "loopSplit", "insertSynchronization"}, Error(c)
      PROVE  ReplacedInv'
  <2>1. /\ replaced' = replaced /\ functions' = functions /\ fn' = fn /\ nth' = nth
        /\ pc' # "clear" /\ pc # "clear"
    BY <1>6 DEF Error, place
  <2> QED
    BY <2>1, NoneReplaced DEF Past
<1>7. CASE FindSCC
  <2>1. /\ replaced' = replaced /\ functions' = functions /\ fn' = fn /\ nth' = nth
        /\ pc = "findSCC" /\ pc' = IF this.sccs = 1 THEN "clear" ELSE "threadPartition"
    BY <1>7 DEF FindSCC, place
  <2>2. ASSUME NEW f \in DOMAIN functions, NEW m \in DOMAIN functions[f].loops,
               Splittable(functions[f].loops[m])
        PROVE  Past(f, m)' <=> Past(f, m)
    BY <2>1, <2>2 DEF Past, this, Splittable
  <2> QED
    BY <2>1, <2>2, NoneReplaced
<1>8. CASE GetDominators
  <2>1. /\ replaced' = replaced /\ functions' = functions /\ fn' = fn /\ nth' = nth
        /\ pc' # "clear" /\ pc # "clear"
    BY <1>8 DEF GetDominators, place
  <2> QED
    BY <2>1, NoneReplaced DEF Past
<1>9. CASE PreLoopSplit
  <2>1. /\ replaced' = replaced /\ fn' = fn /\ nth' = nth /\ pc' # "clear" /\ pc # "clear"
    BY <1>9 DEF PreLoopSplit
  <2>2. \A f \in DOMAIN functions : f \in DOMAIN functions' /\ functions'[f] = functions[f]
    BY <1>9, SameLoop
  <2>3. \A f, m : Past(f, m)' <=> Past(f, m)
    BY <2>1 DEF Past
  <2>4. \A r \in replaced' : r[1] \in DOMAIN functions' /\ r[2] \in DOMAIN functions'[r[1]].loops
    BY <2>1, <2>2 DEF ReplacedInv
  <2>5. ASSUME NEW f \in DOMAIN functions', NEW m \in DOMAIN functions'[f].loops
        PROVE  <<f, m>> \in replaced' <=>
                 Past(f, m)' /\ functions'[f].name[1] = 0 /\ Splittable(functions'[f].loops[m])
    <3>1. CASE f \in DOMAIN functions
      BY <2>1, <2>2, <2>3, <3>1 DEF ReplacedInv
    <3>2. CASE f \notin DOMAIN functions
      <4>1. <<f, m>> \notin replaced
        BY <3>2 DEF ReplacedInv
      <4>2. f > Len(functions) /\ f \in Nat /\ fn \in 0..Len(functions) /\ Len(functions) \in Nat
        BY <1>9, <3>2, AppendWorkers DEF TypeOK
      <4>3. ~Past(f, m)
        BY <4>2 DEF Past
      <4> QED
        BY <2>1, <2>3, <4>1, <4>3
    <3> QED
      BY <3>1, <3>2
  <2> HIDE DEF Past
  <2> QED
    BY <2>4, <2>5 DEF ReplacedInv, Splittable
<1>10. CASE Cleanup
  <2>1. /\ replaced' = replaced \cup {L} /\ functions' = functions /\ fn' = fn /\ nth' = nth
        /\ pc' = "clear" /\ pc = "cleanup"
    BY <1>10 DEF Cleanup, place
  <2>2. pc \in DOMAIN Calls /\ pc \notin {"initialize", "buildPDG", "findSCC"} /\ InCall
    BY <2>1, CallNames DEF InCall
  <2>3. fn \in DOMAIN functions /\ nth \in DOMAIN functions[fn].loops
    BY <2>2, InCallPlace
  <2>4. functions[fn].name[1] = 0 /\ Splittable(functions[fn].loops[nth])
    BY <2>2 DEF NameInv, LoopInv, this, Splittable
  <2>5. \A r \in replaced' : r[1] \in DOMAIN functions' /\ r[2] \in DOMAIN functions'[r[1]].loops
    BY <2>1, <2>3 DEF ReplacedInv, L
  <2>6. ASSUME NEW f \in DOMAIN functions, NEW m \in DOMAIN functions[f].loops
        PROVE  <<f, m>> \in replaced' <=>
                 Past(f, m)' /\ functions[f].name[1] = 0 /\ Splittable(functions[f].loops[m])
    <3>1. <<f, m>> \in replaced' <=> <<f, m>> \in replaced \/ (f = fn /\ m = nth)
      BY <2>1 DEF L
    <3>2. Past(f, m)' <=> Past(f, m) \/ (f = fn /\ m = nth)
      BY <2>1 DEF Past
    <3> QED
      BY <2>4, <3>1, <3>2 DEF ReplacedInv
  <2> QED
    BY <2>1, <2>5, <2>6 DEF ReplacedInv, Splittable
<1>11. CASE Clear
  <2>1. /\ replaced' = replaced /\ functions' = functions /\ fn' = fn /\ nth' = nth + 1
        /\ pc' = "run" /\ pc = "clear"
    BY <1>11 DEF Clear
  <2>2. ASSUME NEW f \in DOMAIN functions, NEW m \in DOMAIN functions[f].loops
        PROVE  Past(f, m)' <=> Past(f, m)
    <3>1. f \in Nat /\ m \in Nat /\ fn \in Nat /\ nth \in Nat
      BY LoopPlace
    <3> QED
      BY <2>1, <3>1 DEF Past
  <2> QED
    BY <2>1, <2>2, NoneReplaced
<1>12. CASE UNCHANGED vars
  BY <1>12, NoneReplaced DEF vars, place, Past
<1> QED
  BY <1>1, <1>2, <1>3, <1>4, <1>5, <1>6, <1>7, <1>8, <1>9, <1>10, <1>11, <1>12 DEF Next

LEMMA NextDeathInv == DeathInv /\ [Next]_vars => DeathInv'
<1> SUFFICES ASSUME DeathInv, [Next]_vars, pc' = "segfault" PROVE ~Known'
  BY DEF DeathInv
<1>1. GetDominators \/ UNCHANGED vars
  BY CallNames DEF Next, NextFunction, EndFunction, Skip, Initialize, Call, Then, Error, FindSCC,
     PreLoopSplit, Cleanup, Clear
<1>2. CASE GetDominators
  BY <1>2 DEF GetDominators, Known, place
<1>3. CASE UNCHANGED vars
  BY <1>3 DEF vars, place, Known, DeathInv
<1> QED
  BY <1>1, <1>2, <1>3
-----------------------------------------------------------------------------
(* The theorems *)

LEMMA InitIInv == Init => IInv
<1> SUFFICES ASSUME Init PROVE IInv
  OBVIOUS
<1>1. /\ pc = "function" /\ fn = 0 /\ nth = 1 /\ madeFor = {} /\ replaced = {} /\ generated = {}
      /\ pc \notin DOMAIN Calls /\ \A t \in Table : tables[t] = {}
  BY CallNames DEF Init
<1>2. \A mod \in Modules : mod \in Seq(Function) \ {<<>>} /\ \A f \in DOMAIN mod : mod[f].name[1] = 0
  BY DriverAssumption
<1>3. functions \in Modules /\ functions \in Seq(Function) /\ \A f \in DOMAIN functions : functions[f].name[1] = 0
  BY <1>2 DEF Init
<1>4. TypeOK
  BY InitTypeOK
<1>5. TableInv /\ CounterInv /\ OneLoopPerWorker /\ PlaceInv /\ LoopInv /\ DeathInv
  BY <1>1 DEF TableInv, InCall, CounterInv, OneLoopPerWorker, PlaceInv, LoopInv, DeathInv
<1>6. NameInv
  BY <1>1, <1>3 DEF NameInv, InCall
<1>7. ReplacedInv
  <2>1. \A f \in DOMAIN functions : \A m : ~Past(f, m)
    BY <1>1, <1>3 DEF Past
  <2> QED
    BY <1>1, <2>1 DEF ReplacedInv
<1> QED
  BY <1>4, <1>5, <1>6, <1>7 DEF IInv

LEMMA Inductive == Spec => []IInv
<1>1. IInv /\ [Next]_vars => IInv'
  BY NextTypeOK, NextPlaceInv, NextTableInv, NextCounterInv, NextNameInv, NextLoopInv,
     NextReplacedInv, NextDeathInv DEF IInv
<1> QED
  BY InitIInv, <1>1, PTL DEF Spec

\* Every loop the pass is at, has tables of or has replaced is a loop of the module, and
\* the runtime is declared whenever a loop is worked on (DSWP_0.cpp:29-94, 133-177).
THEOREM TypeCorrect == Spec => []TypeOK
<1>1. IInv => TypeOK
  BY DEF IInv
<1> QED
  BY Inductive, <1>1, PTL

\* No part of the pass reads a table of another loop, or one that was not filled.
THEOREM NoStaleTables == Spec => []TablesOfThisLoop
<1>1. IInv => TablesOfThisLoop
  <2> SUFFICES ASSUME IInv, pc \in DOMAIN Calls
               PROVE  /\ \A t \in Calls[pc].reads : tables[t] = {L}
                      /\ \A t \in Calls[pc].fills \ Calls[pc].resets : tables[t] \subseteq {L}
    BY DEF TablesOfThisLoop
  <2>1. pc # "initialize"
    BY CallNames DEF IInv, TypeOK, Fatal
  <2>2. TableInv /\ InCall
    BY DEF IInv, InCall
  <2> HIDE DEF L
  <2>3. \A t \in Calls[pc].reads : tables[t] = {L}
    BY <2>1, <2>2, ReadsFilled DEF TableInv
  <2>4. \A t \in Calls[pc].fills : tables[t] \subseteq {L}
    BY <2>2, FillsTables DEF TableInv
  <2> QED
    BY <2>3, <2>4
<1> QED
  BY Inductive, <1>1, PTL

\* No worker function is made for two loops.
THEOREM WorkersAreNew == Spec => []OneLoopPerWorker
<1>1. IInv => OneLoopPerWorker
  BY DEF IInv
<1> QED
  BY Inductive, <1>1, PTL

\* When the pass ends, it has replaced the loops it can split, and when it dies on the
\* dominator trees, the function had a block that does not end or a loop replaced.
THEOREM ReplacedRight == Spec => []ReplacedOrDead
<1>1. IInv => ReplacedOrDead
  <2> SUFFICES ASSUME IInv PROVE ReplacedOrDead
    OBVIOUS
  <2>1. TypeOK /\ PlaceInv /\ ReplacedInv /\ DeathInv
    BY DEF IInv
  <2> DEFINE Right == UNION {{f} \X {m \in DOMAIN functions[f].loops : Splittable(functions[f].loops[m])}
                              : f \in {g \in DOMAIN functions : functions[g].name[1] = 0}}
  <2>2. replaced \subseteq (1..fn) \X (Nat \ {0})
    BY <2>1 DEF TypeOK
  <2>3. ASSUME NEW r \in replaced
        PROVE  /\ r = <<r[1], r[2]>> /\ r[1] \in DOMAIN functions /\ r[2] \in DOMAIN functions[r[1]].loops
               /\ Past(r[1], r[2]) /\ functions[r[1]].name[1] = 0
               /\ Splittable(functions[r[1]].loops[r[2]])
    <3>1. r = <<r[1], r[2]>>
      BY <2>2
    <3>2. r[1] \in DOMAIN functions /\ r[2] \in DOMAIN functions[r[1]].loops
      BY <2>1 DEF ReplacedInv
    <3> QED
      BY <2>1, <3>1, <3>2 DEF ReplacedInv
  <2>4. ASSUME pc = "finished"
        PROVE  replaced = Right
    <3>1. fn = Len(functions) /\ nth > Len(functions[fn].loops)
      BY <2>1, <2>4 DEF PlaceInv
    <3>2. \A f \in DOMAIN functions : \A m \in DOMAIN functions[f].loops : Past(f, m)
      BY <2>1, <3>1, LoopPlace DEF Past
    <3>3. replaced \subseteq Right
      BY <2>3
    <3>4. Right \subseteq replaced
      BY <2>1, <3>2 DEF ReplacedInv
    <3> QED
      BY <3>3, <3>4
  <2>5. ASSUME pc = "segfault", functions[fn].returns
        PROVE  \E m \in 1..nth - 1 : Splittable(functions[fn].loops[m])
    <3>1. PICK r \in replaced : r[1] = fn
      BY <2>1, <2>5 DEF DeathInv, Known
    <3>2. Past(fn, r[2]) /\ r[2] \in DOMAIN functions[fn].loops /\ fn \in DOMAIN functions
          /\ Splittable(functions[fn].loops[r[2]])
      BY <2>3, <3>1
    <3>3. r[2] \in Nat /\ r[2] >= 1 /\ nth \in Nat /\ fn \in Nat
      BY <2>1, <3>2, LoopPlace
    <3>4. r[2] \in 1..nth - 1
      BY <2>5, <3>2, <3>3 DEF Past
    <3> QED
      BY <3>2, <3>4
  <2> QED
    BY <2>4, <2>5 DEF ReplacedOrDead
<1> QED
  BY Inductive, <1>1, PTL
=============================================================================
