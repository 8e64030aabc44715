------------------------------- MODULE Driver -------------------------------
(***************************************************************************)
(* The pass on a whole module: DSWP::runOnLoop, initialize and             *)
(* doInitialization (DSWP_0.cpp), the tables of class DSWP (DSWP.h) as its *)
(* parts fill and read them, and DSWP::clear (DSWP_5.cpp:295-334).         *)
(*                                                                         *)
(* LLVM is external: its pass managers take the functions of the module in *)
(* order, also those the pass appends on the way, and the loops of each    *)
(* with the inner ones first.  The other modules say what the parts do to  *)
(* a loop; here a table is the set of loops it has entries of.             *)
(***************************************************************************)
EXTENDS Integers, Sequences, FiniteSets

CONSTANTS
  MAX_THREAD,    \* number of worker functions of a loop
  Modules,       \* the modules to run on: sequences of functions
  WorkerLoops,   \* the loops a worker function may have
  MaxFunction    \* the pass is followed up to so many functions

Loop == [depth : Nat \ {0}, unique : BOOLEAN, sccs : Nat \ {0}]

\* A function: its name, its loops in the order they are run on, and whether each of
\* its blocks can be reached and can reach a return.
Function == [name : Nat \X Nat, loops : Seq(Loop), returns : BOOLEAN]

ASSUME DriverAssumption ==
  /\ MAX_THREAD \in Nat \ {0}
  /\ WorkerLoops \subseteq Seq(Loop)
  /\ \A mod \in Modules :
       mod \in Seq(Function) \ {<<>>} /\ \A f \in DOMAIN mod : mod[f].name[1] = 0

VARIABLES
  functions,     \* the functions of the module
  declared,      \* sync_produce and the other runtime functions are declared
  fn, nth,       \* the loop the pass is at: the nth of function fn
  pc,            \* the next call of runOnLoop; "run" is its entry
  generated, loopCounter,
  tables,        \* table -> the loops it has entries of
  madeFor,       \* pairs of a worker function and a loop it is the worker of
  replaced       \* the loops replaced by workers

place == <<functions, declared, fn, nth>>
vars == <<place, pc, generated, loopCounter, tables, madeFor, replaced>>

L == <<fn, nth>>
this == functions[fn].loops[nth]

\* The tables each part reads, fills, and empties before it does; "loop" stands for
\* header, predecessor, exit, func, module, context and eleType.
Calls == [
  initialize |-> [reads |-> {}, resets |-> {"loop"}, fills |-> {"loop"}],
  buildPDG |-> [reads |-> {}, resets |-> {}, fills |-> {"pdg", "rev", "allEdges", "dname"}],
  findSCC |-> [reads |-> {"pdg", "rev"}, resets |-> {"used", "dag_added", "sccNum", "InstInSCC"},
    fills |-> {"used", "list", "sccId", "sccNum", "InstInSCC", "dag_added", "scc_parents", "scc_dependents"}],
  threadPartition |-> [reads |-> {"sccNum", "sccId", "scc_parents", "scc_dependents"},
    resets |-> {"sccLatency", "assigned", "part"}, fills |-> {"sccLatency", "assigned", "part"}],
  getLiveinfo |-> [reads |-> {}, resets |-> {"defin", "livein", "liveout"},
    fills |-> {"defin", "livein", "liveout"}],
  getDominators |-> [reads |-> {"loop"}, resets |-> {}, fills |-> {"idom", "postidom"}],
  preLoopSplit |-> [reads |-> {"loop", "livein", "liveout"}, resets |-> {"allFunc"},
    fills |-> {"allFunc", "replaceBlock", "argStructTy"}],
  loopSplit |-> [reads |-> {"loop", "allFunc", "part", "InstInSCC", "rev", "sccId", "assigned", "idom",
                            "postidom", "livein", "liveout", "argStructTy"},
    resets |-> {}, fills |-> {"instMap", "placeEquivalents", "newToOld", "newInstAssigned"}],
  insertSynchronization |-> [reads |-> {"loop", "allEdges", "sccId", "assigned", "instMap",
                                        "placeEquivalents", "newToOld"},
    resets |-> {}, fills |-> {}],
  cleanup |-> [reads |-> {"allFunc"}, resets |-> {}, fills |-> {}]]

Table == UNION {Calls[c].fills : c \in DOMAIN Calls}
Fatal == {"segfault", "error"}

Init ==
  /\ functions \in Modules /\ declared = FALSE
  /\ fn = 0 /\ nth = 1 /\ pc = "function"
  /\ generated = {} /\ loopCounter = 0
  /\ tables = [t \in Table |-> {}]
  /\ madeFor = {} /\ replaced = {}
-----------------------------------------------------------------------------
(* The pass managers *)

\* The next function: its loops are queued and doInitialization is called for each;
\* the first call of all declares the functions of the runtime.
NextFunction ==
  /\ pc = "function" /\ fn < Len(functions)
  /\ fn' = fn + 1 /\ nth' = 1
  /\ declared' = (declared \/ functions[fn + 1].loops # <<>>)
  /\ pc' = "run"
  /\ UNCHANGED <<functions, generated, loopCounter, tables, madeFor, replaced>>

EndFunction ==
  /\ pc = "run" /\ nth > Len(functions[fn].loops)
  /\ pc' = IF fn < Len(functions) THEN "function" ELSE "finished"
  /\ UNCHANGED <<place, generated, loopCounter, tables, madeFor, replaced>>
-----------------------------------------------------------------------------
(* runOnLoop *)

\* Mutant: a loop in another loop is taken, too.
TopLevel_Any == TRUE

TopLevel == this.depth = 1   \* "ONLY care about top level loops"

\* Mutant: workers are taken for functions like any other.
isGenerated_Never == FALSE

isGenerated == functions[fn].name \in generated   \* "this is the generated code"

Skip ==
  /\ pc = "run" /\ nth <= Len(functions[fn].loops)
  /\ ~TopLevel \/ isGenerated
  /\ nth' = nth + 1
  /\ UNCHANGED <<functions, declared, fn, pc, generated, loopCounter, tables, madeFor, replaced>>

Fill(c) ==
  tables' = [t \in Table |-> (IF t \in Calls[c].resets THEN {} ELSE tables[t])
                                \cup (IF t \in Calls[c].fills THEN {L} ELSE {})]

\* Mutant: every loop has the same number.
NextCounter_Same == loopCounter

NextCounter == loopCounter + 1

\* "loop exit not unique" or "loop predecessor not unique": the loop is left alone.
Initialize ==
  /\ pc = "run" /\ nth <= Len(functions[fn].loops)
  /\ TopLevel /\ ~isGenerated
  /\ Fill("initialize")
  /\ loopCounter' = NextCounter
  /\ pc' = IF this.unique THEN "buildPDG" ELSE "clear"
  /\ UNCHANGED <<place, generated, madeFor, replaced>>

\* The calls that change nothing but tables, and what comes after.
Then == [buildPDG |-> "findSCC", threadPartition |-> "getLiveinfo", getLiveinfo |-> "getDominators",
         loopSplit |-> "insertSynchronization", insertSynchronization |-> "cleanup"]

Call(c) ==
  /\ pc = c /\ Fill(c)
  /\ pc' = Then[c]
  /\ UNCHANGED <<place, generated, loopCounter, madeFor, replaced>>

\* buildPDG (DataDependence), loopSplit and insertSynchronization (LoopSplit) may give up.
Error(c) ==
  /\ pc = c
  /\ pc' = "error"
  /\ UNCHANGED <<place, generated, loopCounter, tables, madeFor, replaced>>

\* "only one SCC, can't do nuttin".
FindSCC ==
  /\ pc = "findSCC" /\ Fill("findSCC")
  /\ pc' = IF this.sccs = 1 THEN "clear" ELSE "threadPartition"
  /\ UNCHANGED <<place, generated, loopCounter, madeFor, replaced>>

\* The trees are those of the function before the pass, and have no node of a block
\* that was made since (loop-replace), is not reached or does not end.
Known == functions[fn].returns /\ \A r \in replaced : r[1] # fn

GetDominators ==
  /\ pc = "getDominators"
  /\ IF Known THEN Fill("getDominators") /\ pc' = "preLoopSplit"
              ELSE UNCHANGED tables /\ pc' = "segfault"
  /\ UNCHANGED <<place, generated, loopCounter, madeFor, replaced>>

\* itoa(loopCounter) + "_subloop_" + itoa(i)
Worker(i) == <<loopCounter, i>>
Names == {functions[f].name : f \in DOMAIN functions}
Workers == {Worker(i) : i \in 0..MAX_THREAD - 1}
Remembered == Workers   \* "all generated function that should not be run in the pass"

\* getOrInsertFunction gives the function of that name, a new one at the end of the
\* module if there is none.
PreLoopSplit ==
  /\ pc = "preLoopSplit" /\ Fill("preLoopSplit")
  /\ Len(functions) + MAX_THREAD <= MaxFunction
  /\ IF Workers \subseteq Names
     THEN UNCHANGED functions
     ELSE \E loops \in [1..MAX_THREAD -> WorkerLoops] :
            functions' = functions \o [i \in 1..MAX_THREAD |->
              [name |-> Worker(i - 1), loops |-> loops[i], returns |-> TRUE]]
  /\ generated' = generated \cup Remembered
  /\ madeFor' = madeFor \cup (Workers \X {L})
  /\ pc' = "loopSplit"
  /\ UNCHANGED <<declared, fn, nth, loopCounter, replaced>>

Cleanup ==
  /\ pc = "cleanup" /\ Fill("cleanup")
  /\ replaced' = replaced \cup {L}
  /\ pc' = "clear"
  /\ UNCHANGED <<place, generated, loopCounter, madeFor>>

\* Mutant: the sequence of the depth-first search is forgotten.
Cleared_ButList == Table \ {"list"}

\* All of them but generated and loopCounter.
Cleared == Table

Clear ==
  /\ pc = "clear"
  /\ tables' = [t \in Table |-> IF t \in Cleared THEN {} ELSE tables[t]]
  /\ nth' = nth + 1 /\ pc' = "run"
  /\ UNCHANGED <<functions, declared, fn, generated, loopCounter, madeFor, replaced>>

Next == \/ NextFunction \/ EndFunction \/ Skip \/ Initialize
        \/ \E c \in DOMAIN Then : Call(c)
        \/ \E c \in {"buildPDG", "loopSplit", "insertSynchronization"} : Error(c)
        \/ FindSCC \/ GetDominators \/ PreLoopSplit \/ Cleanup \/ Clear
        \/ pc \in {"finished"} \cup Fatal /\ UNCHANGED vars

Spec == Init /\ [][Next]_vars
FairSpec == Spec /\ WF_vars(Next)
-----------------------------------------------------------------------------
(* Properties *)

\* Type invariant of the pass: every loop it is at, has tables of or has replaced is
\* one of the module, and calls to the runtime are made only when it is declared.
TypeOK ==
  /\ functions \in Seq(Function) /\ declared \in BOOLEAN
  /\ fn \in 0..Len(functions) /\ nth \in Nat \ {0}
  /\ pc \in {"function", "run", "clear", "finished"} \cup (DOMAIN Calls \ {"initialize"}) \cup Fatal
  /\ pc # "function" => fn > 0
  /\ pc \in DOMAIN Calls \cup {"clear"} => nth \in DOMAIN functions[fn].loops /\ declared
  /\ generated \subseteq Nat \X Nat /\ loopCounter \in Nat
  /\ tables \in [Table -> SUBSET ((1..fn) \X (Nat \ {0}))]
  /\ madeFor \subseteq generated \X ((1..fn) \X (Nat \ {0}))
  /\ replaced \subseteq (1..fn) \X (Nat \ {0})

\* No part ever reads what was found out about another loop, whose instructions may be
\* freed and their addresses given to new ones, nor a table that was not filled: what
\* is not emptied before use was emptied by clear, whichever way the runs before
\* ended (DSWP_5.cpp:295-334).
TablesOfThisLoop ==
  pc \in DOMAIN Calls =>
    /\ \A t \in Calls[pc].reads : tables[t] = {L}
    /\ \A t \in Calls[pc].fills \ Calls[pc].resets : tables[t] \subseteq {L}

\* A worker function is the worker of one loop: getOrInsertFunction never gives one
\* that has a body already, in which two loops would be put one behind the other
\* (DSWP_4.cpp:77-86).
OneLoopPerWorker ==
  \A p, q \in madeFor : p[1] = q[1] => p[2] = q[2]

\* What the pass is for: it ends with every top-level loop of the source that it can
\* split replaced, and no other; the loops of its own workers are left alone.  It dies
\* on a segfault only at the second loop of a function that it can split ("this will
\* be invalidated the second time through", DSWP_4.cpp:487), or else in a function
\* with a block that does not end.
Splittable(l) == l.depth = 1 /\ l.unique /\ l.sccs > 1
ReplacedOrDead ==
  /\ pc = "finished" =>
       replaced = UNION {{f} \X {m \in DOMAIN functions[f].loops : Splittable(functions[f].loops[m])}
                           : f \in {g \in DOMAIN functions : functions[g].name[1] = 0}}
  /\ pc = "segfault" =>
       ~functions[fn].returns \/ \E m \in 1..nth - 1 : Splittable(functions[fn].loops[m])

\* The pass ends, though it appends functions with loops to the module it goes through.
Terminates == <>(pc \in {"finished"} \cup Fatal)
=============================================================================
