----------------------------- MODULE MCFindSCC -----------------------------
(* Graphs on four instructions: any dependence on an earlier instruction;     *)
(* around the loop, from an instruction to the one before it, from the last   *)
(* to the first, and from the last (the loop's branch) to itself.  They have  *)
(* up to four components, of one to four instructions, and nested cycles.     *)
EXTENDS FindSCC

MCMayDepend == {e \in Inst \X Inst :
                  \/ e[1] < e[2] \/ e[1] = e[2] + 1
                  \/ e[1] = NumInst - 1 /\ e[2] \in {0, NumInst - 1}}
=============================================================================
