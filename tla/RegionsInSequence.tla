------------------------- MODULE RegionsInSequence -------------------------
(***************************************************************************)
(* The programs for which simple_sync.c keeps its promises: the main thread*)
(* executes its loop-replace blocks one after the other, and no worker     *)
(* executes one, so that the one table of threads and the one table of     *)
(* queues belong to one region at a time.  The pass generates such a       *)
(* program unless a transformed loop calls a function with another one.    *)
(***************************************************************************)
EXTENDS SimpleSync

CONSTANT Start   \* region -> the operations main executes before its block

\* Where in main's program the block of region r is.
BlockOf(r) == Start[r] + 1..Start[r] + Len(ReplaceBlock(r))

MainInSequence ==
  /\ Start \in [Region -> Nat]
  /\ \A r \in Region : \A n \in 1..Len(ReplaceBlock(r)) :
       /\ Start[r] + n <= Len(Program[Main])
       /\ Program[Main][Start[r] + n] = ReplaceBlock(r)[n]
  /\ \A r, s \in Region : r # s => BlockOf(r) \cap BlockOf(s) = {}
  /\ \A n \in 1..Len(Program[Main]) : \E r \in Region : n \in BlockOf(r)

\* A worker exchanges values, and stores its live-outs before it returns.
WorkersPlain ==
  \A w \in Worker :
    /\ \A n \in 1..Len(Program[w]) : Program[w][n].op \in {"produce", "consume", "store"}
    /\ \E n \in 1..Len(Program[w]) : Program[w][n].op = "store"

Uses(w, k, q) == \E n \in 1..Len(Program[w]) : Program[w][n] = DoOn(k, q)

\* A channel is that of one dependence: one stage produces on it, one consumes.
OneEachEnd ==
  \A r \in Region, q \in Channel, k \in {"produce", "consume"} : \A t, u \in Tid :
    Uses(<<r, t>>, k, q) /\ Uses(<<r, u>>, k, q) => t = u

ASSUME SequenceAssumption == MainInSequence /\ WorkersPlain /\ OneEachEnd
=============================================================================
