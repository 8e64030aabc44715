---------------------------- MODULE MCSimpleSync ----------------------------
(* Two regions one after the other on the same channels, each a pipeline of  *)
(* three stages: 0 to 1 on channel 0, 1 to 2 on channel 1, 0 to 2 on channel  *)
(* 2.  The first region fills a queue just up if nobody consumes, the second  *)
(* sends more than a queue holds.                                            *)
EXTENDS RegionsInSequence

MCRegion == {1, 2}

Iteration == <<
  <<DoOn("produce", 0), DoOn("produce", 2)>>,
  <<DoOn("consume", 0), DoOn("produce", 1)>>,
  <<DoOn("consume", 1), DoOn("consume", 2)>> >>

Stage(t, n) == [k \in 1..2 * n |-> Iteration[t + 1][((k - 1) % 2) + 1]]
               \o <<Do("store")>>

MCProgram == [c \in Control |->
  IF c = Main THEN ReplaceBlock(1) \o ReplaceBlock(2)
  ELSE Stage(c[2], c[1] + 1)]

MCStart == [r \in Region |-> IF r = 1 THEN 0 ELSE Len(ReplaceBlock(1))]
=============================================================================
