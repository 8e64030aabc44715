------------------------- MODULE MCSimpleSyncNested -------------------------
(* The loop of a stage calls a function with a transformed loop of its own, as *)
(* main, counter and getword of Example/wc.c do.                               *)
EXTENDS SimpleSync

MCRegion == {1, 2}

MCNested == [c \in Control |->
  IF c = Main THEN ReplaceBlock(1)
  ELSE IF c = <<1, 0>> THEN ReplaceBlock(2) \o <<Do("store")>>
  ELSE <<Do("store")>>]
=============================================================================
