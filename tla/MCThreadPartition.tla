------------------------- MODULE MCThreadPartition -------------------------
(* Every graph on four components, in every mix of free, cheap and dear      *)
(* latencies; three stages, so that there is a stage that is neither the     *)
(* first nor the last.                                                       *)
EXTENDS ThreadPartition

MCLatencies == {0, 1, 3}
=============================================================================
