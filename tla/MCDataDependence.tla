-------------------------- MODULE MCDataDependence --------------------------
(* Loops of three blocks with every choice of at most MaxAccess accesses to   *)
(* two places, one written and one read before the loop.                         *)
EXTENDS DataDependence

CONSTANTS
  MaxAccess,   \* how many accesses the loop has
  Kinds,       \* the kinds of access looked at
  x, y         \* the places

IfThen == 0 :> {1, 2} @@ 1 :> {2} @@ 2 :> {0, 3}
InnerLoop == 0 :> {1} @@ 1 :> {1, 2} @@ 2 :> {0, 3}
MCShapes == {IfThen, InnerLoop}
MCLocation == {x, y}

Plain == [kind : {"load", "store"}, loc : {{x}, {y}}]
Wide == [kind : {"load", "store", "call", "invoke"}, loc : {{x, y}}]
MCKinds == Plain \cup Wide

\* A value computed in the header, used twice by the last instruction and once after the loop.
Other == [kind |-> "other", loc |-> {}]
Before == <<[kind |-> "store", loc |-> {x}], [kind |-> "load", loc |-> {y}]>>

\* With MaxAccess of them each is to one place.
Narrow(f) == \A b \in Block : Range(f[b]) \subseteq Plain

Lengths == {l \in [Block -> 0..MaxAccess] : l[0] + l[1] + l[2] \in 1..MaxAccess}
Bodies ==
  UNION {{f \in {0 :> f0 @@ 1 :> f1 @@ 2 :> f2 : f0 \in [1..l[0] -> Kinds], f1 \in [1..l[1] -> Kinds],
                                                 f2 \in [1..l[2] -> Kinds]} :
            l[0] + l[1] + l[2] = MaxAccess => Narrow(f)} : l \in Lengths}

MCPrograms ==
  {[cfg |-> cfg, insts |-> (predecessor :> Before) @@ [b \in Block |-> IF b = 0 THEN <<Other>> \o f[0] ELSE f[b]],
    users |-> [i \in UNION {{b} \X (1..(Len(f[b]) + IF b = 0 THEN 1 ELSE 0)) : b \in Block} |->
                 IF i # <<0, 1>> THEN <<>>
                 ELSE IF f[2] = <<>> THEN <<outside>>
                 ELSE <<<<2, Len(f[2])>>, outside, <<2, Len(f[2])>>>>]]
     : cfg \in MCShapes, f \in Bodies}
=============================================================================
