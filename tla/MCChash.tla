------------------------------ MODULE MCChash ------------------------------
(***************************************************************************)
(* Instance of ConsistentHash for TLC: weights and hashcodes of servers.   *)
(***************************************************************************)
EXTENDS ConsistentHash, TLC

Weights3 == 0 :> 1 @@ 1 :> 2 @@ 2 :> 3
Points3 == 0 :> 5 @@ 1 :> 1 @@ 2 :> 3

Symmetry == Permutations(Requests)
=============================================================================
