------------------------------ MODULE MCRound ------------------------------
(***************************************************************************)
(* Instances of UpstreamRound for TLC: the weights of two servers.         *)
(***************************************************************************)
EXTENDS UpstreamRound, TLC

TwoWeights == 0 :> 1 @@ 1 :> 2
=============================================================================
