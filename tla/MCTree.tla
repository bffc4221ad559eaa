------------------------------- MODULE MCTree -------------------------------
(***************************************************************************)
(* Instance of RbTree for TLC: six nodes, enough for a red sibling of a  *)
(* deleted node and for two turns of either repair loop; some keys tie.    *)
(***************************************************************************)
EXTENDS RbTree

SixNodes == 1 .. 6
TiedKeys == [n \in SixNodes |-> (n + 1) \div 2]
=============================================================================
