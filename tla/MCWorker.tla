------------------------------ MODULE MCWorker ------------------------------
(***************************************************************************)
(* Instance of Worker for TLC.  The connection objects are interchangeable *)
(* (the pool may return any free one), so they form a symmetry set.        *)
(***************************************************************************)
EXTENDS Worker, TLC

Symmetric == Permutations(Conns)
=============================================================================
