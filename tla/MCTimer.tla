------------------------------ MODULE MCTimer ------------------------------
(***************************************************************************)
(* Instance of TimerQueue for TLC: the clock wraps after sixteen units.    *)
(***************************************************************************)
EXTENDS TimerQueue

AllKeys == 0 .. M - 1
=============================================================================
