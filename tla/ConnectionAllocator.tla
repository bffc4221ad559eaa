------------------------ MODULE ConnectionAllocator ------------------------
(***************************************************************************)
(* What the rest of a worker relies on when it calls getIdleConnection and *)
(* http_close_connection: a connection object that is handed out is not    *)
(* held by anyone else, no more than max_connections objects are out at a  *)
(* time, an object is returned at most once per hand-out, and the object   *)
(* of the listening socket stays out for ever.                             *)
(***************************************************************************)
EXTENDS Naturals, FiniteSets

CONSTANTS MaxConnections, \* server_cfg.max_connections
          Listen          \* the object of the listening socket

VARIABLE busy             \* the objects that are handed out

Init == busy = {Listen}

(* getIdleConnection succeeds: one object nobody holds is handed out.      *)
Acquire == /\ Cardinality(busy) < MaxConnections
           /\ \E c \in busy' : c \notin busy /\ busy' = busy \cup {c}

(* http_close_connection returns one object.                               *)
Release == \E c \in busy \ {Listen} : busy' = busy \ {c}

Next == Acquire \/ Release

Spec == Init /\ [][Next]_busy
=============================================================================
