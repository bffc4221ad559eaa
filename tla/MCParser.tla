------------------------------ MODULE MCParser ------------------------------
(* The path /a is passed on to a backend, every other one is a file.       *)
EXTENDS RequestParser

MCLocations == {<<"a">>}
=============================================================================
