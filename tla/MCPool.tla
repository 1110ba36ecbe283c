------------------------------- MODULE MCPool -------------------------------
(* Four JSON sockets and two of the file port share buckets of three.      *)
EXTENDS Pool

CONSTANTS j1, j2, j3, j4, f1, f2, b1, b2, b3

MCLoopOf == [s \in Sockets |-> IF s \in {f1, f2} THEN "files" ELSE "json"]
=============================================================================
