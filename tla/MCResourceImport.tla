-------------------------- MODULE MCResourceImport --------------------------
(* Small instances of ResourceImport: j1 and j2 import the same season, n1 *)
(* is an ordinary import of something else.                                *)
EXTENDS ResourceImport

CONSTANTS j1, j2, n1

MCSeason == [j \in Jobs |-> IF j = n1 THEN "s2" ELSE "s1"]
=============================================================================
