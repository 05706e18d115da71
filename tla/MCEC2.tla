------------------------------- MODULE MCEC2 -------------------------------
(* Each wait looks twice, and a deletion is tried three times.             *)
EXTENDS EC2

Twice == [wait \in Waits |-> IF wait = "delvolume" THEN 3 ELSE 2]
=============================================================================
