-------------------------- MODULE MCFileImageStore --------------------------
(* A daemon with two threads beside a command line run with one.           *)
EXTENDS FileImageStore, TLC

CONSTANTS daemon, cli, t1, t2, t3

TwoProcesses == t1 :> daemon @@ t2 :> daemon @@ t3 :> cli
=============================================================================
