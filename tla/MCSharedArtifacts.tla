------------------------- MODULE MCSharedArtifacts -------------------------
(* Small instances of SharedArtifacts.                                     *)
EXTENDS SharedArtifacts, TLC

CONSTANTS p1, p2, t1, t2, t3, t4, media, image

\* Two pushes in one process, a build and a push in another.
Factories == t1 :> p2 @@ t2 :> p1 @@ t3 :> p1 @@ t4 :> p2
Works == t1 :> media @@ t2 :> image @@ t3 :> image @@ t4 :> image

Pids == p1 :> 7 @@ p2 :> 8
=============================================================================
