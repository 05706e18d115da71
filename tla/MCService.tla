----------------------------- MODULE MCService -----------------------------
(* One builder and two deletions, or two builders and one; and one thread  *)
(* that serves requests.                                                   *)
EXTENDS Service
=============================================================================
