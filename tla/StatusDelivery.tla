--------------------------- MODULE StatusDelivery ---------------------------
(***************************************************************************)
(* What a callback worker promises to the images it reports on: a status   *)
(* update that was accepted is put to the callback URL after every update  *)
(* accepted before it, none is skipped, and once the worker has been       *)
(* closed it puts what is left and stops.                                  *)
(***************************************************************************)
EXTENDS Sequences

CONSTANT Updates

VARIABLES pending,      \* accepted and not yet put, oldest first
          put,          \* put to the URL, oldest first
          closed,       \* the worker has been told to shut down
          stopped       \* the worker has exited

vars == <<pending, put, closed, stopped>>

Init ==
  /\ pending = <<>>
  /\ put = <<>>
  /\ closed = FALSE
  /\ stopped = FALSE

Accept(u) ==
  /\ pending' = Append(pending, u)
  /\ UNCHANGED <<put, closed, stopped>>

Put ==
  /\ ~stopped
  /\ pending # <<>>
  /\ put' = Append(put, Head(pending))
  /\ pending' = Tail(pending)
  /\ UNCHANGED <<closed, stopped>>

Close ==
  /\ closed' = TRUE
  /\ UNCHANGED <<pending, put, stopped>>

Stop ==
  /\ closed
  /\ pending = <<>>
  /\ stopped' = TRUE
  /\ UNCHANGED <<pending, put, closed>>

Next ==
  \/ \E u \in Updates : Accept(u)
  \/ Put
  \/ Close
  \/ Stop

Spec == Init /\ [][Next]_vars /\ WF_vars(Put) /\ WF_vars(Stop)
=============================================================================
