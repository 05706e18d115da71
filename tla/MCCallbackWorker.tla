-------------------------- MODULE MCCallbackWorker --------------------------
(* Two threads and three updates for one callback worker.                  *)
EXTENDS CallbackWorker
=============================================================================
