CONSTANTS
  Threads = {t1, t2}
  Updates = {u1, u2, u3}
  NoThread = NoThread
  NoUpdate = NoUpdate
SPECIFICATION Spec
INVARIANTS InOrder NoLostWakeup NotStranded DrainedAtExit
PROPERTIES WorkerTerminates ImplementsStatusDelivery
