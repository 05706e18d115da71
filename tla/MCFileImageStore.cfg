CONSTANTS
  daemon = daemon
  cli = cli
  t1 = t1
  t2 = t2
  t3 = t3
  Processes = {daemon, cli}
  Threads = {t1, t2, t3}
  Process <- TwoProcesses
  Images = {i1}
  Versions = {v1, v2}
  NoThread = NoThread
  NoImage = NoImage
  DiskFails = TRUE
  Crashes = {cli}
SPECIFICATION Spec
INVARIANTS WholeUnderLock LastSaveStays BodyWithMeta
PROPERTIES LockFreed
