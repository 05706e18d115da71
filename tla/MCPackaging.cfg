CONSTANTS
  Threads = {t1, t2}
  Asks <- AllAsks
  Home = home
  Fails = TRUE
SPECIFICATION Spec
INVARIANTS ArchiveWhole ReferencesResolve NeverHomeless
