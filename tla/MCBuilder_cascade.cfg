CONSTANTS
  b1 = b1
  b2 = b2
  b3 = b3
  Requests <- CascadeRequests
  NoImage = NoImage
  Builders = {b1, b2, b3}
  Deleters = {d1}
  StorageFails = TRUE
  CallbacksFail = FALSE
  Crashes = {}
  PluginStatuses = {"PENDING", "BUILDING", "COMPLETE", "FAILED"}
SPECIFICATION Spec
INVARIANTS StageOrder ReportedIsStored
PROPERTIES CompleteTakenBack NoReportAfterShutDown ImplementsImageLifecycle
