CONSTANTS
  b1 = b1
  b2 = b2
  b3 = b3
  Requests <- ChainRequests
  NoImage = NoImage
  Builders = {b1, b2, b3}
  Deleters = {}
  StorageFails = TRUE
  CallbacksFail = TRUE
  Crashes = {b1, b2}
  PluginStatuses = {"PENDING", "BUILDING", "COMPLETE", "FAILED"}
SPECIFICATION Spec
PROPERTIES ThreadsEnd
