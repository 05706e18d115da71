CONSTANTS
  b1 = b1
  b2 = b2
  b3 = b3
  Requests <- ChainRequests
  NoImage = NoImage
  Builders = {b1, b2, b3}
  Deleters = {}
  StorageFails = FALSE
  CallbacksFail = TRUE
  Crashes = {}
  PluginStatuses = {}
SPECIFICATION Spec
PROPERTIES PollsEnd
