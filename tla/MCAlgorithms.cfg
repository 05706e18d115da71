CONSTANTS
  Undecodable <- Spoilt
  Listings <- PluginFiles
  Wanted <- Templates
  Clouds <- CloudTargets
  Sections <- IncludeLists
  ThisBuild <- OneBuild
  Merges <- EntryLists
  Requests <- AllRequests
  Settings <- AllSettings
SPECIFICATION Computation
INVARIANTS NearestPlugin NearestInclude MergedContent HonestAnswers
