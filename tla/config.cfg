SPECIFICATION FairSpec
INVARIANTS TypeOK DashboardEditIsLive
PROPERTIES StoreImplemented NoticedSaveGoesLive
CONSTANTS
  fast = fast
  smart = smart
  nim = nim
  v1 = v1
  v2 = v2
  Aliases = {fast, smart}
  ProviderIDs = {nim}
  Values = {v1, v2}
  Unreadable = Unreadable
  FirstDoc <- First
  Bodies <- MCBodies
  Edits <- AllKinds
  Writers = {"dashboard", "raw", "replace", "move"}
  MaxWrites = 4
  MaxCrashes = 1
CHECK_DEADLOCK FALSE
