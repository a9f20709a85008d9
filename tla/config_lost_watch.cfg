SPECIFICATION FairSpec
PROPERTY SaveGoesLive
CONSTANTS
  fast = fast
  smart = smart
  nim = nim
  v1 = v1
  v2 = v2
  Aliases = {fast, smart}
  ProviderIDs = {nim}
  Values = {v1, v2}
  Unreadable = Unreadable
  FirstDoc <- First
  Bodies <- MCBodies
  Edits <- OneModel
  Writers = {"dashboard", "raw"}
  MaxWrites = 5
  MaxCrashes = 0
CHECK_DEADLOCK FALSE
