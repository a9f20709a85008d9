SPECIFICATION Spec
CONSTANTS
  r1 = r1
  r2 = r2
  nim = nim
  ant = ant
  old = old
  none = none
  Requests = {r1}
  ClientModes = {"sse", "json", "openai"}
  Names <- MCNames
  Bare <- MCBare
  Asked = {"big", "big[1m]", "ghost"}
  ModelIDs = {"m"}
  Configs <- FailoverOrEdited
  NoModel = none
  Providers = {nim, ant, old}
  Keys = {"k1", "k2"}
  InitKeys <- KeysBoth
  RetryAfters = {0, 1}
  DefaultCooldown = 2
  MaxDepth = 10
  DefaultTimeout = 1
  SlowDial = TRUE
  MaxKeys = 2
  MaxEdits = 0
  MaxRestarts = 1
INVARIANTS
  PreStreamWithinBudget
CHECK_DEADLOCK FALSE
