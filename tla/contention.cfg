SPECIFICATION Spec
CONSTANTS
  r1 = r1
  r2 = r2
  nim = nim
  ant = ant
  old = old
  none = none
  Requests = {r1, r2}
  ClientModes = {"sse"}
  Names <- MCNames
  Bare <- MCBare
  Asked = {"big"}
  ModelIDs = {"m"}
  Configs <- SingleOnly
  NoModel = none
  Providers = {ant}
  Keys = {"k1", "k2"}
  InitKeys <- KeysAnt
  RetryAfters = {0}
  DefaultCooldown = 1
  MaxDepth = 10
  DefaultTimeout = 1
  SlowDial = FALSE
  MaxKeys = 3
  MaxEdits = 1
  MaxRestarts = 0
SYMMETRY RequestSymmetry
INVARIANTS
  LeakBounded
  EveryKeyConsidered
CHECK_DEADLOCK FALSE
