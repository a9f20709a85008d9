SPECIFICATION FairSpec
CONSTANTS
  u1 = u1
  u2 = u2
  u3 = u3
  Updates = {u1, u2, u3}
  Shipped = Shipped
  None = None
  Services = {"nssm", "launchd", "systemd", "none"}
  MaxCrashes = 2
INVARIANTS
  BinaryAtHand
  MissingOnlyMidway
  OneMover
  NoLitter
PROPERTIES
  UpdateTakesHold
CHECK_DEADLOCK FALSE
