SPECIFICATION FairSpec
CONSTANTS
  u1 = u1
  u2 = u2
  u3 = u3
  Updates = {u1}
  Shipped = Shipped
  None = None
  Services = {"nssm", "launchd", "systemd"}
  MaxCrashes = 0
PROPERTIES
  AnyServiceRestarts
CHECK_DEADLOCK FALSE
