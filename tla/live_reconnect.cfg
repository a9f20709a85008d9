SPECIFICATION Spec
CONSTANTS
  p1 = p1
  p2 = p2
  Pages = {p1, p2}
  Cap = 2
  MaxVersion = 4
  MaxConnects = 2
INVARIANTS
  ReconnectedPageIsCurrent
CHECK_DEADLOCK FALSE
