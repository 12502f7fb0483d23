SPECIFICATION Spec
CONSTANTS
  MaxPid = 3
  Optional = {"restart"}
INVARIANTS OneInstance ClosedHubEnds
PROPERTY ExitHonoured
CHECK_DEADLOCK FALSE
