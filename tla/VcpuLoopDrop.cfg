SPECIFICATION Spec
CONSTANTS
  Kinds = {"interactive"}
  Spurious = {}
  MaxOutput = 2
  MaxExits = 1
INVARIANT DropEndsWatchdog
CHECK_DEADLOCK FALSE
