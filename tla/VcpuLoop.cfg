SPECIFICATION FairSpec
CONSTANTS
  Kinds = {"interactive", "capture", "match"}
  Spurious = {"interactive", "capture"}
  MaxOutput = 2
  MaxExits = 3
INVARIANTS NoKickAfterReturn MatchNotBlocked
PROPERTIES TimeoutEnforced StopHeeded
CHECK_DEADLOCK FALSE
