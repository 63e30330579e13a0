SPECIFICATION Spec
CONSTANTS
  Ids = {s1}
  Images = {img}
  NoImage = NoImage
  Requests = {r1, r2}
  NoRequest = NoRequest
  MaxCreates = 2
  MaxCalls = 5
INVARIANTS TypeOK OneVmPerIncarnation FlaggedIsBeingStopped OwnMetadata
PROPERTIES KeepsLifecycle
CHECK_DEADLOCK FALSE
SYMMETRY Symmetry
