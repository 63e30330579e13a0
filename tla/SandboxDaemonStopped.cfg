SPECIFICATION Spec
CONSTANTS
  Ids = {s1}
  Images = {img}
  NoImage = NoImage
  Requests = {r1, r2}
  NoRequest = NoRequest
  MaxCreates = 1
  MaxCalls = 3
INVARIANTS StoppedMeansKilled
CHECK_DEADLOCK FALSE
