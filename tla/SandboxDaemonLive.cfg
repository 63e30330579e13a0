SPECIFICATION FairSpec
CONSTANTS
  Ids = {s1}
  Images = {img}
  NoImage = NoImage
  Requests = {r1, r2}
  NoRequest = NoRequest
  MaxCreates = 2
  MaxCalls = 3
PROPERTIES  FlaggedVmEnds
CHECK_DEADLOCK FALSE
