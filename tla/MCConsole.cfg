SPECIFICATION Spec
CONSTANTS
  Configs <- MCConfigs
  Programs <- MCPrograms
  Callers <- MCCallers
  Streams <- MCStreams
  Digits <- MCDigits
INVARIANTS ExecAnswersItself StreamWhole
PROPERTIES InputReachesGuest
CHECK_DEADLOCK FALSE
