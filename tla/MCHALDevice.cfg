SPECIFICATION Spec
CONSTANTS
  Client <- MCClient
  Rate <- MCRate
  DefaultRate = 44
  BGMApp = "bgmapp"
  MusicApp = "app"
  Helpers <- MCHelpers
  Thread = {t1, t2}
  NoCall = NoCall
  MaxCalls = 2
INVARIANT HostServed
INVARIANT EQMapHeldByOne
PROPERTY Progress
CHECK_DEADLOCK FALSE
