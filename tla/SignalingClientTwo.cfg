\* Two requests that share the queue and the map.
CONSTANTS
  Requests = {r1, r2}
  Background = {}
  SendCap = 1
  SdpCap = 1
  NoRequest = NoRequest
SPECIFICATION Spec
SYMMETRY Symmetry
CONSTRAINT SdpConsumed
INVARIANTS
  TypeOK
  OneGeneration
  WaitersReachable
  OfflineWhileDown
CHECK_DEADLOCK FALSE
