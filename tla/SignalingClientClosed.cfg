\* The reconnection the documentation promises.
CONSTANTS
  Requests = {r1}
  Background = {}
  SendCap = 1
  SdpCap = 1
  NoRequest = NoRequest
SPECIFICATION FairSpec
PROPERTIES
  ClosedLinkRedialled
CHECK_DEADLOCK FALSE
