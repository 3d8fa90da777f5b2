\* One request without a deadline, and the connection beneath it.
CONSTANTS
  Requests = {r1}
  Background = {r1}
  SendCap = 1
  SdpCap = 1
  NoRequest = NoRequest
SPECIFICATION FairSpec
PROPERTIES
  BrokenLinkRedialled
  CallsReturn
CHECK_DEADLOCK FALSE
