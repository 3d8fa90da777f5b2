\* The thread safety the documentation promises.
CONSTANTS
  Requests = {r1}
  Background = {}
  SendCap = 1
  SdpCap = 1
  NoRequest = NoRequest
SPECIFICATION Spec
INVARIANTS
  NoSendOnClosedChannel
CHECK_DEADLOCK FALSE
