\* Disconnect during an establishment.
CONSTANTS
  Peers = {p1}
  Sessions = {s1}
  Handlers = {}
  NoSession = NoSession
  NoPeer = NoPeer
SPECIFICATION Spec
PROPERTIES
  NoConnectedAfterLeave
CHECK_DEADLOCK FALSE
