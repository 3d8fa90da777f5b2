\* An agent that reports a lost link.
CONSTANTS
  Peers = {p1}
  Sessions = {s1}
  Handlers = {"ice"}
  NoSession = NoSession
  NoPeer = NoPeer
SPECIFICATION FairSpec
PROPERTIES
  LostLinkReleased
CHECK_DEADLOCK FALSE
