\* One session, both kinds of reset, liveness.
CONSTANTS
  Peers = {p1}
  Sessions = {s1}
  Handlers = {"ice", "sdp"}
  NoSession = NoSession
  NoPeer = NoPeer
SPECIFICATION FairSpec
PROPERTIES
  TokenDecides
  BreakReported
  TornDownConnDies
  ClosingDrains
CHECK_DEADLOCK FALSE
