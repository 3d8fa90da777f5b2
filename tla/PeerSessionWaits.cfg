\* The establishment deadline of the documentation.
CONSTANTS
  Peers = {p1}
  Sessions = {s1}
  Handlers = {"ice"}
  NoSession = NoSession
  NoPeer = NoPeer
SPECIFICATION FairSpec
PROPERTIES
  EstablishmentEnds
CHECK_DEADLOCK FALSE
