\* Two sessions of one user, which meet at its repository entry.
CONSTANTS
  Peers = {p1}
  Sessions = {s1, s2}
  Handlers = {"ice"}
  NoSession = NoSession
  NoPeer = NoPeer
SPECIFICATION Spec
SYMMETRY Symmetry
CONSTRAINT OneDisturbed
INVARIANTS
  TypeOK
  NoDoubleClose
  RegistrySound
  DisconnectedInOrder
  FailureLeavesNothing
PROPERTIES
  OwnEntryOnly
  ImplementsRegistry
CHECK_DEADLOCK FALSE
