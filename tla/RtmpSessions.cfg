SPECIFICATION Spec
CONSTANTS
  c1 = c1
  c2 = c2
  c3 = c3
  a1 = a1
  n1 = n1
  n2 = n2
  l1 = l1
  l2 = l2
  None = None
  Conns <- ThreeConns
  LoopOf <- OneLoop
  Apps <- OneApp
  Names <- TwoNames
  Kinds = {"avc", "key", "inter"}
  MaxMedia = 2
  MaxSessions = 3
SYMMETRY Interchangeable
CONSTRAINT Scope
CHECK_DEADLOCK FALSE
INVARIANTS OnePublisher PublisherKept CleanedUp NoEmptySession CachesOfPublisher GopFromKeyFrame PlayersUpToDate
