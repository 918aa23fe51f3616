SPECIFICATION Spec
CONSTANTS
  c1 = c1
  c2 = c2
  c3 = c3
  a1 = a1
  n1 = n1
  n2 = n2
  l1 = l1
  l2 = l2
  None = None
  Conns <- ThreeConns
  LoopOf <- TwoLoops
  Apps <- OneApp
  Names <- OneName
  Kinds = {"key", "inter"}
  MaxMedia = 2
  MaxSessions = 2
SYMMETRY SameLoop
CONSTRAINT NoStrays
CHECK_DEADLOCK FALSE
INVARIANTS NoDeadSession NothingMissed
