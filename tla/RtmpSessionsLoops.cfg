SPECIFICATION Spec
CONSTANTS
  c1 = c1
  c2 = c2
  c3 = c3
  a1 = a1
  n1 = n1
  n2 = n2
  l1 = l1
  l2 = l2
  None = None
  Conns <- TwoConns
  LoopOf <- TwoLoops
  Apps <- OneApp
  Names <- OneName
  Kinds = {"avc", "key", "inter"}
  MaxMedia = 0
  MaxSessions = 3
CHECK_DEADLOCK FALSE
INVARIANT OnePublisher
