SPECIFICATION Spec
CONSTANTS
  m1 = m1
  m2 = m2
  w1 = w1
  w2 = w2
  base = base
  io = io
  NoMsg = NoMsg
  BaseLoop = base
  IoLoops <- PoolLoop
  Msgs <- OneMsg
  Workers <- TwoWorkers
  ServerDies = FALSE
  MsgLen = 2
  HighWaterMark = 3
CHECK_DEADLOCK FALSE
INVARIANT ClosedOnce
