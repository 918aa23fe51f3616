SPECIFICATION FairSpec
CONSTANTS
  m1 = m1
  m2 = m2
  w1 = w1
  w2 = w2
  base = base
  io = io
  NoMsg = NoMsg
  BaseLoop = base
  IoLoops <- TwoLoops
  Msgs <- TwoMsgs
  Workers <- OneWorker
  ServerDies = TRUE
  MsgLen = 2
  HighWaterMark = 3
CHECK_DEADLOCK FALSE
INVARIANTS DownOnce ClosedCleanly InterestMatchesBuffer BytesInOrder DrainedBeforeShutdown
PROPERTIES NoMessageAfterDown PeerGoneDestroyed ShutdownCarriedOut
